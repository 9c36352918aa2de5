-------------------------- MODULE TxSequenceProofs --------------------------
(***************************************************************************)
(* The safety of a multi-transaction flow (hooks/useTx.ts), for any lists  *)
(* of distinct steps and any number of transactions: its types, that no    *)
(* step is sent twice, that what is offered again did not run, that steps  *)
(* run in order, that a synced wallet does not sign a used nonce, and that *)
(* the whole implements OrderedSteps.                                      *)
(***************************************************************************)
EXTENDS TxSequence, FiniteSetTheorems, SequenceTheorems, TLAPS

Flowing == status \in {"running", "waiting", "failed"}

(* A hash is out and its receipt is what the flow needs.                   *)
Awaiting == pc = "receipt" \/ status = "waiting"

(* The current step has not been sent, or its sending came to nothing.     *)
Unsent == pc \in {"prepare", "wallet"} \/ (status = "failed" /\ ~maybeSent)

(* The transactions of t that ran a step, or may still run it.             *)
RanIn(t, s) == {h \in DOMAIN t : t[h].step = s /\ t[h].fate = "success"}

LiveIn(t, s) ==
  {h \in DOMAIN t : t[h].step = s /\ t[h].fate \in {"success", "pending"}}

(* The page's variables fit together.                                      *)
Shape ==
  /\ Len(phase) = Len(steps)
  /\ status = "running" <=> pc # "idle"
  /\ syncing => pc = "prepare"
  /\ Flowing => at \in DOMAIN steps
  /\ status = "idle" => steps = <<>>
  /\ pc \in {"wallet", "judge"} => before # Awaited
  /\ Awaiting => hash \in DOMAIN txs /\ txs[hash].step = steps[at]
  /\ \A i, j \in DOMAIN steps : steps[i] = steps[j] => i = j

(* Which transactions of a step there can be.                              *)
Lone == \A s \in Steps : \A h, k \in LiveIn(txs, s) : h = k

AheadUnsent ==
  Flowing => \A i \in DOMAIN steps : i > at => LiveIn(txs, steps[i]) = {}

CurrentUnsent == Unsent => LiveIn(txs, steps[at]) = {}

OnlyHash == Awaiting => LiveIn(txs, steps[at]) \subseteq {hash}

(* The pending count of before the prompt tells whether one was sent.      *)
CountTells ==
  pc \in {"prepare", "wallet", "judge"} /\ before \in Nat =>
    /\ before <= PendingCount
    /\ LiveIn(txs, steps[at]) # {} => before < PendingCount

SentInv == Lone /\ AheadUnsent /\ CurrentUnsent /\ OnlyHash /\ CountTells

(* What ran.                                                               *)
OrderInv ==
  /\ status = "done" => \A i \in DOMAIN steps : RanIn(txs, steps[i]) # {}
  /\ Flowing => \A i \in DOMAIN steps : i < at => RanIn(txs, steps[i]) # {}
  /\ Flowing => \A i \in DOMAIN steps : i >= at => phase[i] # "done"

(* What the tab knows of the account while it noted everything.            *)
MinedFates == {"success", "reverted", "replaced"}

HashMined == Awaiting /\ txs[hash].fate \in MinedFates

NotedInv ==
  /\ walletCount <= count
  /\ ~unnoted =>
       /\ Pool \subseteq {hash}
       /\ Pool # {} => Awaiting /\ txs[hash].nonce = count
       /\ HashMined => txs[hash].nonce + 1 = count /\ lastMined <= count
       /\ ~HashMined => lastMined = count
       /\ pc \in {"prepare", "wallet"} => prev = lastMined
       /\ pc = "wallet" /\ ~late => walletCount = count

Unfated(t) == {h \in DOMAIN t : t[h].fate \in {"pending", "superseded"}}

OwnRan(t) == {h \in DOMAIN t : t[h].step # Foreign /\ t[h].fate = "success"}

(* The account's transactions mine in their order, and one that may still  *)
(* run a step runs a step of this flow.                                    *)
MinesInOrder(t) == \A h \in Unfated(t), k \in DOMAIN t : h < k => k \in Unfated(t)

OwnSteps(t, list) ==
  \A h \in DOMAIN t :
    t[h].step # Foreign /\ t[h].fate = "pending" =>
      \E i \in DOMAIN list : t[h].step = list[i]

FlowInv == MinesInOrder(txs) /\ OwnSteps(txs, steps)

-----------------------------------------------------------------------------
(* Facts on the account's transactions.                                    *)

Types ==
  /\ steps \in Seq(Steps)
  /\ status \in {"idle", "running", "waiting", "failed", "done"}
  /\ phase \in Seq({"todo", "signing", "mining", "done", "error"})
  /\ maybeSent \in BOOLEAN /\ syncing \in BOOLEAN
  /\ pc \in {"idle", "prepare", "wallet", "judge", "receipt"}
  /\ at \in Nat /\ hash \in Nat /\ prev \in Nat
  /\ lastMined \in Nat /\ count \in Nat /\ walletCount \in Nat
  /\ before \in Nat \cup {Awaited, Unread}
  /\ txs \in Seq(Tx)
  /\ unnoted \in BOOLEAN /\ late \in BOOLEAN

LEMMA TypesAgree == TypeOK <=> Types
<1>1. {at, hash, prev, lastMined, count, walletCount} \subseteq Nat
        <=> /\ at \in Nat /\ hash \in Nat /\ prev \in Nat
            /\ lastMined \in Nat /\ count \in Nat /\ walletCount \in Nat
  OBVIOUS
<1> QED BY <1>1 DEF TypeOK, Types

LEMMA NextTypesAgree == TypeOK' <=> Types'
<1>1. {at', hash', prev', lastMined', count', walletCount'} \subseteq Nat
        <=> /\ at' \in Nat /\ hash' \in Nat /\ prev' \in Nat
            /\ lastMined' \in Nat /\ count' \in Nat /\ walletCount' \in Nat
  OBVIOUS
<1> QED BY <1>1 DEF TypeOK, Types

LEMMA TxFields ==
  ASSUME Types, NEW h \in DOMAIN txs
  PROVE  /\ txs[h] \in Tx /\ txs[h].step \in Steps \cup {Foreign}
         /\ txs[h].nonce \in Nat /\ txs[h].fate \in Fates
         /\ h \in 1..Len(txs) /\ h \in Nat
<1>1. txs[h] \in Tx /\ h \in 1..Len(txs) /\ Len(txs) \in Nat
  BY DEF Types
<1> QED BY <1>1 DEF Tx

LEMMA PoolFacts ==
  ASSUME Types
  PROVE  /\ Pool \subseteq DOMAIN txs /\ IsFiniteSet(Pool)
         /\ Cardinality(Pool) \in Nat /\ PendingCount \in Nat
<1>1. DOMAIN txs = 1..Len(txs) /\ Len(txs) \in Nat /\ count \in Nat
  BY DEF Types
<1>2. Pool \subseteq 1..Len(txs)
  BY <1>1 DEF Pool
<1>3. IsFiniteSet(1..Len(txs))
  BY <1>1, FS_Interval
<1>4. IsFiniteSet(Pool)
  BY <1>2, <1>3, FS_Subset
<1>5. Cardinality(Pool) \in Nat
  BY <1>4, FS_CardinalityType
<1> QED BY <1>1, <1>2, <1>4, <1>5 DEF PendingCount

LEMMA OrphanTypes ==
  ASSUME Types
  PROVE  /\ Orphans \in Seq(Tx)
         /\ DOMAIN Orphans = 1..Cardinality(Pool)
         /\ \A h \in DOMAIN Orphans : Orphans[h].step = Foreign
<1>1. Cardinality(Pool) \in Nat /\ count \in Nat
  BY PoolFacts DEF Types
<1>2. \A k \in 1..Cardinality(Pool) :
        [step |-> Foreign, nonce |-> count + k - 1, fate |-> "pending"] \in Tx
  BY <1>1 DEF Tx, Fates
<1> QED BY <1>1, <1>2 DEF Orphans

(* A transaction is sent.                                                  *)
LEMMA Sending ==
  ASSUME Types, Flowing => at \in DOMAIN steps, Flowing, Broadcast
  PROVE  /\ txs' \in Seq(Tx) /\ Len(txs') = Len(txs) + 1
         /\ Len(txs) + 1 \notin DOMAIN txs /\ Len(txs) + 1 \in Nat
         /\ DOMAIN txs' = DOMAIN txs \cup {Len(txs) + 1}
         /\ \A h \in DOMAIN txs : txs'[h] = txs[h]
         /\ txs'[Len(txs) + 1].step = steps[at]
         /\ txs'[Len(txs) + 1].nonce = PendingCount
         /\ txs'[Len(txs) + 1].fate = "pending"
<1> DEFINE tx == [step |-> steps[at], nonce |-> PendingCount,
                  fate |-> "pending"]
<1>1. steps[at] \in Steps
  BY DEF Types
<1>2. tx \in Tx /\ tx.step = steps[at] /\ tx.nonce = PendingCount
      /\ tx.fate = "pending"
  BY <1>1, PoolFacts DEF Tx, Fates
<1>3. txs' = Append(txs, tx)
  BY DEF Broadcast
<1> HIDE DEF tx
<1>4. txs \in Seq(Tx) /\ Len(txs) \in Nat
  BY DEF Types
<1> QED BY <1>2, <1>3, <1>4

(* The fate of a transaction in the pool changes.                          *)
LEMMA Fating ==
  ASSUME Types, NEW h \in Pool, NEW f \in Fates,
         txs' = [txs EXCEPT ![h].fate = f]
  PROVE  /\ txs' \in Seq(Tx) /\ DOMAIN txs' = DOMAIN txs
         /\ \A k \in DOMAIN txs : /\ txs'[k].step = txs[k].step
                                  /\ txs'[k].nonce = txs[k].nonce
                                  /\ k # h => txs'[k].fate = txs[k].fate
         /\ txs'[h].fate = f
<1>1. h \in DOMAIN txs
  BY DEF Pool
<1>2. txs[h] \in Tx
  BY <1>1, TxFields
<1>3. [txs[h] EXCEPT !.fate = f] \in Tx
  BY <1>2 DEF Tx
<1>4. txs' = [txs EXCEPT ![h] = [txs[h] EXCEPT !.fate = f]]
  OBVIOUS
<1>5. txs \in Seq(Tx)
  BY DEF Types
<1>6. txs' \in Seq(Tx) /\ DOMAIN txs' = DOMAIN txs
  BY <1>1, <1>3, <1>4, <1>5
<1>7. ASSUME NEW k \in DOMAIN txs
      PROVE  /\ txs'[k].step = txs[k].step /\ txs'[k].nonce = txs[k].nonce
             /\ k # h => txs'[k].fate = txs[k].fate
             /\ k = h => txs'[k].fate = f
  <2>1. txs[k] \in Tx
    BY TxFields
  <2> QED BY <1>4, <2>1 DEF Tx
<1> QED BY <1>1, <1>6, <1>7

-----------------------------------------------------------------------------
(* The page's variables keep their types and fit together.                 *)

Phases == {"todo", "signing", "mining", "done", "error"}

LEMMA PhaseSet ==
  ASSUME Types, NEW i \in DOMAIN phase, NEW p \in Phases
  PROVE  /\ [phase EXCEPT ![i] = p] \in Seq(Phases)
         /\ Len([phase EXCEPT ![i] = p]) = Len(phase)
<1>1. phase \in Seq(Phases)
  BY DEF Types, Phases
<1> QED BY <1>1

LEMMA StepAt ==
  ASSUME Types, Shape, Flowing
  PROVE  /\ at \in DOMAIN steps /\ at \in DOMAIN phase
         /\ at \in 1..Len(steps) /\ steps[at] \in Steps
BY DEF Types, Shape

(* The run stops at its step.                                              *)
LEMMA FailShape ==
  ASSUME Types, Shape, Flowing, NEW sent \in BOOLEAN, Fail(sent),
         UNCHANGED <<steps, at, hash, prev, before, late, lastMined>>,
         count' \in Nat, walletCount' \in Nat, txs' \in Seq(Tx),
         unnoted' \in BOOLEAN
  PROVE  Types' /\ Shape'
<1>1. phase' \in Seq(Phases) /\ Len(phase') = Len(phase)
  BY StepAt, PhaseSet DEF Fail, Phases
<1>2. Types'
  BY <1>1 DEF Types, Fail, Phases
<1>3. Shape'
  BY <1>1, StepAt DEF Shape, Fail, Flowing, Awaiting
<1> QED BY <1>2, <1>3

LEMMA RunningFlows == Shape /\ pc # "idle" => Flowing /\ status = "running"
BY DEF Shape, Flowing

LEMMA NoteTypes ==
  ASSUME Types, NEW h \in DOMAIN txs, NEW read \in BOOLEAN, NoteMined(h, read)
  PROVE  lastMined' \in Nat /\ unnoted' \in BOOLEAN
<1>1. txs[h].nonce \in Nat
  BY TxFields
<1>2. lastMined \in Nat /\ unnoted \in BOOLEAN /\ txs[h].nonce + 1 \in Nat
  BY <1>1 DEF Types
<1>3. CASE ~read
  BY <1>2, <1>3 DEF NoteMined
<1>4. CASE read
  <2>1. /\ unnoted' = unnoted
        /\ lastMined' = IF txs[h].nonce + 1 > lastMined
                         THEN txs[h].nonce + 1 ELSE lastMined
    BY <1>4 DEF NoteMined
  <2> QED BY <2>1, <1>2
<1> QED BY <1>3, <1>4

LEMMA InitShape == Init => Types /\ Shape
<1> SUFFICES ASSUME Init PROVE Types /\ Shape
  OBVIOUS
<1>1. Types
  <2>1. /\ steps \in Seq(Steps) /\ txs \in Seq(Tx)
        /\ phase \in Seq({"todo", "signing", "mining", "done", "error"})
    BY DEF Init
  <2>2. before \in Nat \cup {Awaited, Unread}
    BY DEF Init
  <2> QED BY <2>1, <2>2 DEF Init, Types
<1>2. Shape
  BY DEF Init, Shape, Flowing, Awaiting
<1> QED BY <1>1, <1>2

LEMMA PageShape ==
  ASSUME Types, Shape, Page
  PROVE  Types' /\ Shape'
<1>1. ASSUME EstimateReverts PROVE Types' /\ Shape'
  <2>1. Flowing
    BY <1>1, RunningFlows DEF EstimateReverts
  <2>2. /\ Fail(FALSE)
        /\ UNCHANGED <<steps, at, hash, prev, before, late, lastMined, txs,
                       count, walletCount, unnoted>>
    BY <1>1 DEF EstimateReverts, chain
  <2>3. /\ count' \in Nat /\ walletCount' \in Nat /\ txs' \in Seq(Tx)
        /\ unnoted' \in BOOLEAN
    BY <2>2 DEF Types
  <2> QED BY <2>1, <2>2, <2>3, FailShape
<1>2. ASSUME NEW c \in {PendingCount, Unread}, CountRead(c)
      PROVE  Types' /\ Shape'
  <2>1. before' \in Nat \cup {Awaited, Unread}
    BY <1>2, PoolFacts DEF CountRead
  <2>2. /\ UNCHANGED <<steps, status, phase, maybeSent, syncing, pc, at, hash,
                       prev, late, lastMined, txs, count, walletCount, unnoted>>
        /\ pc = "prepare"
    BY <1>2 DEF CountRead, run, chain
  <2>3. Types'
    BY <2>1, <2>2 DEF Types
  <2>4. Shape'
    BY <2>2 DEF Shape, Flowing, Awaiting
  <2> QED BY <2>3, <2>4
<1>3. ASSUME NEW t \in BOOLEAN, Prompt(t) PROVE Types' /\ Shape'
  <2>0. late' \in BOOLEAN
    BY <1>3 DEF Prompt
  <2>1. Types'
    BY <1>3, <2>0 DEF Prompt, Types, chain
  <2>2. Shape'
    BY <1>3 DEF Prompt, Shape, Flowing, Awaiting, chain
  <2> QED BY <2>1, <2>2
<1>4. ASSUME NEW c \in {PendingCount, Unread}, Judge(c)
      PROVE  Types' /\ Shape'
  <2>1. Flowing
    BY <1>4, RunningFlows DEF Judge
  <2> DEFINE sent == before = Unread \/ c = Unread \/ c # before
  <2>2. /\ Fail(sent) /\ sent \in BOOLEAN
        /\ UNCHANGED <<steps, at, hash, prev, before, late, lastMined, txs,
                       count, walletCount, unnoted>>
    BY <1>4 DEF Judge, chain
  <2> HIDE DEF sent
  <2>3. /\ count' \in Nat /\ walletCount' \in Nat /\ txs' \in Seq(Tx)
        /\ unnoted' \in BOOLEAN
    BY <2>2 DEF Types
  <2> QED BY <2>1, <2>2, <2>3, FailShape
<1> QED BY <1>1, <1>2, <1>3, <1>4 DEF Page

LEMMA AnswerShape ==
  ASSUME Types, Shape, Answer
  PROVE  Types' /\ Shape'
<1>0. Flowing /\ pc = "wallet"
  BY RunningFlows DEF Answer, Rejects, Sends, Refuses, SendsUnheard
<1>1. ASSUME Rejects PROVE Types' /\ Shape'
  <2>2. /\ Fail(FALSE)
        /\ UNCHANGED <<steps, at, hash, prev, before, late, lastMined, txs,
                       count, walletCount, unnoted>>
    BY <1>1 DEF Rejects, chain
  <2>3. /\ count' \in Nat /\ walletCount' \in Nat /\ txs' \in Seq(Tx)
        /\ unnoted' \in BOOLEAN
    BY <2>2 DEF Types
  <2> QED BY <1>0, <2>2, <2>3, FailShape
<1>2. ASSUME Sends PROVE Types' /\ Shape'
  <2>1. /\ Broadcast /\ hash' = Len(txs) + 1 /\ pc' = "receipt"
        /\ phase' = [phase EXCEPT ![at] = "mining"]
        /\ UNCHANGED <<steps, status, maybeSent, syncing, at, prev, before,
                       late, lastMined, count, walletCount, unnoted>>
    BY <1>2 DEF Sends
  <2>2. /\ txs' \in Seq(Tx) /\ hash' \in Nat /\ hash' \in DOMAIN txs'
        /\ txs'[hash'].step = steps[at]
    BY <1>0, <2>1, StepAt, Sending
  <2>3. phase' \in Seq(Phases) /\ Len(phase') = Len(phase)
    BY <1>0, <2>1, StepAt, PhaseSet DEF Phases
  <2>4. Types'
    BY <2>1, <2>2, <2>3 DEF Types, Phases
  <2>5. Shape'
    BY <1>0, <2>1, <2>2, <2>3 DEF Shape, Flowing, Awaiting
  <2> QED BY <2>4, <2>5
<1>3. ASSUME Refuses PROVE Types' /\ Shape'
  <2>1. Types'
    BY <1>3 DEF Refuses, Types, run, chain
  <2>2. Shape'
    BY <1>3 DEF Refuses, Shape, Flowing, Awaiting, run, chain
  <2> QED BY <2>1, <2>2
<1>4. ASSUME NEW known \in BOOLEAN, SendsUnheard(known)
      PROVE  Types' /\ Shape'
  <2>1. /\ Broadcast /\ unnoted' = TRUE
        /\ UNCHANGED <<at, hash, prev, before, late, lastMined, count,
                       walletCount>>
    BY <1>4 DEF SendsUnheard
  <2>2. txs' \in Seq(Tx)
    BY <1>0, <2>1, StepAt, Sending
  <2>3. CASE known
    <3>1. Fail(TRUE) /\ UNCHANGED steps
      BY <1>4, <2>3 DEF SendsUnheard
    <3>2. count' \in Nat /\ walletCount' \in Nat /\ unnoted' \in BOOLEAN
      BY <2>1 DEF Types
    <3> QED BY <1>0, <2>1, <2>2, <3>1, <3>2, FailShape
  <2>4. CASE ~known
    <3>1. pc' = "judge" /\ UNCHANGED <<steps, status, phase, maybeSent, syncing>>
      BY <1>4, <2>4 DEF SendsUnheard, run
    <3>2. Types'
      BY <2>1, <2>2, <3>1 DEF Types
    <3>3. Shape'
      BY <1>0, <2>1, <3>1 DEF Shape, Flowing, Awaiting
    <3> QED BY <3>2, <3>3
  <2> QED BY <2>3, <2>4
<1> QED BY <1>1, <1>2, <1>3, <1>4 DEF Answer

LEMMA ReceiptShape ==
  ASSUME Types, Shape,
         \/ SlowWallet \/ ReceiptLate
         \/ \E read \in BOOLEAN : StepMined(read) \/ StepFailed(read)
  PROVE  Types' /\ Shape'
<1>1. CASE SlowWallet
  <2>1. Types'
    BY <1>1 DEF SlowWallet, Types, loop, chain
  <2>2. Shape'
    BY <1>1 DEF SlowWallet, Shape, Flowing, Awaiting, loop, chain
  <2> QED BY <2>1, <2>2
<1>2. CASE ReceiptLate
  <2>1. Types'
    BY <1>2 DEF ReceiptLate, Types, chain
  <2>2. Shape'
    BY <1>2 DEF ReceiptLate, Shape, Flowing, Awaiting, chain
  <2> QED BY <2>1, <2>2
<1>3. ASSUME NEW read \in BOOLEAN, StepMined(read) PROVE Types' /\ Shape'
  <2>1. /\ pc = "receipt" /\ Flowing /\ status = "running" /\ hash \in DOMAIN txs
        /\ NoteMined(hash, read)
        /\ UNCHANGED <<steps, maybeSent, syncing, hash, late, txs, count,
                       walletCount>>
    BY <1>3, RunningFlows DEF StepMined, Receipt, Shape, Awaiting, chain
  <2>2. lastMined' \in Nat /\ unnoted' \in BOOLEAN
    BY <2>1, NoteTypes
  <2>3. ~syncing
    BY <2>1 DEF Shape
  <2>4. CASE at = Len(steps)
    <3>1. /\ pc' = "idle" /\ status' = "done"
          /\ phase' = [phase EXCEPT ![at] = "done"]
          /\ UNCHANGED <<at, prev, before>>
      BY <1>3, <2>4 DEF StepMined
    <3>2. phase' \in Seq(Phases) /\ Len(phase') = Len(phase)
      BY <2>1, <3>1, StepAt, PhaseSet DEF Phases
    <3>3. Types'
      BY <2>1, <2>2, <3>1, <3>2 DEF Types, Phases
    <3>4. Shape'
      BY <2>1, <2>3, <3>1, <3>2 DEF Shape, Flowing, Awaiting
    <3> QED BY <3>3, <3>4
  <2>5. CASE at # Len(steps)
    <3>1. /\ pc' = "prepare" /\ at' = at + 1 /\ status' = status
          /\ prev' = lastMined' /\ before' = Awaited
          /\ phase' = [phase EXCEPT ![at] = "done", ![at + 1] = "signing"]
      BY <1>3, <2>5 DEF StepMined
    <3>2. at + 1 \in 1..Len(steps) /\ Len(phase) = Len(steps)
      BY <2>1, <2>5, StepAt DEF Shape, Types
    <3>3. phase' \in Seq(Phases) /\ Len(phase') = Len(phase)
      <4> DEFINE q == [phase EXCEPT ![at] = "done"]
      <4>1. q \in Seq(Phases) /\ Len(q) = Len(phase)
        BY <2>1, StepAt, PhaseSet DEF Phases
      <4>2. phase' = [q EXCEPT ![at + 1] = "signing"]
        BY <3>1
      <4> HIDE DEF q
      <4>3. at + 1 \in 1..Len(q) /\ "signing" \in Phases
        BY <3>2, <4>1 DEF Phases
      <4> QED BY <4>1, <4>2, <4>3
    <3>4. Types'
      BY <2>1, <2>2, <3>1, <3>2, <3>3 DEF Types, Phases
    <3>5. Shape'
      BY <2>1, <2>3, <3>1, <3>2, <3>3 DEF Shape, Flowing, Awaiting
    <3> QED BY <3>4, <3>5
  <2> QED BY <2>4, <2>5
<1>4. ASSUME NEW read \in BOOLEAN, StepFailed(read) PROVE Types' /\ Shape'
  <2>1. /\ pc = "receipt" /\ Flowing /\ hash \in DOMAIN txs
        /\ NoteMined(hash, read) /\ Fail(FALSE)
        /\ UNCHANGED <<steps, at, hash, prev, before, late, txs, count,
                       walletCount>>
    BY <1>4, RunningFlows DEF StepFailed, Receipt, Shape, Awaiting, chain
  <2>2. lastMined' \in Nat /\ unnoted' \in BOOLEAN
    BY <2>1, NoteTypes
  <2>3. phase' \in Seq(Phases) /\ Len(phase') = Len(phase)
    BY <2>1, StepAt, PhaseSet DEF Fail, Phases
  <2>4. Types'
    BY <2>1, <2>2, <2>3 DEF Types, Fail, Phases
  <2>5. Shape'
    BY <2>1, <2>3, StepAt DEF Shape, Fail, Flowing, Awaiting
  <2> QED BY <2>4, <2>5
<1> QED BY <1>1, <1>2, <1>3, <1>4

(* The owner's buttons.                                                    *)
LEMMA RunShape ==
  ASSUME Types, Shape, NEW list \in Lists, Run(list)
  PROVE  Types' /\ Shape'
<1>1. /\ list \in Seq(Steps) /\ list # <<>> /\ Len(list) \in Nat \ {0}
      /\ \A i, j \in DOMAIN list : list[i] = list[j] => i = j
  BY SequenceAssumption
<1>2. /\ status = "idle" /\ pc = "idle" /\ steps' = list /\ status' = "running"
      /\ phase' = [i \in DOMAIN list |-> IF i = 1 THEN "signing" ELSE "todo"]
      /\ pc' = "prepare" /\ at' = 1 /\ prev' = lastMined /\ before' = Awaited
      /\ txs' = Orphans
      /\ UNCHANGED <<maybeSent, syncing, hash, late, lastMined, count,
                     walletCount, unnoted>>
  BY DEF Run
<1>3. phase' \in Seq(Phases) /\ Len(phase') = Len(list)
  BY <1>1, <1>2 DEF Phases
<1>4. Types'
  BY <1>1, <1>2, <1>3, OrphanTypes DEF Types, Phases
<1>5. Shape'
  BY <1>1, <1>2, <1>3 DEF Shape, Flowing, Awaiting
<1> QED BY <1>4, <1>5

LEMMA RetryShape ==
  ASSUME Types, Shape, Retry
  PROVE  Types' /\ Shape'
<1>1. /\ status = "failed" /\ status' = "running" /\ ~syncing /\ Flowing
      /\ pc' = "prepare" /\ at' = at /\ prev' = lastMined /\ before' = Awaited
      /\ phase' = [phase EXCEPT ![at] = "signing"]
      /\ UNCHANGED <<steps, maybeSent, syncing, hash, late, lastMined, txs,
                     count, walletCount, unnoted>>
  BY DEF Retry, Prepare, Shape, Flowing, chain
<1>2. phase' \in Seq(Phases) /\ Len(phase') = Len(phase)
  BY <1>1, StepAt, PhaseSet DEF Phases
<1>3. Types'
  BY <1>1, <1>2 DEF Types, Phases
<1>4. Shape'
  BY <1>1, <1>2 DEF Shape, Flowing, Awaiting
<1> QED BY <1>3, <1>4

(* A retry with other steps keeps those before the failed one.             *)
LEMMA Rebuilding ==
  ASSUME Types, Shape, SequenceAssumption, NEW tail \in Tails, RetryWith(tail)
  PROVE  /\ at \in 1..Len(steps) /\ Len(tail) \in Nat /\ tail \in Seq(Steps)
         /\ steps' \in Seq(Steps) /\ Len(steps') = at - 1 + Len(tail)
         /\ DOMAIN steps' = 1..(at - 1 + Len(tail))
         /\ \A i \in DOMAIN steps' : i < at => steps'[i] = steps[i]
         /\ \A i \in DOMAIN steps' : i >= at =>
              i - at + 1 \in 1..Len(tail) /\ steps'[i] = tail[i - at + 1]
<1> DEFINE n == Len(tail)
           done == SubSeq(steps, 1, at - 1)
<1>1. at \in 1..Len(steps) /\ steps \in Seq(Steps) /\ Len(steps) \in Nat
  BY StepAt DEF RetryWith, Flowing, Types
<1>2. tail \in Seq(Steps) /\ n \in Nat
  BY DEF SequenceAssumption
<1>3. /\ done \in Seq(Steps) /\ Len(done) = at - 1
      /\ \A i \in 1..(at - 1) : done[i] = steps[i]
  BY <1>1
<1>4. steps' = done \o tail
  BY DEF RetryWith
<1> HIDE DEF done
<1>5. /\ steps' \in Seq(Steps) /\ Len(steps') = at - 1 + n
      /\ \A i \in 1..(at - 1 + n) :
           steps'[i] = IF i <= at - 1 THEN done[i] ELSE tail[i - (at - 1)]
  <2>1. /\ done \o tail \in Seq(Steps)
        /\ Len(done \o tail) = Len(done) + Len(tail)
    BY <1>2, <1>3
  <2>2. \A i \in 1..(Len(done) + Len(tail)) :
          (done \o tail)[i] = IF i <= Len(done) THEN done[i]
                             ELSE tail[i - Len(done)]
    BY <1>2, <1>3
  <2> HIDE DEF n
  <2> QED BY <1>3, <1>4, <2>1, <2>2 DEF n
<1>6. DOMAIN steps' = 1..(at - 1 + n)
  BY <1>5
<1>7. ASSUME NEW i \in DOMAIN steps', i < at PROVE steps'[i] = steps[i]
  BY <1>1, <1>3, <1>5, <1>6, <1>7
<1>8. ASSUME NEW i \in DOMAIN steps', i >= at
      PROVE  i - at + 1 \in 1..n /\ steps'[i] = tail[i - at + 1]
  <2>1. i - at + 1 \in 1..n /\ i - (at - 1) = i - at + 1
    BY <1>1, <1>2, <1>6, <1>8
  <2>2. i \in 1..(at - 1 + n) /\ ~(i <= at - 1)
    BY <1>1, <1>6, <1>8
  <2> QED BY <1>5, <2>1, <2>2
<1> QED BY <1>1, <1>2, <1>5, <1>6, <1>7, <1>8

(* Of the transactions only the step of a given-up one changes, while it   *)
(* is still to mine.                                                       *)
LEMMA GivingUp ==
  ASSUME Types, Shape, NEW tail \in Tails, RetryWith(tail)
  PROVE  /\ txs' \in Seq(Tx) /\ DOMAIN txs' = DOMAIN txs
         /\ \A h \in DOMAIN txs :
              /\ txs'[h].fate = txs[h].fate
              /\ txs'[h].step = IF maybeSent /\ InPool(h)
                                     /\ txs[h].step = steps[at]
                                THEN Foreign ELSE txs[h].step
<1>1. txs \in Seq(Tx) /\ DOMAIN txs = 1..Len(txs) /\ Len(txs) \in Nat
  BY DEF Types
<1>2. CASE ~maybeSent
  <2>1. txs' = txs
    BY <1>2 DEF RetryWith
  <2> QED BY <1>1, <1>2, <2>1
<1>3. CASE maybeSent
  <2>1. txs' = GivenUp
    BY <1>3 DEF RetryWith
  <2>2. ASSUME NEW h \in DOMAIN txs
        PROVE  /\ GivenUp[h] \in Tx /\ GivenUp[h].fate = txs[h].fate
               /\ GivenUp[h].step = IF InPool(h) /\ txs[h].step = steps[at]
                                    THEN Foreign ELSE txs[h].step
    <3>1. txs[h] \in Tx
      BY TxFields
    <3>2. GivenUp[h] = IF InPool(h) /\ txs[h].step = steps[at]
                       THEN [txs[h] EXCEPT !.step = Foreign] ELSE txs[h]
      BY DEF GivenUp
    <3> QED BY <3>1, <3>2 DEF Tx
  <2>3. DOMAIN GivenUp = 1..Len(txs) /\ GivenUp = [h \in 1..Len(txs) |-> GivenUp[h]]
    BY <1>1 DEF GivenUp
  <2>4. GivenUp \in Seq(Tx)
    BY <1>1, <2>2, <2>3
  <2> QED BY <1>1, <1>3, <2>1, <2>2, <2>3, <2>4
<1> QED BY <1>2, <1>3

LEMMA GivingUpEffect ==
  ASSUME Types, Shape, SequenceAssumption, NEW tail \in Tails, RetryWith(tail)
  PROVE  /\ \A s \in Steps : /\ RanIn(txs', s) = RanIn(txs, s)
                             /\ LiveIn(txs', s) \subseteq LiveIn(txs, s)
         /\ Pool' = Pool /\ Unfated(txs') = Unfated(txs)
         /\ OwnRan(txs') = OwnRan(txs)
         /\ \A h \in OwnRan(txs) : txs'[h].step = txs[h].step
<1>1. /\ DOMAIN txs' = DOMAIN txs
      /\ \A h \in DOMAIN txs :
           /\ txs'[h].fate = txs[h].fate
           /\ txs'[h].step \in {txs[h].step, Foreign}
           /\ txs[h].fate = "success" => txs'[h].step = txs[h].step
  BY GivingUp DEF InPool
<1>2. \A s \in Steps : s # Foreign
  BY DEF SequenceAssumption, Foreign
<1>3. \A s \in Steps : /\ RanIn(txs', s) = RanIn(txs, s)
                       /\ LiveIn(txs', s) \subseteq LiveIn(txs, s)
  BY <1>1, <1>2 DEF RanIn, LiveIn
<1>4. Pool' = Pool /\ Unfated(txs') = Unfated(txs)
  BY <1>1 DEF Pool, InPool, Unfated
<1>5. OwnRan(txs') = OwnRan(txs) /\ \A h \in OwnRan(txs) : txs'[h].step = txs[h].step
  BY <1>1 DEF OwnRan
<1> QED BY <1>3, <1>4, <1>5

LEMMA RetryWithShape ==
  ASSUME Types, Shape, OrderInv, SequenceAssumption,
         NEW tail \in Tails, RetryWith(tail)
  PROVE  Types' /\ Shape'
<1> DEFINE n == Len(tail)
<1>1. /\ status = "failed" /\ pc = "idle" /\ ~syncing /\ at' = at
      /\ maybeSent' = FALSE
      /\ UNCHANGED <<syncing, hash, late, lastMined, count, walletCount,
                     unnoted>>
      /\ IF n = 0
         THEN status' = "done" /\ UNCHANGED <<pc, prev, before>>
         ELSE /\ status' = "running" /\ pc' = "prepare"
              /\ prev' = lastMined /\ before' = Awaited
  BY DEF RetryWith, Shape
<1>2. phase' \in Seq(Phases) /\ Len(phase') = at - 1 + n
  <2>1. at - 1 + n \in Nat /\ at - 1 <= Len(phase) /\ phase \in Seq(Phases)
    BY Rebuilding DEF Shape, Types, Phases
  <2>2. \A i \in 1..(at - 1 + n) :
          (IF i < at THEN phase[i]
           ELSE IF i = at THEN "signing" ELSE "todo") \in Phases
    BY <2>1, Rebuilding DEF Phases
  <2>3. phase' = [i \in 1..(at - 1 + n) |->
                    IF i < at THEN phase[i]
                    ELSE IF i = at THEN "signing" ELSE "todo"]
    BY DEF RetryWith
  <2> QED BY <2>1, <2>2, <2>3
<1>3. Types'
  BY <1>1, <1>2, Rebuilding, GivingUp DEF Types, Phases
<1>4. ASSUME NEW i \in DOMAIN steps', NEW j \in DOMAIN steps', steps'[i] = steps'[j]
      PROVE  i = j
  <2>0. /\ i \in Nat /\ j \in Nat /\ i >= 1 /\ j >= 1 /\ n \in Nat
        /\ at \in 1..Len(steps) /\ Len(steps) \in Nat
    BY Rebuilding DEF Types
  <2>2. CASE i < at /\ j < at
    <3>1. i \in DOMAIN steps /\ j \in DOMAIN steps
      BY <2>0, <2>2 DEF Types
    <3> QED BY <1>4, <2>2, <3>1, Rebuilding DEF Shape
  <2>6. ASSUME NEW a \in DOMAIN steps', NEW b \in DOMAIN steps',
               a < at, b >= at, steps'[a] = steps'[b]
        PROVE  FALSE
    <3>1. steps'[a] = steps[a] /\ a \in DOMAIN steps
      <4>1. a \in 1..(at - 1 + n)
        BY Rebuilding
      <4>2. a \in 1..Len(steps) /\ DOMAIN steps = 1..Len(steps)
        BY <2>0, <2>6, <4>1 DEF Types
      <4> QED BY <2>6, <4>2, Rebuilding
    <3>2. b - at + 1 \in 1..n /\ steps'[b] = tail[b - at + 1]
      BY <2>6, Rebuilding
    <3>3. RanIn(txs, steps[a]) # {}
      BY <1>1, <2>6, <3>1 DEF OrderInv, Flowing
    <3>4. Ran(tail[b - at + 1]) = {}
      BY <3>2 DEF RetryWith
    <3> QED BY <2>6, <3>1, <3>2, <3>3, <3>4 DEF Ran, RanIn
  <2>3. CASE i < at /\ j >= at
    BY <1>4, <2>3, <2>6
  <2>4. CASE i >= at /\ j < at
    BY <1>4, <2>4, <2>6
  <2>5. CASE i >= at /\ j >= at
    <3>1. /\ i - at + 1 \in 1..n /\ j - at + 1 \in 1..n
          /\ tail[i - at + 1] = tail[j - at + 1]
      BY <1>4, <2>5, Rebuilding
    <3>2. DOMAIN tail = 1..n
      BY Rebuilding
    <3>3. i - at + 1 = j - at + 1
      BY <3>1, <3>2 DEF SequenceAssumption
    <3> QED BY <2>0, <3>3
  <2> QED BY <2>0, <2>2, <2>3, <2>4, <2>5
<1>5. Shape'
  <2>1. Len(phase') = Len(steps')
    BY <1>2, Rebuilding
  <2>2. (Flowing => at \in DOMAIN steps)'
    <3>1. n # 0 => at \in 1..(at - 1 + n)
      BY Rebuilding
    <3>2. DOMAIN steps' = 1..(at - 1 + n)
      BY Rebuilding
    <3> QED BY <1>1, <3>1, <3>2 DEF Flowing
  <2>3. (Awaiting => hash \in DOMAIN txs /\ txs[hash].step = steps[at])'
    BY <1>1 DEF Awaiting
  <2>4. /\ (status = "running" <=> pc # "idle")' /\ (syncing => pc = "prepare")'
        /\ (status = "idle" => steps = <<>>)'
        /\ (pc \in {"wallet", "judge"} => before # Awaited)'
    BY <1>1
  <2> HIDE DEF n
  <2>5. (\A i, j \in DOMAIN steps : steps[i] = steps[j] => i = j)'
    BY <1>4
  <2> QED BY <2>1, <2>2, <2>3, <2>4, <2>5 DEF Shape
<1> QED BY <1>3, <1>5

LEMMA CloseShape ==
  ASSUME Types, Shape, KeepWaiting \/ Close
  PROVE  Types' /\ Shape'
<1>1. CASE KeepWaiting
  <2>1. Types'
    BY <1>1 DEF KeepWaiting, Types, chain
  <2>2. Shape'
    BY <1>1 DEF KeepWaiting, Shape, Flowing, Awaiting, chain
  <2> QED BY <2>1, <2>2
<1>2. CASE Close
  <2>1. /\ status' = "idle" /\ steps' = <<>> /\ phase' = <<>>
        /\ maybeSent' = FALSE /\ syncing' = FALSE /\ pc' = "idle" /\ at' = 0
        /\ hash' = 0 /\ txs' = Orphans
        /\ unnoted' = (unnoted \/ status = "waiting" \/ maybeSent)
        /\ UNCHANGED <<prev, before, late, lastMined, count, walletCount>>
    BY <1>2 DEF Close, Stopped
  <2>2. steps' \in Seq(Steps) /\ phase' \in Seq(Phases) /\ unnoted' \in BOOLEAN
    BY <2>1
  <2>3. Types'
    BY <2>1, <2>2, OrphanTypes DEF Types, Phases
  <2>4. Shape'
    BY <2>1 DEF Shape, Flowing, Awaiting
  <2> QED BY <2>3, <2>4
<1> QED BY <1>1, <1>2

(* The fate of a transaction and the counts are not the page's business.   *)
LEMMA EnvironmentSteps ==
  ASSUME Types, Environment
  PROVE  /\ UNCHANGED <<run, loop>>
         /\ lastMined' \in Nat /\ unnoted' \in BOOLEAN
         /\ count' \in Nat /\ walletCount' \in Nat
         /\ \/ UNCHANGED txs
            \/ \E h \in Pool, f \in Fates :
                 /\ txs' = [txs EXCEPT ![h].fate = f]
                 /\ f = "success" => txs[h].fate = "pending"
                 /\ f # "pending"
                 /\ f = "dropped" => Awaiting /\ Pool = {hash}
                 /\ f # "superseded" => \A k \in Pool : h <= k
<1>1. ASSUME NEW h \in DOMAIN txs, Mine(h) \/ Supersede(h)
      PROVE  /\ UNCHANGED <<run, loop, lastMined, walletCount, unnoted>>
             /\ count' \in Nat /\ h \in Pool
             /\ \E f \in Fates \ {"dropped"} :
                  /\ txs' = [txs EXCEPT ![h].fate = f]
                  /\ f = "success" => txs[h].fate = "pending"
                  /\ f # "pending"
                  /\ f # "superseded" => \A k \in Pool : h <= k
  <2>1. count \in Nat
    BY DEF Types
  <2>2. ASSUME NEW f \in {"success", "reverted", "replaced"}, Mined(h, f)
        PROVE  /\ UNCHANGED <<run, loop, lastMined, walletCount, unnoted>>
               /\ count' \in Nat /\ h \in Pool
               /\ txs' = [txs EXCEPT ![h].fate = f] /\ f \in Fates \ {"dropped"}
               /\ f # "pending"
               /\ \A k \in Pool : h <= k
    BY <2>1, <2>2 DEF Mined, Pool, Fates
  <2>3. CASE Supersede(h)
    <3>1. h \in Pool /\ "superseded" \in Fates \ {"dropped"}
      BY <2>3 DEF Supersede, Pool, InPool, Fates
    <3> QED BY <2>1, <2>3, <3>1 DEF Supersede
  <2>4. CASE Mine(h) /\ txs[h].fate = "superseded"
    <3>1. Mined(h, "replaced")
      BY <2>4 DEF Mine
    <3> QED BY <2>2, <3>1
  <2>5. CASE Mine(h) /\ txs[h].fate # "superseded"
    <3>1. Mined(h, "success") \/ Mined(h, "reverted")
      BY <2>5 DEF Mine
    <3>2. txs[h].fate = "pending"
      BY <2>5, <3>1 DEF Mined, InPool
    <3> QED BY <2>2, <3>1, <3>2
  <2> QED BY <1>1, <2>3, <2>4, <2>5
<1>2. ASSUME Drop
      PROVE  /\ UNCHANGED <<run, loop, lastMined, count, walletCount, unnoted>>
             /\ hash \in Pool /\ Pool = {hash} /\ Awaiting
             /\ txs' = [txs EXCEPT ![hash].fate = "dropped"]
  BY <1>2 DEF Drop, Awaiting
<1>3. ASSUME \/ \E noted \in BOOLEAN : Elsewhere(noted)
             \/ Forget \/ WalletCatchesUp
      PROVE  /\ UNCHANGED <<run, loop, txs>>
             /\ lastMined' \in Nat /\ unnoted' \in BOOLEAN
             /\ count' \in Nat /\ walletCount' \in Nat
  <2>1. lastMined \in Nat /\ unnoted \in BOOLEAN /\ count \in Nat
        /\ walletCount \in Nat
    BY DEF Types
  <2>2. CASE \E noted \in BOOLEAN : Elsewhere(noted)
    <3>1. ASSUME NEW noted \in BOOLEAN, Elsewhere(noted)
          PROVE  /\ UNCHANGED <<run, loop, txs, walletCount>>
                 /\ count' = count + 1
                 /\ lastMined' \in {lastMined, count + 1}
                 /\ unnoted' \in {unnoted, TRUE}
      <4>1. CASE noted
        BY <3>1, <4>1 DEF Elsewhere
      <4>2. CASE ~noted
        BY <3>1, <4>2 DEF Elsewhere
      <4> QED BY <4>1, <4>2
    <3>2. PICK noted \in BOOLEAN : Elsewhere(noted)
      BY <2>2
    <3>3. /\ UNCHANGED <<run, loop, txs, walletCount>>
          /\ count' = count + 1
          /\ lastMined' \in {lastMined, count + 1}
          /\ unnoted' \in {unnoted, TRUE}
      BY <3>1, <3>2
    <3>4. lastMined' \in Nat /\ count' \in Nat /\ walletCount' \in Nat
      BY <2>1, <3>3
    <3>5. unnoted' \in BOOLEAN
      BY <2>1, <3>3
    <3> QED BY <3>3, <3>4, <3>5
  <2>3. CASE Forget
    BY <2>1, <2>3 DEF Forget, chain
  <2>4. CASE WalletCatchesUp
    BY <2>1, <2>4 DEF WalletCatchesUp, chain
  <2> QED BY <1>3, <2>2, <2>3, <2>4
<1>4. lastMined \in Nat /\ unnoted \in BOOLEAN /\ count \in Nat
      /\ walletCount \in Nat
  BY DEF Types
<1>5. CASE \E h \in DOMAIN txs : Mine(h) \/ Supersede(h)
  BY <1>1, <1>4, <1>5
<1>6. CASE Drop
  <2>1. "dropped" \in Fates
    BY DEF Fates
  <2>2. \A k \in Pool : hash <= k
    BY <1>2, <1>6 DEF Types
  <2> QED BY <1>2, <1>4, <1>6, <2>1, <2>2
<1>7. CASE \/ \E noted \in BOOLEAN : Elsewhere(noted)
           \/ Forget \/ WalletCatchesUp
  BY <1>3, <1>7
<1> QED BY <1>5, <1>6, <1>7 DEF Environment

LEMMA EnvironmentShape ==
  ASSUME Types, Shape, Environment
  PROVE  Types' /\ Shape'
<1>1. /\ txs' \in Seq(Tx) /\ DOMAIN txs' = DOMAIN txs
      /\ \A k \in DOMAIN txs : txs'[k].step = txs[k].step
  <2>1. CASE UNCHANGED txs
    BY <2>1 DEF Types
  <2>2. ASSUME NEW h \in Pool, NEW f \in Fates, txs' = [txs EXCEPT ![h].fate = f]
        PROVE  /\ txs' \in Seq(Tx) /\ DOMAIN txs' = DOMAIN txs
               /\ \A k \in DOMAIN txs : txs'[k].step = txs[k].step
    BY <2>2, Fating
  <2> QED BY <2>1, <2>2, EnvironmentSteps
<1>2. UNCHANGED <<steps, status, phase, maybeSent, syncing, pc, at, hash, prev,
                  before, late>>
  BY EnvironmentSteps DEF run, loop
<1>3. Types'
  BY <1>1, <1>2, EnvironmentSteps DEF Types
<1>4. Shape'
  BY <1>1, <1>2 DEF Shape, Flowing, Awaiting
<1> QED BY <1>3, <1>4

LEMMA StutterShape ==
  ASSUME Types, Shape, UNCHANGED vars
  PROVE  Types' /\ Shape'
<1>1. Types'
  BY DEF Types, vars, run, loop, chain
<1>2. Shape'
  BY DEF Shape, Flowing, Awaiting, vars, run, loop, chain
<1> QED BY <1>1, <1>2

LEMMA StepShape == Types /\ Shape /\ OrderInv /\ [Next]_vars => Types' /\ Shape'
<1> SUFFICES ASSUME Types, Shape, OrderInv, [Next]_vars PROVE Types' /\ Shape'
  OBVIOUS
<1> QED BY SequenceAssumption, PageShape, AnswerShape, ReceiptShape, RunShape, RetryShape,
           RetryWithShape, CloseShape, EnvironmentShape, StutterShape DEF Next

-----------------------------------------------------------------------------
(* What can be sent, and what was.                                         *)

LEMMA InitSent == Init => SentInv /\ OrderInv /\ NotedInv
<1> SUFFICES ASSUME Init PROVE SentInv /\ OrderInv /\ NotedInv
  OBVIOUS
<1>1. /\ txs = <<>> /\ status = "idle" /\ pc = "idle" /\ DOMAIN txs = {}
      /\ walletCount = 0 /\ count = 0 /\ lastMined = 0 /\ steps = <<>>
  BY DEF Init
<1>2. SentInv
  BY <1>1 DEF SentInv, Lone, AheadUnsent, CurrentUnsent, OnlyHash, CountTells,
              Flowing, Unsent, Awaiting, LiveIn
<1>3. OrderInv
  BY <1>1 DEF OrderInv, Flowing
<1>4. NotedInv
  BY <1>1 DEF NotedInv, Pool, HashMined, Awaiting
<1> QED BY <1>2, <1>3, <1>4

LEMMA LiveFates ==
  ASSUME NEW t, NEW s, NEW h
  PROVE  /\ h \in LiveIn(t, s) => h \in DOMAIN t /\ t[h].step = s
                                  /\ t[h].fate \in {"success", "pending"}
         /\ RanIn(t, s) \subseteq LiveIn(t, s)
BY DEF LiveIn, RanIn

(* What sending a transaction does to these sets, and to the pool.         *)
LEMMA SendingEffect ==
  ASSUME Types, Shape, Flowing, Broadcast, UNCHANGED count
  PROVE  /\ \A s \in Steps :
              /\ RanIn(txs', s) = RanIn(txs, s)
              /\ s # steps[at] => LiveIn(txs', s) = LiveIn(txs, s)
         /\ LiveIn(txs', steps[at]) = LiveIn(txs, steps[at]) \cup {Len(txs) + 1}
         /\ Pool' = Pool \cup {Len(txs) + 1}
         /\ PendingCount' = PendingCount + 1
<1> DEFINE n == Len(txs) + 1
<1>1. /\ DOMAIN txs' = DOMAIN txs \cup {n} /\ n \notin DOMAIN txs
      /\ \A h \in DOMAIN txs : txs'[h] = txs[h]
      /\ txs'[n].step = steps[at] /\ txs'[n].fate = "pending"
  BY Sending DEF Shape
<1> HIDE DEF n
<1>2. ASSUME NEW s \in Steps
      PROVE  /\ RanIn(txs', s) = RanIn(txs, s)
             /\ s # steps[at] => LiveIn(txs', s) = LiveIn(txs, s)
  BY <1>1 DEF RanIn, LiveIn
<1>3. LiveIn(txs', steps[at]) = LiveIn(txs, steps[at]) \cup {n}
  BY <1>1 DEF LiveIn
<1>4. Pool' = Pool \cup {n}
  BY <1>1 DEF Pool, InPool
<1>5. n \notin Pool /\ IsFiniteSet(Pool) /\ Cardinality(Pool) \in Nat
  BY <1>1, PoolFacts
<1>6. Cardinality(Pool)' = Cardinality(Pool) + 1
  BY <1>4, <1>5, FS_AddElement
<1>7. PendingCount' = PendingCount + 1
  BY <1>5, <1>6 DEF PendingCount, Types
<1> QED BY <1>2, <1>3, <1>4, <1>7 DEF n

LEMMA FatingEffect ==
  ASSUME Types, NEW h \in Pool, NEW f \in Fates,
         txs' = [txs EXCEPT ![h].fate = f],
         f = "success" => txs[h].fate = "pending", f # "pending"
  PROVE  /\ \A s \in Steps : /\ RanIn(txs, s) \subseteq RanIn(txs', s)
                             /\ LiveIn(txs', s) \subseteq LiveIn(txs, s)
         /\ Pool' = IF f = "superseded" THEN Pool ELSE Pool \ {h}
<1>1. /\ DOMAIN txs' = DOMAIN txs /\ txs'[h].fate = f
      /\ \A k \in DOMAIN txs : /\ txs'[k].step = txs[k].step
                               /\ k # h => txs'[k].fate = txs[k].fate
  BY Fating
<1>2. h \in DOMAIN txs /\ txs[h].fate \in {"pending", "superseded"}
  BY DEF Pool, InPool
<1>3. ASSUME NEW s \in Steps
      PROVE  /\ RanIn(txs, s) \subseteq RanIn(txs', s)
             /\ LiveIn(txs', s) \subseteq LiveIn(txs, s)
  BY <1>1, <1>2 DEF RanIn, LiveIn
<1>4. Pool' = IF f = "superseded" THEN Pool ELSE Pool \ {h}
  BY <1>1, <1>2 DEF Pool, InPool
<1> QED BY <1>3, <1>4

LEMMA OrphanEffect ==
  ASSUME Types, SequenceAssumption, txs' = Orphans
  PROVE  \A s \in Steps : LiveIn(txs', s) = {}
<1>1. \A s \in Steps : s # Foreign
  BY DEF SequenceAssumption, Foreign
<1> QED BY <1>1, OrphanTypes DEF LiveIn

(* Steps that leave the transactions and the position alone.               *)
LEMMA SentStays ==
  ASSUME SentInv, UNCHANGED <<txs, steps, at, hash, count>>,
         Flowing' => Flowing,
         Unsent' => Unsent \/ LiveIn(txs, steps[at]) = {},
         Awaiting' => Awaiting,
         pc' \in {"prepare", "wallet", "judge"} =>
           \/ pc \in {"prepare", "wallet", "judge"} /\ before' = before
           \/ before' \notin Nat
           \/ before' = PendingCount /\ LiveIn(txs, steps[at]) = {}
                /\ PendingCount \in Nat
  PROVE  SentInv'
<1>1. PendingCount' = PendingCount
  BY DEF PendingCount, Pool, InPool
<1> QED BY <1>1 DEF SentInv, Lone, AheadUnsent, CurrentUnsent, OnlyHash, CountTells

LEMMA AwaitedIsNoCount == Awaited \notin Nat /\ Unread \notin Nat
BY DEF Awaited, Unread

LEMMA PageSent ==
  ASSUME Types, Shape, SentInv, Page
  PROVE  SentInv'
<1>1. ASSUME EstimateReverts PROVE SentInv'
  <2>1. /\ pc = "prepare" /\ pc' = "idle" /\ status' = "failed" /\ Flowing
        /\ UNCHANGED <<txs, steps, at, hash, count>>
    BY <1>1, RunningFlows DEF EstimateReverts, Fail, chain
  <2> QED BY <2>1, SentStays DEF Flowing, Unsent, Awaiting
<1>2. ASSUME NEW c \in {PendingCount, Unread}, CountRead(c)
      PROVE  SentInv'
  <2>1. /\ pc = "prepare" /\ before' = c
        /\ UNCHANGED <<txs, steps, at, hash, count, pc, status, maybeSent>>
    BY <1>2 DEF CountRead, run, chain
  <2>2. LiveIn(txs, steps[at]) = {}
    BY <2>1 DEF SentInv, CurrentUnsent, Unsent
  <2>3. before' \notin Nat \/ (before' = PendingCount /\ PendingCount \in Nat)
    BY <2>1, PoolFacts, AwaitedIsNoCount
  <2> QED BY <2>1, <2>2, <2>3, SentStays DEF Flowing, Unsent, Awaiting
<1>3. ASSUME NEW t \in BOOLEAN, Prompt(t) PROVE SentInv'
  <2>1. /\ pc = "prepare" /\ pc' = "wallet" /\ before' = before
        /\ UNCHANGED <<txs, steps, at, hash, count, status, maybeSent>>
    BY <1>3 DEF Prompt, chain
  <2> QED BY <2>1, SentStays DEF Flowing, Unsent, Awaiting
<1>4. ASSUME NEW c \in {PendingCount, Unread}, Judge(c)
      PROVE  SentInv'
  <2>1. /\ pc = "judge" /\ pc' = "idle" /\ status' = "failed" /\ Flowing
        /\ maybeSent' = (before = Unread \/ c = Unread \/ c # before)
        /\ UNCHANGED <<txs, steps, at, hash, count>>
    BY <1>4, RunningFlows DEF Judge, Fail, chain
  <2>2. ~maybeSent' => LiveIn(txs, steps[at]) = {}
    <3>1. ASSUME ~maybeSent' PROVE before \in Nat /\ before = PendingCount
      BY <2>1, <3>1, PoolFacts DEF Shape, Types
    <3> QED BY <2>1, <3>1 DEF SentInv, CountTells
  <2> QED BY <2>1, <2>2, SentStays DEF Flowing, Unsent, Awaiting
<1> QED BY <1>1, <1>2, <1>3, <1>4 DEF Page

LEMMA AnswerSent ==
  ASSUME Types, Shape, SentInv, Answer
  PROVE  SentInv'
<1>0. /\ Flowing /\ pc = "wallet" /\ status = "running" /\ at \in DOMAIN steps
      /\ steps[at] \in Steps /\ LiveIn(txs, steps[at]) = {}
  <2>1. pc = "wallet"
    BY DEF Answer, Rejects, Sends, Refuses, SendsUnheard
  <2> QED BY <2>1, RunningFlows, StepAt DEF SentInv, CurrentUnsent, Unsent
<1>1. ASSUME Rejects PROVE SentInv'
  <2>1. /\ pc' = "idle" /\ status' = "failed"
        /\ UNCHANGED <<txs, steps, at, hash, count>>
    BY <1>1 DEF Rejects, Fail, chain
  <2> QED BY <1>0, <2>1, SentStays DEF Flowing, Unsent, Awaiting
<1>2. ASSUME Refuses PROVE SentInv'
  <2>1. /\ pc' = "judge" /\ before' = before
        /\ UNCHANGED <<txs, steps, at, hash, count, status, maybeSent>>
    BY <1>2 DEF Refuses, run, chain
  <2> QED BY <1>0, <2>1, SentStays DEF Flowing, Unsent, Awaiting
<1>3. ASSUME Broadcast, UNCHANGED <<steps, at, count>>, Flowing',
             \/ pc' = "receipt" /\ status' = "running" /\ hash' = Len(txs) + 1
             \/ pc' = "judge" /\ status' = "running" /\ before' = before
             \/ pc' = "idle" /\ status' = "failed" /\ maybeSent'
      PROVE  SentInv'
  <2> DEFINE n == Len(txs) + 1
  <2>1. /\ \A s \in Steps : s # steps[at] => LiveIn(txs', s) = LiveIn(txs, s)
        /\ LiveIn(txs', steps[at]) = {n}
        /\ PendingCount' = PendingCount + 1 /\ PendingCount \in Nat
    BY <1>0, <1>3, SendingEffect, PoolFacts
  <2> HIDE DEF n
  <2>2. Lone'
    BY <1>0, <2>1 DEF SentInv, Lone
  <2>3. AheadUnsent'
    <3>1. ASSUME NEW i \in DOMAIN steps, i > at PROVE LiveIn(txs', steps[i]) = {}
      <4>1. steps[i] # steps[at] /\ steps[i] \in Steps
        BY <1>0, <3>1 DEF Shape, Types
      <4> QED BY <1>0, <2>1, <3>1, <4>1 DEF SentInv, AheadUnsent
    <3> QED BY <1>3, <3>1 DEF AheadUnsent
  <2>4. CurrentUnsent'
    BY <1>3 DEF CurrentUnsent, Unsent
  <2>5. OnlyHash'
    BY <1>3, <2>1 DEF OnlyHash, Awaiting, n
  <2>6. CountTells'
    <3>1. before \in Nat => before <= PendingCount
      BY <1>0 DEF SentInv, CountTells
    <3> QED BY <1>3, <2>1, <3>1 DEF CountTells
  <2> QED BY <2>2, <2>3, <2>4, <2>5, <2>6 DEF SentInv
<1>4. ASSUME Sends PROVE SentInv'
  BY <1>0, <1>3, <1>4 DEF Sends, Flowing
<1>5. ASSUME NEW known \in BOOLEAN, SendsUnheard(known) PROVE SentInv'
  <2>1. CASE known
    BY <1>3, <1>5, <2>1 DEF SendsUnheard, Fail, Flowing
  <2>2. CASE ~known
    BY <1>0, <1>3, <1>5, <2>2 DEF SendsUnheard, Flowing, run
  <2> QED BY <2>1, <2>2
<1> QED BY <1>1, <1>2, <1>4, <1>5 DEF Answer

LEMMA ReceiptSent ==
  ASSUME Types, Shape, SentInv,
         \/ SlowWallet \/ ReceiptLate \/ KeepWaiting
         \/ \E read \in BOOLEAN : StepMined(read) \/ StepFailed(read)
  PROVE  SentInv'
<1>1. CASE SlowWallet
  BY <1>1, SentStays DEF SlowWallet, Flowing, Unsent, Awaiting, loop, chain
<1>2. CASE ReceiptLate
  BY <1>2, RunningFlows, SentStays DEF ReceiptLate, Flowing, Unsent, Awaiting, chain
<1>3. CASE KeepWaiting
  BY <1>3, SentStays DEF KeepWaiting, Flowing, Unsent, Awaiting, chain
<1>4. ASSUME NEW read \in BOOLEAN, StepMined(read) PROVE SentInv'
  <2>1. /\ pc = "receipt" /\ Flowing /\ UNCHANGED <<steps, hash, txs, count>>
    BY <1>4, RunningFlows DEF StepMined, Receipt, chain
  <2>2. CASE at = Len(steps)
    BY <1>4, <2>1, <2>2, SentStays DEF StepMined, Flowing, Unsent, Awaiting, Shape
  <2>3. CASE at # Len(steps)
    <3>1. /\ pc' = "prepare" /\ at' = at + 1 /\ status' = "running"
          /\ before' = Awaited
      BY <1>4, <2>1, <2>3 DEF StepMined, Shape
    <3>2. at + 1 \in DOMAIN steps /\ at \in Nat
      BY <2>1, <2>3, StepAt DEF Types
    <3>3. Lone' /\ OnlyHash'
      BY <2>1, <3>1 DEF SentInv, Lone, OnlyHash, Awaiting
    <3>4. AheadUnsent' /\ CurrentUnsent'
      <4>1. \A i \in DOMAIN steps : i > at => LiveIn(txs, steps[i]) = {}
        BY <2>1 DEF SentInv, AheadUnsent
      <4>2. \A i \in DOMAIN steps : i \in Nat
        BY DEF Types
      <4> QED BY <2>1, <3>1, <3>2, <4>1, <4>2 DEF AheadUnsent, CurrentUnsent
    <3>5. CountTells'
      BY <3>1, AwaitedIsNoCount DEF CountTells
    <3> QED BY <3>3, <3>4, <3>5 DEF SentInv
  <2> QED BY <2>2, <2>3
<1>5. ASSUME NEW read \in BOOLEAN, StepFailed(read) PROVE SentInv'
  <2>1. /\ pc = "receipt" /\ pc' = "idle" /\ status' = "failed" /\ Flowing
        /\ UNCHANGED <<txs, steps, at, hash, count>>
        /\ txs[hash].fate \in {"reverted", "replaced"}
    BY <1>5, RunningFlows DEF StepFailed, Receipt, RanStep, Fail, chain
  <2>2. LiveIn(txs, steps[at]) = {}
    BY <2>1, LiveFates DEF SentInv, OnlyHash, Awaiting
  <2> QED BY <2>1, <2>2, SentStays DEF Flowing, Unsent, Awaiting
<1> QED BY <1>1, <1>2, <1>3, <1>4, <1>5

(* No step of a rebuilt tail was sent: those that ran are left out, what   *)
(* is pending runs a step of the flow, and neither the steps ahead nor the *)
(* failed one are pending, unless that may have been sent and is given up. *)
LEMMA TailUnsent ==
  ASSUME Types, Shape, OrderInv, SentInv, FlowInv,
         NEW tail \in Tails, RetryWith(tail), NEW k \in 1..Len(tail)
  PROVE  LiveIn(txs, tail[k]) = {}
<1> SUFFICES ASSUME NEW h \in LiveIn(txs, tail[k]) PROVE FALSE
  OBVIOUS
<1>1. /\ status = "failed" /\ Flowing /\ Ran(tail[k]) = {}
      /\ maybeSent => tail[k] # steps[at]
  BY DEF RetryWith, Flowing
<1>2. /\ tail[k] \in Steps /\ tail[k] # Foreign
  BY SequenceAssumption DEF SequenceAssumption, Foreign
<1>3. h \in DOMAIN txs /\ txs[h].step = tail[k] /\ txs[h].fate = "pending"
  BY <1>1 DEF LiveIn, Ran
<1>4. PICK i \in DOMAIN steps : tail[k] = steps[i]
  BY <1>2, <1>3 DEF FlowInv, OwnSteps
<1>5. ~(i < at)
  BY <1>1, <1>4 DEF OrderInv, Ran, RanIn
<1>6. ~(i > at)
  BY <1>1, <1>4 DEF SentInv, AheadUnsent
<1>7. i = at
  <2>1. i \in Nat /\ at \in Nat
    BY DEF Types
  <2> QED BY <1>5, <1>6, <2>1
<1>8. ~maybeSent /\ Unsent
  BY <1>1, <1>4, <1>7 DEF Unsent
<1> QED BY <1>4, <1>7, <1>8 DEF SentInv, CurrentUnsent

LEMMA ButtonSent ==
  ASSUME Types, Shape, OrderInv, SentInv, FlowInv,
         \/ \E list \in Lists : Run(list)
         \/ Retry \/ Close
         \/ \E tail \in Tails : RetryWith(tail)
  PROVE  SentInv'
<1>1. ASSUME txs' = Orphans,
             \/ steps' = <<>> /\ status' = "idle" /\ pc' = "idle"
             \/ steps' \in Lists /\ pc' = "prepare" /\ before' = Awaited
                  /\ at' = 1
      PROVE  SentInv'
  <2>1. \A s \in Steps : LiveIn(txs', s) = {}
    BY <1>1, OrphanEffect, SequenceAssumption
  <2>2. \A i \in DOMAIN steps' : steps'[i] \in Steps
    BY <1>1, SequenceAssumption
  <2>3. status' # "idle" => at' \in DOMAIN steps'
    BY <1>1, SequenceAssumption
  <2>4. Lone' /\ AheadUnsent'
    BY <2>1, <2>2 DEF Lone, AheadUnsent
  <2>5. CurrentUnsent' /\ OnlyHash'
    <3>1. CASE status' = "idle" /\ pc' = "idle"
      BY <3>1 DEF CurrentUnsent, OnlyHash, Unsent, Awaiting
    <3>2. CASE steps' \in Lists /\ at' = 1
      <4>1. steps'[at'] \in Steps
        BY <3>2, SequenceAssumption
      <4> QED BY <2>1, <4>1 DEF CurrentUnsent, OnlyHash
    <3> QED BY <1>1, <3>1, <3>2
  <2>6. CountTells'
    BY <1>1, AwaitedIsNoCount DEF CountTells
  <2> QED BY <2>4, <2>5, <2>6 DEF SentInv
<1>2. CASE \E list \in Lists : Run(list)
  BY <1>1, <1>2 DEF Run
<1>3. CASE Close
  BY <1>1, <1>3 DEF Close, Stopped
<1>4. CASE Retry
  <2>1. /\ status = "failed" /\ ~maybeSent /\ status' = "running"
        /\ pc' = "prepare" /\ before' = Awaited
        /\ UNCHANGED <<txs, steps, at, hash, count>>
    BY <1>4 DEF Retry, Prepare, chain
  <2> QED BY <2>1, SentStays, AwaitedIsNoCount DEF Flowing, Unsent, Awaiting
<1>5. ASSUME NEW tail \in Tails, RetryWith(tail) PROVE SentInv'
  <2>1. /\ status = "failed" /\ Flowing /\ at' = at /\ pc = "idle"
        /\ \/ status' = "done" /\ UNCHANGED pc
           \/ pc' = "prepare" /\ status' = "running" /\ before' = Awaited
    BY <1>5 DEF RetryWith, Flowing, Shape
  <2>2. \A s \in Steps : LiveIn(txs', s) \subseteq LiveIn(txs, s)
    BY <1>5, SequenceAssumption, GivingUpEffect
  <2>3. ASSUME NEW k \in 1..Len(tail) PROVE LiveIn(txs, tail[k]) = {}
    BY <1>5, <2>3, TailUnsent
  <2>4. \A i \in DOMAIN steps' : i >= at => LiveIn(txs', steps'[i]) = {}
    <3> TAKE i \in DOMAIN steps'
    <3> HAVE i >= at
    <3>1. /\ i - at + 1 \in 1..Len(tail) /\ steps'[i] = tail[i - at + 1]
          /\ steps' \in Seq(Steps)
      BY <1>5, SequenceAssumption, Rebuilding
    <3>2. steps'[i] \in Steps
      BY <3>1
    <3> QED BY <2>2, <2>3, <3>1, <3>2
  <2>5. Lone' /\ OnlyHash'
    BY <2>1, <2>2 DEF SentInv, Lone, OnlyHash, Awaiting
  <2>6. AheadUnsent'
    <3>1. \A i \in DOMAIN steps' : i \in Nat /\ at \in Nat
      <4>1. /\ DOMAIN steps' = 1..(at - 1 + Len(tail)) /\ Len(tail) \in Nat
        BY <1>5, SequenceAssumption, Rebuilding
      <4>2. at \in Nat
        BY DEF Types
      <4> QED BY <4>1, <4>2
    <3> QED BY <2>1, <2>4, <3>1 DEF AheadUnsent
  <2>7. CurrentUnsent'
    <3>1. Unsent' => Flowing'
      BY <2>1 DEF Unsent, Flowing
    <3>2. Flowing' => at \in DOMAIN steps' /\ at >= at
      <4>1. Shape' /\ Types'
        BY <1>5, SequenceAssumption, RetryWithShape
      <4> QED BY <2>1, <4>1 DEF Shape, Types
    <3> QED BY <2>1, <2>4, <3>1, <3>2 DEF CurrentUnsent
  <2>8. CountTells'
    BY <2>1, AwaitedIsNoCount DEF CountTells
  <2> QED BY <2>5, <2>6, <2>7, <2>8 DEF SentInv
<1> QED BY <1>2, <1>3, <1>4, <1>5

(* Blocks neither lower the pending count nor add to what is live.         *)
LEMMA PendingGrows ==
  ASSUME Types, Environment, ~Awaiting
  PROVE  PendingCount' >= PendingCount
<1>0. count \in Nat /\ IsFiniteSet(Pool) /\ Cardinality(Pool) \in Nat
      /\ PendingCount = count + Cardinality(Pool)
  BY PoolFacts DEF PendingCount, Types
<1>1. ASSUME NEW h \in DOMAIN txs, Mine(h) PROVE PendingCount' >= PendingCount
  <2>1. ASSUME NEW f \in {"success", "reverted", "replaced"}, Mined(h, f),
               f = "success" => txs[h].fate = "pending"
        PROVE  PendingCount' >= PendingCount
    <3>1. /\ h \in Pool /\ f \in Fates /\ count' = count + 1
          /\ txs' = [txs EXCEPT ![h].fate = f]
      BY <2>1 DEF Mined, Pool, Fates
    <3>2. Pool' = Pool \ {h}
      BY <2>1, <3>1, FatingEffect
    <3>3. Cardinality(Pool)' = Cardinality(Pool) - 1
      BY <1>0, <3>1, <3>2, FS_RemoveElement
    <3>4. PendingCount' = count' + Cardinality(Pool)'
      BY DEF PendingCount
    <3> QED BY <1>0, <3>1, <3>3, <3>4
  <2>2. CASE txs[h].fate = "superseded"
    <3>1. Mined(h, "replaced")
      BY <1>1, <2>2 DEF Mine
    <3> QED BY <2>1, <3>1
  <2>3. CASE txs[h].fate # "superseded"
    <3>1. Mined(h, "success") \/ Mined(h, "reverted")
      BY <1>1, <2>3 DEF Mine
    <3>2. txs[h].fate = "pending"
      BY <2>3, <3>1 DEF Mined, InPool
    <3> QED BY <2>1, <3>1, <3>2
  <2> QED BY <2>2, <2>3
<1>2. ASSUME NEW h \in DOMAIN txs, Supersede(h)
      PROVE  PendingCount' >= PendingCount
  <2>1. /\ h \in Pool /\ "superseded" \in Fates /\ count' = count
        /\ txs' = [txs EXCEPT ![h].fate = "superseded"]
    BY <1>2 DEF Supersede, Pool, InPool, Fates
  <2>2. Pool' = Pool
    BY <2>1, FatingEffect
  <2> QED BY <1>0, <2>1, <2>2 DEF PendingCount
<1>3. ASSUME NEW noted \in BOOLEAN, Elsewhere(noted)
      PROVE  PendingCount' >= PendingCount
  <2>1. txs' = txs /\ count' = count + 1
    BY <1>3 DEF Elsewhere
  <2>2. Pool' = Pool
    BY <2>1 DEF Pool, InPool
  <2> QED BY <1>0, <2>1, <2>2 DEF PendingCount
<1>4. ASSUME Forget \/ WalletCatchesUp
      PROVE  PendingCount' >= PendingCount
  <2>1. txs' = txs /\ count' = count
    BY <1>4 DEF Forget, WalletCatchesUp, chain
  <2>2. Pool' = Pool
    BY <2>1 DEF Pool, InPool
  <2> QED BY <1>0, <2>1, <2>2 DEF PendingCount
<1>5. ~Drop
  BY DEF Drop, Awaiting
<1> QED BY <1>1, <1>2, <1>3, <1>4, <1>5 DEF Environment

LEMMA EnvironmentEffect ==
  ASSUME Types, Environment
  PROVE  \A s \in Steps : /\ RanIn(txs, s) \subseteq RanIn(txs', s)
                          /\ LiveIn(txs', s) \subseteq LiveIn(txs, s)
<1>1. CASE UNCHANGED txs
  BY <1>1
<1>2. ASSUME NEW h \in Pool, NEW f \in Fates,
             txs' = [txs EXCEPT ![h].fate = f],
             f = "success" => txs[h].fate = "pending", f # "pending"
      PROVE  \A s \in Steps : /\ RanIn(txs, s) \subseteq RanIn(txs', s)
                              /\ LiveIn(txs', s) \subseteq LiveIn(txs, s)
  BY <1>2, FatingEffect
<1> QED BY <1>1, <1>2, EnvironmentSteps

LEMMA EnvironmentSent ==
  ASSUME Types, Shape, SentInv, Environment
  PROVE  SentInv'
<1>1. UNCHANGED <<steps, status, phase, maybeSent, pc, at, hash, before>>
  BY EnvironmentSteps DEF run, loop
<1>2. \A s \in Steps : LiveIn(txs', s) \subseteq LiveIn(txs, s)
  BY EnvironmentEffect
<1>3. \A i \in DOMAIN steps : steps[i] \in Steps
  BY DEF Types
<1>4. Flowing => steps[at] \in Steps
  BY StepAt
<1>5. (Unsent \/ Awaiting \/ pc # "idle") => Flowing
  BY RunningFlows DEF Unsent, Awaiting, Flowing
<1>6. Lone'
  BY <1>2 DEF SentInv, Lone
<1>7. AheadUnsent'
  BY <1>1, <1>2, <1>3 DEF SentInv, AheadUnsent, Flowing
<1>8. CurrentUnsent'
  BY <1>1, <1>2, <1>4, <1>5 DEF SentInv, CurrentUnsent, Unsent
<1>9. OnlyHash'
  BY <1>1, <1>2, <1>4, <1>5 DEF SentInv, OnlyHash, Awaiting
<1>10. CountTells'
  <2> SUFFICES ASSUME pc \in {"prepare", "wallet", "judge"}, before \in Nat
               PROVE  /\ before <= PendingCount'
                      /\ LiveIn(txs', steps[at]) # {} => before < PendingCount'
    BY <1>1 DEF CountTells
  <2>1. ~Awaiting
    BY DEF Awaiting, Shape
  <2>2. PendingCount' >= PendingCount /\ PendingCount \in Nat /\ PendingCount' \in Nat
    <3>1. Types'
      BY EnvironmentShape
    <3>2. PendingCount' \in Nat
      <4>1. txs' \in Seq(Tx) /\ count' \in Nat
        BY <3>1 DEF Types
      <4>2. DOMAIN txs' = 1..Len(txs') /\ Len(txs') \in Nat
        BY <4>1
      <4>3. Pool' \subseteq 1..Len(txs') /\ IsFiniteSet(1..Len(txs'))
        BY <4>2, FS_Interval DEF Pool
      <4>4. IsFiniteSet(Pool') /\ Cardinality(Pool') \in Nat
        BY <4>3, FS_Subset, FS_CardinalityType
      <4> QED BY <4>1, <4>4 DEF PendingCount
    <3> QED BY <2>1, <3>2, PendingGrows, PoolFacts
  <2>3. /\ before <= PendingCount
        /\ LiveIn(txs, steps[at]) # {} => before < PendingCount
    BY DEF SentInv, CountTells
  <2> QED BY <1>2, <1>4, <1>5, <2>2, <2>3
<1> QED BY <1>6, <1>7, <1>8, <1>9, <1>10 DEF SentInv

LEMMA StepSent ==
  Types /\ Shape /\ OrderInv /\ SentInv /\ FlowInv /\ [Next]_vars => SentInv'
<1> SUFFICES ASSUME Types, Shape, OrderInv, SentInv, FlowInv, [Next]_vars
             PROVE  SentInv'
  OBVIOUS
<1>1. CASE UNCHANGED vars
  BY <1>1, SentStays DEF vars, run, loop, chain, Flowing, Unsent, Awaiting
<1> QED BY <1>1, PageSent, AnswerSent, ReceiptSent, ButtonSent,
           EnvironmentSent DEF Next

-----------------------------------------------------------------------------
(* What ran, in which order.                                               *)

LEMMA SamePhases ==
  ASSUME Types, Shape, NEW p \in Phases \ {"done"}, NEW i \in DOMAIN steps,
         [phase EXCEPT ![at] = p][i] = "done"
  PROVE  phase[i] = "done"
<1>1. i \in DOMAIN phase
  BY DEF Types, Shape
<1>2. [phase EXCEPT ![at] = p][i] = IF i = at THEN p ELSE phase[i]
  BY <1>1
<1> QED BY <1>2

LEMMA OrderStays ==
  ASSUME Types, Shape, OrderInv, UNCHANGED <<txs, steps, at>>,
         Flowing' => Flowing, status' = "done" => status = "done",
         phase' = phase
           \/ \E p \in Phases \ {"done"} : phase' = [phase EXCEPT ![at] = p]
  PROVE  OrderInv'
<1>1. \A i \in DOMAIN steps : phase'[i] = "done" => phase[i] = "done"
  BY SamePhases
<1> QED BY <1>1 DEF OrderInv

LEMMA StepOrder ==
  Types /\ Shape /\ SentInv /\ OrderInv /\ [Next]_vars => OrderInv'
<1> SUFFICES ASSUME Types, Shape, SentInv, OrderInv, [Next]_vars PROVE OrderInv'
  OBVIOUS
<1> DEFINE Keeps == /\ UNCHANGED <<txs, steps, at>>
                    /\ Flowing' => Flowing
                    /\ status' = "done" => status = "done"
                    /\ \/ phase' = phase
                       \/ \E p \in Phases \ {"done"} :
                            phase' = [phase EXCEPT ![at] = p]
<1>1. ASSUME NEW sent, Fail(sent), pc # "idle", UNCHANGED <<txs, steps, at>>
      PROVE  Keeps
  <2>1. Flowing /\ status' = "failed" /\ phase' = [phase EXCEPT ![at] = "error"]
    BY <1>1, RunningFlows DEF Fail
  <2> QED BY <1>1, <2>1 DEF Phases
<1>2. CASE Page
  <2>1. ASSUME EstimateReverts \/ \E c \in {PendingCount, Unread} : Judge(c)
        PROVE  Keeps
    <3>1. \E sent : Fail(sent) /\ pc # "idle" /\ UNCHANGED <<txs, steps, at>>
      BY <2>1 DEF EstimateReverts, Judge, chain
    <3> QED BY <1>1, <3>1
  <2>2. ASSUME \/ \E c \in {PendingCount, Unread} : CountRead(c)
               \/ \E t \in BOOLEAN : Prompt(t)
        PROVE  Keeps
    BY <2>2 DEF CountRead, Prompt, run, chain, Flowing
  <2>3. Keeps
    BY <1>2, <2>1, <2>2 DEF Page
  <2> QED BY <2>3, OrderStays
<1>3. CASE \/ SlowWallet \/ ReceiptLate \/ KeepWaiting \/ Rejects \/ Refuses
           \/ UNCHANGED vars
  <2>1. ASSUME Rejects PROVE Keeps
    <3>1. Fail(FALSE) /\ pc # "idle" /\ UNCHANGED <<txs, steps, at>>
      BY <2>1 DEF Rejects, chain
    <3> QED BY <1>1, <3>1
  <2>2. ASSUME SlowWallet \/ Refuses \/ UNCHANGED vars PROVE Keeps
    BY <2>2 DEF SlowWallet, Refuses, vars, run, loop, chain, Flowing
  <2>3. ASSUME ReceiptLate \/ KeepWaiting PROVE Keeps
    BY <2>3, RunningFlows DEF ReceiptLate, KeepWaiting, chain, Flowing
  <2>4. Keeps
    BY <1>3, <2>1, <2>2, <2>3
  <2> QED BY <2>4, OrderStays
<1>4. ASSUME Sends \/ \E known \in BOOLEAN : SendsUnheard(known)
      PROVE  OrderInv'
  <2>1. /\ Flowing /\ Broadcast /\ UNCHANGED <<steps, at, count>>
        /\ status' \in {"running", "failed"}
        /\ \/ phase' = phase
           \/ \E p \in Phases \ {"done"} : phase' = [phase EXCEPT ![at] = p]
    BY <1>4, RunningFlows DEF Sends, SendsUnheard, Fail, run, Phases
  <2>2. \A s \in Steps : RanIn(txs', s) = RanIn(txs, s)
    BY <2>1, SendingEffect
  <2>3. \A i \in DOMAIN steps :
          /\ steps[i] \in Steps /\ (phase'[i] = "done" => phase[i] = "done")
    <3>1. \A i \in DOMAIN steps : steps[i] \in Steps
      BY DEF Types
    <3>2. \A i \in DOMAIN steps : phase'[i] = "done" => phase[i] = "done"
      BY <2>1, SamePhases
    <3> QED BY <3>1, <3>2
  <2> QED BY <2>1, <2>2, <2>3 DEF OrderInv
<1>5. ASSUME NEW read \in BOOLEAN, StepMined(read) PROVE OrderInv'
  <2>1. /\ pc = "receipt" /\ Flowing /\ status = "running"
        /\ UNCHANGED <<steps, txs>> /\ txs[hash].fate = "success"
    BY <1>5, RunningFlows DEF StepMined, Receipt, RanStep, chain
  <2>2. at \in DOMAIN steps /\ \A i \in DOMAIN steps : i \in 1..Len(steps)
    BY <2>1, StepAt DEF Types
  <2>3. hash \in RanIn(txs, steps[at])
    BY <2>1 DEF RanIn, Shape, Awaiting
  <2>4. \A i \in DOMAIN steps : i <= at => RanIn(txs, steps[i]) # {}
    BY <2>1, <2>2, <2>3 DEF OrderInv
  <2>5. CASE at = Len(steps)
    <3>1. status' = "done"
      BY <1>5, <2>5 DEF StepMined
    <3> QED BY <2>1, <2>2, <2>4, <2>5, <3>1 DEF OrderInv, Flowing
  <2>6. CASE at # Len(steps)
    <3>1. /\ at' = at + 1 /\ status' = "running"
          /\ phase' = [phase EXCEPT ![at] = "done", ![at + 1] = "signing"]
      BY <1>5, <2>1, <2>6 DEF StepMined
    <3>2. /\ at + 1 \in DOMAIN phase /\ DOMAIN phase = DOMAIN steps
          /\ phase'[at + 1] = "signing"
      <4>1. at + 1 \in 1..Len(steps)
        BY <2>2, <2>6 DEF Types
      <4>2. DOMAIN phase = 1..Len(steps) /\ DOMAIN steps = 1..Len(steps)
        BY DEF Shape, Types
      <4> QED BY <3>1, <4>1, <4>2
    <3>3. ASSUME NEW i \in DOMAIN steps, i >= at + 1 PROVE phase'[i] # "done"
      <4>1. CASE i = at + 1
        BY <3>2, <4>1
      <4>2. CASE i # at + 1
        <5>1. i # at /\ i >= at /\ i \in DOMAIN phase
          BY <2>2, <3>2, <3>3, <4>2
        <5>2. phase'[i] = phase[i]
          BY <3>1, <4>2, <5>1
        <5> QED BY <2>1, <5>1, <5>2 DEF OrderInv
      <4> QED BY <4>1, <4>2
    <3>4. \A i \in DOMAIN steps : i < at + 1 => RanIn(txs, steps[i]) # {}
      BY <2>2, <2>4
    <3> QED BY <2>1, <3>1, <3>3, <3>4 DEF OrderInv
  <2> QED BY <2>5, <2>6
<1>6. ASSUME NEW read \in BOOLEAN, StepFailed(read) PROVE OrderInv'
  <2>1. Fail(FALSE) /\ pc # "idle" /\ UNCHANGED <<txs, steps, at>>
    BY <1>6 DEF StepFailed, Receipt, chain
  <2>2. Keeps
    BY <1>1, <2>1
  <2> QED BY <2>2, OrderStays
<1>7. ASSUME NEW list \in Lists, Run(list) PROVE OrderInv'
  <2>1. /\ steps' = list /\ at' = 1 /\ status' = "running"
        /\ phase' = [i \in DOMAIN list |-> IF i = 1 THEN "signing" ELSE "todo"]
    BY <1>7 DEF Run
  <2>2. \A i \in DOMAIN list : i \in 1..Len(list) /\ Len(list) \in Nat
    BY SequenceAssumption
  <2> QED BY <2>1, <2>2 DEF OrderInv, Flowing
<1>8. CASE Close
  BY <1>8 DEF Close, Stopped, OrderInv, Flowing
<1>9. CASE Retry
  <2>1. /\ Flowing /\ UNCHANGED <<txs, steps, at>> /\ status' = "running"
        /\ phase' = [phase EXCEPT ![at] = "signing"]
    BY <1>9 DEF Retry, Prepare, Flowing, chain
  <2>2. Keeps
    BY <2>1 DEF Phases
  <2> QED BY <2>2, OrderStays
<1>10. ASSUME NEW tail \in Tails, RetryWith(tail) PROVE OrderInv'
  <2> DEFINE n == Len(tail)
  <2>1. /\ Flowing /\ at' = at
        /\ phase' = [i \in 1..(at - 1 + n) |->
                       IF i < at THEN phase[i]
                       ELSE IF i = at THEN "signing" ELSE "todo"]
        /\ status' = "done" => n = 0
    BY <1>10 DEF RetryWith, Flowing
  <2>2. /\ at \in Nat \ {0} /\ n \in Nat /\ Len(steps) \in Nat /\ at <= Len(steps)
        /\ DOMAIN steps' = 1..(at - 1 + n) /\ DOMAIN steps = 1..Len(steps)
    BY <1>10, SequenceAssumption, Rebuilding DEF Types
  <2>3. ASSUME NEW i \in DOMAIN steps', i < at
        PROVE  RanIn(txs', steps'[i]) # {}
    <3>1. steps'[i] = steps[i]
      BY <1>10, <2>3, SequenceAssumption, Rebuilding
    <3>2. i \in DOMAIN steps /\ steps[i] \in Steps
      BY <2>2, <2>3 DEF Types
    <3>3. RanIn(txs', steps[i]) = RanIn(txs, steps[i])
      BY <1>10, <3>2, SequenceAssumption, GivingUpEffect
    <3> QED BY <2>1, <2>3, <3>1, <3>2, <3>3 DEF OrderInv
  <2>4. ASSUME NEW i \in DOMAIN steps', i >= at PROVE phase'[i] # "done"
    BY <2>1, <2>2, <2>4
  <2>5. ASSUME n = 0, NEW i \in DOMAIN steps' PROVE i < at
    BY <2>2, <2>5
  <2> HIDE DEF n
  <2> QED BY <2>1, <2>3, <2>4, <2>5 DEF OrderInv
<1>11. CASE Environment
  <2>1. UNCHANGED <<steps, status, phase, at>>
    BY <1>11, EnvironmentSteps DEF run, loop
  <2>2. \A i \in DOMAIN steps : RanIn(txs, steps[i]) \subseteq RanIn(txs', steps[i])
    <3>1. \A i \in DOMAIN steps : steps[i] \in Steps
      BY DEF Types
    <3> QED BY <1>11, <3>1, EnvironmentEffect
  <2> QED BY <2>1, <2>2 DEF OrderInv, Flowing
<1>12. Answer => \/ Sends \/ \E known \in BOOLEAN : SendsUnheard(known)
                 \/ Rejects \/ Refuses
  BY DEF Answer
<1> QED BY <1>2, <1>3, <1>4, <1>5, <1>6, <1>7, <1>8, <1>9, <1>10, <1>11, <1>12
        DEF Next

-----------------------------------------------------------------------------
(* What the tab knows of the account.                                      *)

(* Steps of a tab that goes on knowing, or not knowing, what it knew.      *)
LEMMA NotedStays ==
  ASSUME NotedInv, UNCHANGED <<txs, count, walletCount, lastMined>>,
         ~unnoted' => ~unnoted,
         ~unnoted => /\ HashMined' <=> HashMined
                     /\ Pool # {} => Awaiting' /\ hash' = hash
                     /\ HashMined => hash' = hash
                     /\ pc' \in {"prepare", "wallet"} => prev' = lastMined
                     /\ pc' = "wallet" /\ ~late' => walletCount = count
  PROVE  NotedInv'
<1>1. Pool' = Pool
  BY DEF Pool, InPool
<1> QED BY <1>1 DEF NotedInv

LEMMA NoPool ==
  ASSUME NotedInv, ~unnoted, ~Awaiting
  PROVE  Pool = {} /\ ~HashMined /\ lastMined = count
BY DEF NotedInv, HashMined

LEMMA PageNoted ==
  ASSUME Types, Shape, NotedInv, Page
  PROVE  NotedInv'
<1>0. ~Awaiting /\ pc \in {"prepare", "judge"} /\ status = "running"
  <2>1. pc \in {"prepare", "judge"}
    BY DEF Page, EstimateReverts, CountRead, Prompt, Judge
  <2> QED BY <2>1 DEF Shape, Awaiting
<1>1. CASE EstimateReverts \/ \E c \in {PendingCount, Unread} : Judge(c)
  <2>1. /\ pc' = "idle" /\ status' = "failed"
        /\ UNCHANGED <<txs, count, walletCount, lastMined, unnoted>>
    BY <1>1 DEF EstimateReverts, Judge, Fail, chain
  <2> QED BY <1>0, <2>1, NoPool, NotedStays DEF Awaiting, HashMined
<1>2. ASSUME NEW c \in {PendingCount, Unread}, CountRead(c) PROVE NotedInv'
  <2>1. /\ pc = "prepare" /\ pc' = "prepare" /\ status' = status /\ prev' = prev
        /\ UNCHANGED <<txs, count, walletCount, lastMined, unnoted>>
    BY <1>2 DEF CountRead, run, chain
  <2>2. ~unnoted => prev = lastMined
    BY <2>1 DEF NotedInv
  <2> QED BY <1>0, <2>1, <2>2, NoPool, NotedStays DEF Awaiting, HashMined
<1>3. ASSUME NEW t \in BOOLEAN, Prompt(t) PROVE NotedInv'
  <2>1. /\ pc = "prepare" /\ pc' = "wallet" /\ status' = status /\ prev' = prev
        /\ late' = (walletCount < prev)
        /\ UNCHANGED <<txs, count, walletCount, lastMined, unnoted>>
    BY <1>3 DEF Prompt, chain
  <2>2. ~unnoted => prev = lastMined /\ lastMined = count
    BY <1>0, <2>1, NoPool DEF NotedInv
  <2>3. ~unnoted /\ ~late' => walletCount = count
    <3>1. walletCount <= count /\ walletCount \in Nat /\ count \in Nat
      BY DEF NotedInv, Types
    <3>2. SUFFICES ASSUME ~unnoted, ~late' PROVE walletCount = count
      OBVIOUS
    <3>3. prev = count /\ ~(walletCount < prev)
      BY <2>1, <2>2, <3>2
    <3> QED BY <3>1, <3>3
  <2> QED BY <1>0, <2>1, <2>2, <2>3, NoPool, NotedStays DEF Awaiting, HashMined
<1> QED BY <1>1, <1>2, <1>3 DEF Page

LEMMA AnswerNoted ==
  ASSUME Types, Shape, NotedInv, Answer
  PROVE  NotedInv'
<1>0. pc = "wallet" /\ status = "running" /\ ~Awaiting /\ Flowing
  <2>1. pc = "wallet"
    BY DEF Answer, Rejects, Sends, Refuses, SendsUnheard
  <2> QED BY <2>1, RunningFlows DEF Shape, Awaiting
<1>1. CASE Rejects \/ Refuses
  <2>1. /\ pc' \in {"idle", "judge"} /\ status' \in {"failed", "running"}
        /\ UNCHANGED <<txs, count, walletCount, lastMined, unnoted>>
    BY <1>0, <1>1 DEF Rejects, Refuses, Fail, run, chain
  <2> QED BY <1>0, <2>1, NoPool, NotedStays DEF Awaiting, HashMined
<1>2. CASE Sends
  <2>1. /\ Broadcast /\ hash' = Len(txs) + 1 /\ pc' = "receipt"
        /\ UNCHANGED <<lastMined, count, walletCount, unnoted>>
    BY <1>2 DEF Sends
  <2>2. ASSUME ~unnoted
        PROVE  /\ Pool' = {hash'} /\ txs'[hash'].nonce = count
               /\ ~HashMined' /\ Awaiting' /\ lastMined = count
    <3>1. Pool = {} /\ lastMined = count
      BY <1>0, <2>2, NoPool
    <3>2. /\ txs'[hash'].nonce = PendingCount /\ txs'[hash'].fate = "pending"
          /\ Pool' = {hash'}
      BY <1>0, <2>1, <3>1, StepAt, Sending, SendingEffect
    <3>3. PendingCount = count
      BY <3>1, FS_EmptySet DEF PendingCount, Types
    <3> QED BY <2>1, <3>1, <3>2, <3>3 DEF HashMined, MinedFates, Awaiting
  <2>3. walletCount <= count
    BY DEF NotedInv
  <2> QED BY <2>1, <2>2, <2>3 DEF NotedInv
<1>3. ASSUME NEW known \in BOOLEAN, SendsUnheard(known) PROVE NotedInv'
  <2>1. unnoted' /\ UNCHANGED <<count, walletCount>>
    BY <1>3 DEF SendsUnheard
  <2> QED BY <2>1 DEF NotedInv
<1> QED BY <1>1, <1>2, <1>3 DEF Answer

LEMMA ReceiptNoted ==
  ASSUME Types, Shape, NotedInv,
         \/ SlowWallet \/ ReceiptLate \/ KeepWaiting
         \/ \E read \in BOOLEAN : StepMined(read) \/ StepFailed(read)
  PROVE  NotedInv'
<1>1. CASE SlowWallet
  <2>1. UNCHANGED <<txs, count, walletCount, lastMined, unnoted, hash, pc,
                    status, prev, late>>
    BY <1>1 DEF SlowWallet, loop, chain
  <2> QED BY <2>1, NotedStays DEF NotedInv, HashMined, Awaiting
<1>2. CASE ReceiptLate \/ KeepWaiting
  <2>1. /\ UNCHANGED <<txs, count, walletCount, lastMined, unnoted, hash>>
        /\ Awaiting /\ Awaiting' /\ pc' \notin {"prepare", "wallet"}
    BY <1>2 DEF ReceiptLate, KeepWaiting, Awaiting, chain
  <2> QED BY <2>1, NotedStays DEF HashMined
<1>3. ASSUME NEW read \in BOOLEAN, StepMined(read) \/ StepFailed(read)
      PROVE  NotedInv'
  <2>1. /\ pc = "receipt" /\ status = "running" /\ NoteMined(hash, read)
        /\ txs[hash].fate \in MinedFates
        /\ UNCHANGED <<hash, txs, count, walletCount>>
        /\ pc' \in {"idle", "prepare"}
        /\ status' \in {"done", "failed", "running"}
        /\ pc' = "prepare" => prev' = lastMined'
    BY <1>3 DEF StepMined, StepFailed, Fail, Receipt, MinedFates, Shape, chain
  <2>2. HashMined /\ Awaiting /\ ~Awaiting' /\ ~HashMined' /\ Pool' = Pool
    BY <2>1 DEF HashMined, Awaiting, Pool, InPool
  <2>3. hash \in DOMAIN txs /\ hash \notin Pool
    BY <2>1, <2>2 DEF Shape, Pool, InPool, MinedFates
  <2>4. ASSUME ~unnoted' PROVE Pool = {} /\ lastMined' = count
    <3>1. /\ read /\ ~unnoted
          /\ lastMined' = IF txs[hash].nonce + 1 > lastMined
                          THEN txs[hash].nonce + 1 ELSE lastMined
      BY <2>1, <2>4 DEF NoteMined
    <3>2. txs[hash].nonce + 1 = count /\ lastMined <= count /\ Pool \subseteq {hash}
      BY <2>2, <3>1 DEF NotedInv
    <3>3. lastMined \in Nat /\ count \in Nat
      BY DEF Types
    <3> QED BY <2>3, <3>1, <3>2, <3>3
  <2>5. walletCount <= count
    BY DEF NotedInv
  <2> QED BY <2>1, <2>2, <2>4, <2>5 DEF NotedInv
<1> QED BY <1>1, <1>2, <1>3

LEMMA ButtonNoted ==
  ASSUME Types, Shape, NotedInv,
         \/ \E list \in Lists : Run(list)
         \/ Retry \/ Close
         \/ \E tail \in Tails : RetryWith(tail)
  PROVE  NotedInv'
<1>1. CASE Retry
  <2>1. /\ status = "failed" /\ pc = "idle"
        /\ UNCHANGED <<hash, txs, count, walletCount, lastMined, unnoted>>
        /\ status' = "running" /\ pc' = "prepare" /\ prev' = lastMined
    BY <1>1 DEF Retry, Prepare, Shape, chain
  <2>2. ~Awaiting /\ ~Awaiting'
    BY <2>1 DEF Awaiting
  <2> QED BY <2>1, <2>2, NoPool, NotedStays DEF HashMined
<1>3. ASSUME NEW tail \in Tails, RetryWith(tail) PROVE NotedInv'
  <2>1. /\ status = "failed" /\ pc = "idle"
        /\ UNCHANGED <<hash, count, walletCount, lastMined, unnoted>>
        /\ status' \in {"done", "running"} /\ pc' \in {"idle", "prepare"}
        /\ pc' = "prepare" => prev' = lastMined
    BY <1>3 DEF RetryWith, Shape
  <2>2. ~Awaiting /\ ~Awaiting' /\ ~HashMined'
    BY <2>1 DEF Awaiting, HashMined
  <2>3. Pool' = Pool
    BY <1>3, SequenceAssumption, GivingUpEffect
  <2>4. ~unnoted => Pool = {} /\ lastMined = count
    BY <2>2, NoPool
  <2> QED BY <2>1, <2>2, <2>3, <2>4 DEF NotedInv
<1>2. ASSUME \/ \E list \in Lists : Run(list)
             \/ Close
      PROVE  NotedInv'
  <2>1. /\ txs' = Orphans /\ UNCHANGED <<count, walletCount, lastMined>>
        /\ pc' \in {"idle", "prepare"} /\ status' \in {"idle", "running"}
        /\ pc' = "prepare" => prev' = lastMined
        /\ ~unnoted' => ~unnoted /\ ~Awaiting
    <3>1. CASE \E list \in Lists : Run(list)
      BY <3>1 DEF Run, Awaiting
    <3>2. CASE Close
      <4>1. /\ txs' = Orphans /\ UNCHANGED <<count, walletCount, lastMined>>
            /\ pc' = "idle" /\ status' = "idle" /\ Closable
            /\ unnoted' = (unnoted \/ status = "waiting" \/ maybeSent)
        BY <3>2 DEF Close, Stopped
      <4>2. ~unnoted' => ~unnoted /\ status # "waiting"
        BY <4>1
      <4>3. status # "waiting" => ~Awaiting
        BY <4>1 DEF Closable, Shape, Awaiting
      <4> QED BY <4>1, <4>2, <4>3
    <3> QED BY <1>2, <3>1, <3>2
  <2>2. ~Awaiting' /\ ~HashMined'
    BY <2>1 DEF Awaiting, HashMined
  <2>3. ASSUME ~unnoted' PROVE Pool' = {} /\ lastMined = count
    <3>1. Pool = {} /\ lastMined = count
      BY <2>1, <2>3, NoPool
    <3>2. DOMAIN txs' = {}
      BY <2>1, <3>1, OrphanTypes, FS_EmptySet
    <3> QED BY <3>1, <3>2 DEF Pool
  <2>4. walletCount <= count
    BY DEF NotedInv
  <2> QED BY <2>1, <2>2, <2>3, <2>4 DEF NotedInv
<1> QED BY <1>1, <1>2, <1>3

LEMMA EnvironmentNoted ==
  ASSUME Types, Shape, NotedInv, Environment
  PROVE  NotedInv'
<1>0. /\ walletCount <= count /\ walletCount \in Nat /\ count \in Nat
      /\ lastMined \in Nat
  BY DEF NotedInv, Types
<1>1. UNCHANGED <<status, pc, hash, prev, late>>
  BY EnvironmentSteps DEF run, loop
<1>2. Awaiting' <=> Awaiting
  BY <1>1 DEF Awaiting
<1>3. ASSUME NEW h \in DOMAIN txs, NEW f \in {"success", "reverted", "replaced"},
             Mined(h, f), f = "success" => txs[h].fate = "pending"
      PROVE  NotedInv'
  <2>1. /\ h \in Pool /\ f \in Fates /\ count' = count + 1
        /\ txs' = [txs EXCEPT ![h].fate = f]
        /\ UNCHANGED <<lastMined, walletCount, unnoted>>
    BY <1>3 DEF Mined, Pool, Fates
  <2>2. /\ Pool' = Pool \ {h} /\ txs'[h].fate = f
        /\ txs'[h].nonce = txs[h].nonce
    BY <1>3, <2>1, FatingEffect, Fating
  <2>3. ASSUME ~unnoted
        PROVE  /\ Pool' = {} /\ HashMined' /\ txs'[hash].nonce + 1 = count'
               /\ lastMined <= count' /\ pc \notin {"prepare", "wallet"}
    <3>1. /\ h = hash /\ Pool = {hash} /\ Awaiting /\ txs[hash].nonce = count
      BY <2>1, <2>3 DEF NotedInv
    <3>2. ~HashMined
      BY <2>1, <3>1 DEF HashMined, Pool, InPool, MinedFates
    <3>3. lastMined = count
      BY <2>3, <3>2 DEF NotedInv
    <3>4. pc \notin {"prepare", "wallet"}
      BY <3>1 DEF Awaiting, Shape
    <3> QED BY <1>0, <1>1, <1>2, <2>1, <2>2, <3>1, <3>3, <3>4
            DEF HashMined, MinedFates
  <2>4. walletCount' <= count'
    BY <1>0, <2>1
  <2> QED BY <1>1, <2>1, <2>3, <2>4 DEF NotedInv
<1>4. ASSUME NEW h \in Pool, NEW f \in {"superseded", "dropped"},
             txs' = [txs EXCEPT ![h].fate = f],
             UNCHANGED <<count, lastMined, walletCount, unnoted>>
      PROVE  NotedInv'
  <2>1. f \in Fates /\ f # "success" /\ f # "pending"
    BY DEF Fates
  <2>2. /\ Pool' = IF f = "superseded" THEN Pool ELSE Pool \ {h}
        /\ txs'[h].fate = f /\ txs'[h].nonce = txs[h].nonce
    <3>1. h \in DOMAIN txs
      BY DEF Pool
    <3>2. txs'[h].fate = f /\ txs'[h].nonce = txs[h].nonce
      BY <1>4, <2>1, <3>1, Fating
    <3>3. Pool' = IF f = "superseded" THEN Pool ELSE Pool \ {h}
      BY <1>4, <2>1, FatingEffect
    <3> QED BY <3>2, <3>3
  <2>3. ASSUME ~unnoted
        PROVE  /\ h = hash /\ Awaiting /\ txs[hash].nonce = count
               /\ lastMined = count /\ ~HashMined' /\ Pool' \subseteq {hash}
               /\ pc \notin {"prepare", "wallet"}
    <3>1. /\ h = hash /\ Pool = {hash} /\ Awaiting /\ txs[hash].nonce = count
      BY <2>3 DEF NotedInv
    <3>2. ~HashMined
      BY <3>1 DEF HashMined, Pool, InPool, MinedFates
    <3>3. lastMined = count
      BY <2>3, <3>2 DEF NotedInv
    <3>4. pc \notin {"prepare", "wallet"}
      BY <3>1 DEF Awaiting, Shape
    <3>5. ~HashMined'
      BY <1>1, <2>2, <3>1 DEF HashMined, MinedFates
    <3> QED BY <2>2, <3>1, <3>3, <3>4, <3>5
  <2> QED BY <1>0, <1>1, <1>2, <1>4, <2>2, <2>3 DEF NotedInv
<1>5. CASE \E h \in DOMAIN txs : Mine(h)
  <2> SUFFICES ASSUME NEW h \in DOMAIN txs, Mine(h) PROVE NotedInv'
    BY <1>5
  <2>1. CASE txs[h].fate = "superseded"
    <3>1. Mined(h, "replaced")
      BY <2>1 DEF Mine
    <3> QED BY <1>3, <3>1
  <2>2. CASE txs[h].fate # "superseded"
    <3>1. Mined(h, "success") \/ Mined(h, "reverted")
      BY <2>2 DEF Mine
    <3>2. txs[h].fate = "pending"
      BY <2>2, <3>1 DEF Mined, InPool
    <3> QED BY <1>3, <3>1, <3>2
  <2> QED BY <2>1, <2>2
<1>6. CASE \E h \in DOMAIN txs : Supersede(h)
  <2> SUFFICES ASSUME NEW h \in DOMAIN txs, Supersede(h) PROVE NotedInv'
    BY <1>6
  <2>1. /\ h \in Pool /\ txs' = [txs EXCEPT ![h].fate = "superseded"]
        /\ UNCHANGED <<count, lastMined, walletCount, unnoted>>
    BY DEF Supersede, Pool, InPool
  <2> QED BY <1>4, <2>1
<1>7. CASE Drop
  <2>1. /\ hash \in Pool /\ txs' = [txs EXCEPT ![hash].fate = "dropped"]
        /\ UNCHANGED <<count, lastMined, walletCount, unnoted>>
    BY <1>7 DEF Drop
  <2> QED BY <1>4, <2>1
<1>8. ASSUME NEW noted \in BOOLEAN, Elsewhere(noted) PROVE NotedInv'
  <2>1. /\ Pool = {} /\ UNCHANGED <<txs, walletCount>> /\ count' = count + 1
        /\ noted => status = "idle" /\ lastMined' = count + 1
        /\ ~noted => unnoted'
    BY <1>8 DEF Elsewhere
  <2>2. walletCount' <= count'
    BY <1>0, <2>1
  <2>3. CASE ~noted
    BY <2>1, <2>2, <2>3 DEF NotedInv
  <2>4. CASE noted
    <3>1. pc = "idle" /\ ~Awaiting
      BY <2>1, <2>4 DEF Shape, Types, Awaiting
    <3>2. Pool' = {} /\ ~HashMined'
      BY <1>2, <2>1, <3>1 DEF Pool, InPool, HashMined
    <3> QED BY <1>1, <2>1, <2>2, <2>4, <3>1, <3>2 DEF NotedInv
  <2> QED BY <2>3, <2>4
<1>9. CASE Forget
  BY <1>9 DEF Forget, chain, NotedInv
<1>10. CASE WalletCatchesUp
  <2>1. /\ walletCount < count /\ walletCount' <= count' /\ walletCount' \in Nat
        /\ UNCHANGED <<lastMined, unnoted, txs, count>>
    BY <1>0, <1>10 DEF WalletCatchesUp, chain
  <2>2. Pool' = Pool /\ (HashMined' <=> HashMined)
    BY <1>1, <1>2, <2>1 DEF Pool, InPool, HashMined
  <2>3. ~unnoted => ~(pc = "wallet" /\ ~late)
    BY <1>0, <2>1 DEF NotedInv
  <2> QED BY <1>1, <1>2, <2>1, <2>2, <2>3 DEF NotedInv
<1> QED BY <1>5, <1>6, <1>7, <1>8, <1>9, <1>10 DEF Environment

LEMMA StepNoted == Types /\ Shape /\ NotedInv /\ [Next]_vars => NotedInv'
<1> SUFFICES ASSUME Types, Shape, NotedInv, [Next]_vars PROVE NotedInv'
  OBVIOUS
<1>1. CASE UNCHANGED vars
  <2>1. UNCHANGED <<txs, count, walletCount, lastMined, unnoted, hash, pc,
                    status, prev, late>>
    BY <1>1 DEF vars, run, loop, chain
  <2> QED BY <2>1, NotedStays DEF NotedInv, HashMined, Awaiting
<1> QED BY <1>1, PageNoted, AnswerNoted, ReceiptNoted, ButtonNoted,
           EnvironmentNoted DEF Next

-----------------------------------------------------------------------------
(* The order in which the account mines, and whose steps are pending.      *)

LEMMA InitFlow == Init => FlowInv
BY DEF Init, FlowInv, MinesInOrder, OwnSteps, Unfated

LEMMA SendingFlow ==
  ASSUME Types, Shape, FlowInv, Flowing, Broadcast, UNCHANGED steps
  PROVE  FlowInv'
<1> DEFINE n == Len(txs) + 1
<1>1. /\ DOMAIN txs' = DOMAIN txs \cup {n} /\ n \notin DOMAIN txs
      /\ \A h \in DOMAIN txs : txs'[h] = txs[h]
      /\ txs'[n].step = steps[at] /\ txs'[n].fate = "pending"
  BY Sending DEF Shape
<1>2. \A h \in DOMAIN txs : h < n
  <2>1. DOMAIN txs = 1..Len(txs) /\ Len(txs) \in Nat
    BY DEF Types
  <2> QED BY <2>1
<1>3. at \in DOMAIN steps /\ n \in Nat
  <2>1. Len(txs) \in Nat
    BY DEF Types
  <2> QED BY <2>1, StepAt
<1> HIDE DEF n
<1>4. Unfated(txs') = Unfated(txs) \cup {n}
  BY <1>1 DEF Unfated
<1>5. MinesInOrder(txs')
  <2>1. \A k \in DOMAIN txs' : ~(n < k)
    <3>1. DOMAIN txs \subseteq Nat
      BY DEF Types
    <3> QED BY <1>1, <1>2, <1>3, <3>1
  <2> QED BY <1>1, <1>4, <2>1 DEF FlowInv, MinesInOrder
<1>6. OwnSteps(txs', steps)
  BY <1>1, <1>3 DEF FlowInv, OwnSteps
<1> QED BY <1>5, <1>6 DEF FlowInv

LEMMA OrphanFlow ==
  ASSUME Types, txs' = Orphans
  PROVE  FlowInv'
<1>1. \A h \in DOMAIN Orphans : Orphans[h].step = Foreign
                                /\ Orphans[h].fate = "pending"
  BY DEF Orphans
<1> QED BY <1>1 DEF FlowInv, MinesInOrder, OwnSteps, Unfated

LEMMA EnvironmentFlow ==
  ASSUME Types, FlowInv, Environment
  PROVE  FlowInv'
<1>1. UNCHANGED steps
  BY EnvironmentSteps DEF run
<1>2. CASE UNCHANGED txs
  BY <1>1, <1>2 DEF FlowInv
<1>3. ASSUME NEW h \in Pool, NEW f \in Fates,
             txs' = [txs EXCEPT ![h].fate = f],
             f = "success" => txs[h].fate = "pending", f # "pending",
             f # "superseded" => \A k \in Pool : h <= k
      PROVE  FlowInv'
  <2>1. /\ DOMAIN txs' = DOMAIN txs /\ txs'[h].fate = f
        /\ \A k \in DOMAIN txs : /\ txs'[k].step = txs[k].step
                                 /\ k # h => txs'[k].fate = txs[k].fate
    BY <1>3, Fating
  <2>2. h \in DOMAIN txs /\ Unfated(txs) = Pool /\ DOMAIN txs \subseteq Nat
    BY DEF Pool, Unfated, InPool, Types
  <2>3. CASE f = "superseded"
    <3>1. Unfated(txs') = Unfated(txs)
      BY <2>1, <2>2, <2>3 DEF Unfated
    <3>2. OwnSteps(txs', steps)
      BY <2>1, <2>3 DEF FlowInv, OwnSteps
    <3> QED BY <1>1, <2>1, <3>1, <3>2 DEF FlowInv, MinesInOrder
  <2>4. CASE f # "superseded"
    <3>1. Unfated(txs') = Unfated(txs) \ {h}
      BY <1>3, <2>1, <2>2, <2>4 DEF Unfated
    <3>2. ASSUME NEW i \in Unfated(txs'), NEW k \in DOMAIN txs, i < k
          PROVE  k \in Unfated(txs')
      <4>1. i \in Unfated(txs) /\ i \in Nat /\ h <= i /\ h \in Nat /\ k \in Nat
        BY <1>3, <2>2, <2>4, <3>1 DEF Pool
      <4>2. k \in Unfated(txs) /\ k # h
        BY <3>2, <4>1 DEF FlowInv, MinesInOrder
      <4> QED BY <3>1, <4>2
    <3>3. MinesInOrder(txs')
      BY <2>1, <3>2 DEF MinesInOrder
    <3>4. OwnSteps(txs', steps)
      BY <1>3, <2>1, <2>2, <2>4 DEF FlowInv, OwnSteps
    <3> QED BY <1>1, <3>3, <3>4 DEF FlowInv
  <2> QED BY <2>3, <2>4
<1> QED BY <1>2, <1>3, EnvironmentSteps

LEMMA RetryWithFlow ==
  ASSUME Types, Shape, SentInv, FlowInv, NEW tail \in Tails, RetryWith(tail)
  PROVE  FlowInv'
<1>1. /\ status = "failed" /\ Flowing
      /\ DOMAIN steps = 1..Len(steps) /\ Len(steps) \in Nat
  BY DEF RetryWith, Flowing, Types
<1>2. /\ at \in 1..Len(steps) /\ Len(tail) \in Nat
      /\ DOMAIN steps' = 1..(at - 1 + Len(tail))
      /\ \A i \in DOMAIN steps' : i < at => steps'[i] = steps[i]
  BY SequenceAssumption, Rebuilding
<1>3. /\ DOMAIN txs' = DOMAIN txs
      /\ \A h \in DOMAIN txs :
           /\ txs'[h].fate = txs[h].fate
           /\ txs'[h].step = IF maybeSent /\ InPool(h) /\ txs[h].step = steps[at]
                             THEN Foreign ELSE txs[h].step
  BY GivingUp
<1>4. MinesInOrder(txs')
  <2>1. Unfated(txs') = Unfated(txs)
    BY SequenceAssumption, GivingUpEffect
  <2> QED BY <1>3, <2>1 DEF FlowInv, MinesInOrder
<1>5. ASSUME NEW h \in DOMAIN txs', txs'[h].step # Foreign,
             txs'[h].fate = "pending"
      PROVE  \E i \in DOMAIN steps' : txs'[h].step = steps'[i]
  <2>1. /\ h \in DOMAIN txs /\ txs[h].fate = "pending" /\ InPool(h)
        /\ txs'[h].step = txs[h].step /\ txs[h].step # Foreign
        /\ maybeSent => txs[h].step # steps[at]
    BY <1>3, <1>5 DEF InPool
  <2>2. PICK i \in DOMAIN steps : txs[h].step = steps[i]
    BY <2>1 DEF FlowInv, OwnSteps
  <2>3. h \in LiveIn(txs, steps[i])
    BY <2>1, <2>2 DEF LiveIn
  <2>4. i < at
    <3>1. ~(i > at)
      BY <1>1, <2>3 DEF SentInv, AheadUnsent
    <3>2. i # at
      BY <1>1, <2>1, <2>2, <2>3 DEF SentInv, CurrentUnsent, Unsent
    <3> QED BY <1>1, <1>2, <3>1, <3>2
  <2>5. i \in DOMAIN steps'
    BY <1>1, <1>2, <2>4
  <2> QED BY <1>2, <2>1, <2>2, <2>4, <2>5
<1> QED BY <1>4, <1>5 DEF FlowInv, OwnSteps

LEMMA StepFlow ==
  Types /\ Shape /\ SentInv /\ FlowInv /\ [Next]_vars => FlowInv'
<1> SUFFICES ASSUME Types, Shape, SentInv, FlowInv, [Next]_vars PROVE FlowInv'
  OBVIOUS
<1>1. ASSUME UNCHANGED <<txs, steps>> PROVE FlowInv'
  BY <1>1 DEF FlowInv
<1>2. CASE Page
  BY <1>1, <1>2 DEF Page, EstimateReverts, CountRead, Prompt, Judge, Fail, run, chain
<1>3. CASE Answer
  <2>1. ASSUME Sends \/ \E k \in BOOLEAN : SendsUnheard(k)
        PROVE  FlowInv'
    <3>1. pc = "wallet" /\ Broadcast /\ UNCHANGED steps
      BY <2>1 DEF Sends, SendsUnheard, run
    <3> QED BY <3>1, SendingFlow, RunningFlows
  <2> QED BY <1>1, <1>3, <2>1 DEF Answer, Rejects, Refuses, Fail, run, chain
<1>4. CASE \E read \in BOOLEAN : StepMined(read) \/ StepFailed(read)
  BY <1>1, <1>4 DEF StepMined, StepFailed, chain
<1>5. CASE SlowWallet \/ ReceiptLate \/ KeepWaiting \/ Retry
  BY <1>1, <1>5 DEF SlowWallet, ReceiptLate, KeepWaiting, Retry, chain
<1>6. CASE Close \/ \E list \in Lists : Run(list)
  BY <1>6, OrphanFlow DEF Close, Run
<1>7. CASE UNCHANGED vars
  BY <1>1, <1>7 DEF vars, run, chain
<1> QED BY <1>2, <1>3, <1>4, <1>5, <1>6, <1>7, RetryWithFlow, EnvironmentFlow
        DEF Next

-----------------------------------------------------------------------------
(* The inductive invariant.                                                *)
SequenceInv == Types /\ Shape /\ SentInv /\ OrderInv /\ NotedInv /\ FlowInv

LEMMA SequenceInvAlways == Spec => []SequenceInv
<1>1. Init => SequenceInv
  BY InitShape, InitSent, InitFlow DEF SequenceInv
<1>2. SequenceInv /\ [Next]_vars => SequenceInv'
  BY StepShape, StepSent, StepOrder, StepNoted, StepFlow DEF SequenceInv
<1> QED BY <1>1, <1>2, PTL DEF Spec

(* Every variable keeps its type; the positions of the loop stay within    *)
(* the list, and a hash that is awaited is one of the current step.        *)
THEOREM SequenceTypeCorrect == Spec => []TypeOK
<1>1. SequenceInv => TypeOK
  BY TypesAgree DEF SequenceInv
<1> QED BY <1>1, SequenceInvAlways, PTL

LEMMA SetsAgree ==
  \A s : Ran(s) = RanIn(txs, s) /\ Ran(s) \cup MayRun(s) = LiveIn(txs, s)
BY DEF Ran, MayRun, RanIn, LiveIn

(* However prompts, refusals, late receipts and retries interleave, for    *)
(* each step at most one transaction ran or can still run.                 *)
THEOREM NeverSentTwice == Spec => []NoStepSentTwice
<1>1. ASSUME SequenceInv, NEW s \in Steps PROVE Cardinality(LiveIn(txs, s)) <= 1
  <2>1. CASE LiveIn(txs, s) = {}
    <3>1. Cardinality({}) = 0
      BY FS_EmptySet
    <3> QED BY <2>1, <3>1
  <2>2. ASSUME NEW h \in LiveIn(txs, s) PROVE Cardinality(LiveIn(txs, s)) <= 1
    <3>1. LiveIn(txs, s) = {h}
      BY <1>1, <2>2 DEF SequenceInv, SentInv, Lone
    <3>2. Cardinality({h}) = 1
      BY FS_Singleton
    <3> QED BY <3>1, <3>2
  <2> QED BY <2>1, <2>2
<1>2. SequenceInv => NoStepSentTwice
  BY <1>1, SetsAgree DEF NoStepSentTwice
<1> QED BY <1>2, SequenceInvAlways, PTL

(* A step that is offered to be tried again neither ran nor can run.       *)
THEOREM OfferedAgainDidNotRun == Spec => []FailedStepDidNotRun
<1>1. ASSUME SequenceInv, status = "failed", ~maybeSent
      PROVE  Ran(steps[at]) = {} /\ MayRun(steps[at]) = {}
  <2>1. LiveIn(txs, steps[at]) = {}
    BY <1>1 DEF SequenceInv, SentInv, CurrentUnsent, Unsent
  <2> QED BY <2>1, SetsAgree
<1>2. SequenceInv => FailedStepDidNotRun
  BY <1>1 DEF FailedStepDidNotRun
<1> QED BY <1>2, SequenceInvAlways, PTL

(* Nothing is sent before the steps ahead of it ran, and what is shown as  *)
(* done ran.                                                               *)
THEOREM StepsAlwaysInOrder == Spec => []StepsRunInOrder
<1>1. ASSUME SequenceInv, NEW i \in DOMAIN steps
      PROVE  /\ phase[i] = "done" => RanIn(txs, steps[i]) # {}
             /\ LiveIn(txs, steps[i]) # {} =>
                  \A j \in 1..(i - 1) : RanIn(txs, steps[j]) # {}
  <2>0. /\ DOMAIN steps = 1..Len(steps) /\ Len(steps) \in Nat /\ at \in Nat
        /\ \A j \in 1..(i - 1) : j \in DOMAIN steps
    BY <1>1 DEF SequenceInv, Types
  <2>1. status = "done" \/ Flowing
    BY <1>1, <2>0 DEF SequenceInv, Shape, Types, Flowing
  <2>2. CASE status = "done"
    BY <1>1, <2>0, <2>2 DEF SequenceInv, OrderInv
  <2>3. CASE Flowing
    BY <1>1, <2>0, <2>3 DEF SequenceInv, OrderInv, SentInv, AheadUnsent
  <2> QED BY <2>1, <2>2, <2>3
<1>2. SequenceInv => StepsRunInOrder
  BY <1>1, SetsAgree DEF StepsRunInOrder
<1> QED BY <1>2, SequenceInvAlways, PTL

(* A prompt that waited for the wallet is signed with the account's next   *)
(* nonce, as long as the tab noted what the account mined.                 *)
THEOREM SyncedWalletSignsNext == Spec => []SyncedWalletIsCurrent
<1>1. SequenceInv => SyncedWalletIsCurrent
  BY DEF SequenceInv, NotedInv, SyncedWalletIsCurrent
<1> QED BY <1>1, SequenceInvAlways, PTL

-----------------------------------------------------------------------------
(* Parts of lists.                                                         *)

(* Every kept position has a rank of its own, and every rank a position.   *)
LEMMA RankedOnce ==
  ASSUME NEW keep \in SUBSET Nat, IsFiniteSet(keep)
  PROVE  \A k \in 1..Cardinality(keep) : Place(keep, k) \in Ranked(keep, k)
<1> DEFINE upTo(i) == {j \in keep : j <= i}
           n == Cardinality(keep)
           rank == [i \in keep |-> Cardinality(upTo(i))]
<1>1. n \in Nat /\ IsFiniteSet(1..n) /\ Cardinality(1..n) = n
  BY FS_CardinalityType, FS_Interval
<1>2. ASSUME NEW i \in keep
      PROVE  /\ IsFiniteSet(upTo(i)) /\ Cardinality(upTo(i)) \in 1..n
  <2>1. upTo(i) \in SUBSET keep
    OBVIOUS
  <2>2. IsFiniteSet(upTo(i)) /\ Cardinality(upTo(i)) <= n
    BY <2>1, FS_Subset
  <2>3. Cardinality(upTo(i)) \in Nat
    BY <2>2, FS_CardinalityType
  <2>4. i \in upTo(i)
    OBVIOUS
  <2>5. Cardinality(upTo(i)) # 0
    BY <2>2, <2>4, FS_EmptySet
  <2> QED BY <1>1, <2>2, <2>3, <2>5
<1>3. ASSUME NEW i \in keep, NEW l \in keep, i < l
      PROVE  Cardinality(upTo(i)) # Cardinality(upTo(l))
  <2>0. keep \subseteq Nat
    OBVIOUS
  <2>1. upTo(i) \in SUBSET upTo(l) /\ l \in upTo(l) /\ l \notin upTo(i)
    <3>1. \A j \in Nat : j <= i => j <= l
      BY <1>3, <2>0
    <3>2. l <= l /\ ~(l <= i)
      BY <1>3, <2>0
    <3> QED BY <2>0, <3>1, <3>2
  <2>2. Cardinality(upTo(l)) = Cardinality(upTo(i)) => upTo(l) = upTo(i)
    BY <1>2, <2>1, FS_Subset
  <2> QED BY <2>1, <2>2
<1> HIDE DEF upTo
<1>4. rank \in [keep -> 1..n]
  BY <1>2
<1>5. \A i, l \in keep : rank[i] = rank[l] => i = l
  <2>1. \A i, l \in keep : i < l \/ l < i \/ i = l
    OBVIOUS
  <2> QED BY <1>3, <2>1
<1>6. rank \in Injection(keep, 1..n)
  BY <1>4, <1>5 DEF Injection, IsInjective
<1>7. rank \in Surjection(keep, 1..n)
  BY <1>1, <1>6, FS_Injection
<1>8. ASSUME NEW k \in 1..n PROVE Ranked(keep, k) # {}
  <2>1. PICK i \in keep : rank[i] = k
    BY <1>7 DEF Surjection
  <2>2. i \in Ranked(keep, k)
    BY <2>1 DEF Ranked, upTo
  <2> QED BY <2>2
<1> QED BY <1>8 DEF Place

LEMMA PlaceKept ==
  ASSUME NEW keep \in SUBSET Nat, IsFiniteSet(keep)
  PROVE  /\ Cardinality(keep) \in Nat
         /\ \A k \in 1..Cardinality(keep) : Place(keep, k) \in keep
BY RankedOnce, FS_CardinalityType DEF Ranked

(* A position above all others comes last.                                 *)
LEMMA KeepingOneMore ==
  ASSUME NEW keep \in SUBSET Nat, IsFiniteSet(keep), NEW h \in Nat,
         \A i \in keep : i < h
  PROVE  /\ Cardinality(keep \cup {h}) = Cardinality(keep) + 1
         /\ \A k \in 1..Cardinality(keep) :
              Place(keep \cup {h}, k) = Place(keep, k)
         /\ Place(keep \cup {h}, Cardinality(keep) + 1) = h
<1> DEFINE more == keep \cup {h}
           n == Cardinality(keep)
<1>1. n \in Nat /\ h \notin keep
  BY FS_CardinalityType
<1>2. IsFiniteSet(more) /\ Cardinality(more) = n + 1
  BY <1>1, FS_AddElement
<1>3. ASSUME NEW i \in keep
      PROVE  /\ {j \in more : j <= i} = {j \in keep : j <= i}
             /\ Cardinality({j \in keep : j <= i}) <= n
  <2>1. {j \in more : j <= i} = {j \in keep : j <= i}
    OBVIOUS
  <2>2. {j \in keep : j <= i} \in SUBSET keep
    OBVIOUS
  <2> QED BY <2>1, <2>2, FS_Subset
<1>4. {j \in more : j <= h} = more
  <2>1. \A j \in more : j <= h
    OBVIOUS
  <2> QED BY <2>1
<1> HIDE DEF n
<1>5. ASSUME NEW k \in 1..n PROVE Ranked(more, k) = Ranked(keep, k)
  <2>1. Cardinality({j \in more : j <= h}) # k
    BY <1>1, <1>2, <1>4
  <2>2. ASSUME NEW i \in more, Cardinality({j \in more : j <= i}) = k
        PROVE  i \in keep
    BY <2>1, <2>2
  <2>3. \A i \in keep : Cardinality({j \in more : j <= i})
                          = Cardinality({j \in keep : j <= i})
    BY <1>3
  <2> HIDE DEF more
  <2>4. keep \subseteq more
    BY DEF more
  <2> QED BY <2>2, <2>3, <2>4 DEF Ranked
<1>6. Ranked(more, n + 1) = {h}
  <2>1. ASSUME NEW i \in keep PROVE Cardinality({j \in more : j <= i}) # n + 1
    <3>1. {j \in keep : j <= i} \in SUBSET keep
      OBVIOUS
    <3>2. Cardinality({j \in keep : j <= i}) \in Nat
      BY <3>1, FS_Subset, FS_CardinalityType
    <3> QED BY <1>1, <1>3, <3>2 DEF n
  <2>2. Cardinality({j \in more : j <= h}) = n + 1
    BY <1>2, <1>4
  <2> QED BY <2>1, <2>2 DEF Ranked
<1>7. Place(more, n + 1) = h
  BY <1>6 DEF Place
<1> QED BY <1>2, <1>5, <1>7 DEF Place, n

(* Positions given in their order are kept in it.                          *)
LEMMA KeepingAlong ==
  ASSUME NEW n \in Nat, NEW f \in [1..n -> Nat],
         \A k, l \in 1..n : k < l => f[k] < f[l],
         NEW keep, keep = {f[k] : k \in 1..n}
  PROVE  /\ Cardinality(keep) = n
         /\ \A k \in 1..n : Place(keep, k) = f[k]
<1> DEFINE first(k) == {f[m] : m \in 1..k}
<1>0. ASSUME NEW k \in 1..n, NEW l \in 1..n
      PROVE  /\ f[k] \in Nat /\ f[l] \in Nat
             /\ f[k] <= f[l] <=> k <= l
  <2>1. f[k] \in Nat /\ f[l] \in Nat /\ k \in Nat /\ l \in Nat
    OBVIOUS
  <2>2. k < l \/ l < k \/ k = l
    BY <2>1
  <2> QED BY <2>1, <2>2
<1>1. ASSUME NEW k \in 0..n PROVE Cardinality(first(k)) = k
  <2> DEFINE g == [m \in 1..k |-> f[m]]
  <2>0. \A m \in 1..k : m \in 1..n
    OBVIOUS
  <2>1. g \in [1..k -> first(k)] /\ \A m \in 1..k : g[m] = f[m]
    BY <2>0
  <2>2. \A m, l \in 1..k : g[m] = g[l] => m = l
    <3> SUFFICES ASSUME NEW m \in 1..k, NEW l \in 1..k, f[m] = f[l] PROVE m = l
      OBVIOUS
    <3>1. m <= l /\ l <= m
      BY <1>0, <2>0
    <3> QED BY <3>1
  <2>3. \A x \in first(k) : \E m \in 1..k : g[m] = x
    OBVIOUS
  <2> HIDE DEF g, first
  <2>4. g \in Bijection(1..k, first(k))
    BY <2>1, <2>2, <2>3 DEF Bijection, Injection, Surjection, IsInjective
  <2>5. k \in Nat
    OBVIOUS
  <2> QED BY <2>4, <2>5, FS_CountingElements DEF ExistsBijection
<1>2. keep = first(n)
  OBVIOUS
<1>3. ASSUME NEW k \in 1..n PROVE {j \in keep : j <= f[k]} = first(k)
  <2>1. ASSUME NEW m \in 1..n PROVE f[m] <= f[k] <=> m \in 1..k
    BY <1>0
  <2>2. 1..k \subseteq 1..n
    OBVIOUS
  <2> QED BY <2>1, <2>2
<1> HIDE DEF first
<1>4. ASSUME NEW k \in 1..n PROVE Ranked(keep, k) = {f[k]}
  <2>1. ASSUME NEW m \in 1..n
        PROVE  Cardinality({j \in keep : j <= f[m]}) = m
    <3>1. m \in 0..n
      OBVIOUS
    <3> QED BY <1>1, <1>3, <3>1
  <2>2. f[k] \in Ranked(keep, k)
    BY <2>1 DEF Ranked
  <2>3. ASSUME NEW x \in Ranked(keep, k) PROVE x = f[k]
    <3>1. PICK m \in 1..n : x = f[m]
      BY DEF Ranked
    <3>2. m = k
      BY <2>1, <3>1 DEF Ranked
    <3> QED BY <3>1, <3>2
  <2> QED BY <2>2, <2>3
<1>5. \A k \in 1..n : Place(keep, k) = f[k]
  BY <1>4 DEF Place
<1>6. Cardinality(keep) = n
  <2>1. n \in 0..n
    OBVIOUS
  <2> QED BY <1>1, <1>2, <2>1
<1> QED BY <1>5, <1>6

-----------------------------------------------------------------------------
(* The flow implements OrderedSteps.                                       *)

(* What ran, from the transactions; what is left, from the step on that    *)
(* has not run.                                                            *)
StepsOf(t) == [k \in 1..Cardinality(OwnRan(t)) |-> t[Place(OwnRan(t), k)].step]

From(list, a) == [k \in 1..(Len(list) - a + 1) |-> list[a - 1 + k]]

LEMMA RanFacts ==
  ASSUME Types
  PROVE  /\ OwnRan(txs) \in SUBSET Nat /\ IsFiniteSet(OwnRan(txs))
         /\ OwnRan(txs) \subseteq DOMAIN txs
         /\ RanSteps = StepsOf(txs)
<1>1. DOMAIN txs = 1..Len(txs) /\ Len(txs) \in Nat
  BY DEF Types
<1>2. OwnRan(txs) \subseteq 1..Len(txs)
  BY <1>1 DEF OwnRan
<1>3. OwnRan(txs) \in SUBSET Nat /\ IsFiniteSet(OwnRan(txs))
  <2>1. IsFiniteSet(1..Len(txs)) /\ 1..Len(txs) \subseteq Nat
    BY <1>1, FS_Interval
  <2> QED BY <1>2, <2>1, FS_Subset
<1>4. Cardinality(OwnRan(txs)) \in Nat
  BY <1>3, FS_CardinalityType
<1>5. RanSteps = StepsOf(txs)
  BY DEF RanSteps, StepsOf, Keeping, OwnRan
<1> QED BY <1>1, <1>2, <1>3, <1>5

LEMMA NextRan ==
  ASSUME Types'
  PROVE  RanSteps' = StepsOf(txs')
BY DEF RanSteps, StepsOf, Keeping, OwnRan

LEMMA LeftFrom ==
  ASSUME NEW list \in Seq(Steps), NEW a \in 1..(Len(list) + 1)
  PROVE  Keeping(list, a..Len(list)) = From(list, a)
<1> DEFINE n == Len(list) - a + 1
           f == [k \in 1..n |-> a - 1 + k]
<1>1. n \in Nat /\ Len(list) \in Nat /\ a \in Nat
  OBVIOUS
<1>2. f \in [1..n -> Nat] /\ \A k, l \in 1..n : k < l => f[k] < f[l]
  BY <1>1
<1>3. a..Len(list) = {f[k] : k \in 1..n}
  <2>1. ASSUME NEW i \in a..Len(list) PROVE \E k \in 1..n : f[k] = i
    <3>1. i - a + 1 \in 1..n /\ a - 1 + (i - a + 1) = i
      BY <1>1
    <3> QED BY <3>1
  <2>2. ASSUME NEW k \in 1..n PROVE f[k] \in a..Len(list)
    BY <1>1
  <2> QED BY <2>1, <2>2
<1> HIDE DEF n, f
<1>4. /\ Cardinality(a..Len(list)) = n
      /\ \A k \in 1..n : Place(a..Len(list), k) = f[k]
  BY <1>1, <1>2, <1>3, KeepingAlong
<1>5. \A k \in 1..n : f[k] = a - 1 + k
  BY DEF f
<1>6. Keeping(list, a..Len(list)) = [k \in 1..n |-> list[a - 1 + k]]
  BY <1>4, <1>5 DEF Keeping
<1> QED BY <1>6 DEF From, n

(* Where the flow stands.                                                  *)
Reached(t) ==
  IF status = "idle" THEN 1
  ELSE IF status = "done" THEN Len(steps) + 1
  ELSE IF RanIn(t, steps[at]) = {} THEN at ELSE at + 1

LEMMA TodoIs ==
  ASSUME Types, Shape, SentInv, OrderInv
  PROVE  /\ Reached(txs) \in 1..(Len(steps) + 1)
         /\ StepsLeft = From(steps, Reached(txs))
<1>1. DOMAIN steps = 1..Len(steps) /\ Len(steps) \in Nat /\ steps \in Seq(Steps)
  BY DEF Types
<1>2. status \in {"idle", "done"} \/ Flowing
  BY DEF Types, Flowing
<1>3. status = "idle" => Len(steps) = 0
  BY DEF Shape
<1>4. Flowing => at \in 1..Len(steps) /\ status \notin {"idle", "done"}
  BY StepAt DEF Flowing
<1>5. Reached(txs) \in 1..(Len(steps) + 1)
  BY <1>1, <1>2, <1>3, <1>4 DEF Reached
<1>6. {i \in DOMAIN steps : RanIn(txs, steps[i]) = {}} = Reached(txs)..Len(steps)
  <2>1. CASE status = "idle"
    BY <1>1, <1>3, <2>1 DEF Reached
  <2>2. CASE status = "done"
    BY <1>1, <2>2 DEF Reached, OrderInv
  <2>3. CASE Flowing
    <3>1. \A i \in DOMAIN steps : i < at => RanIn(txs, steps[i]) # {}
      BY <2>3 DEF OrderInv
    <3>2. \A i \in DOMAIN steps : i > at => RanIn(txs, steps[i]) = {}
      BY <2>3 DEF SentInv, AheadUnsent, RanIn, LiveIn
    <3>3. Reached(txs) = IF RanIn(txs, steps[at]) = {} THEN at ELSE at + 1
      BY <1>4, <2>3 DEF Reached
    <3> QED BY <1>1, <1>4, <2>3, <3>1, <3>2, <3>3
  <2> QED BY <1>2, <2>1, <2>2, <2>3
<1>7. StepsLeft = Keeping(steps, Reached(txs)..Len(steps))
  BY <1>6, SetsAgree DEF StepsLeft
<1> QED BY <1>1, <1>5, <1>7, LeftFrom

LEMMA TodoAlways ==
  Types /\ Shape /\ SentInv /\ OrderInv =>
    /\ Reached(txs) \in 1..(Len(steps) + 1)
    /\ StepsLeft = From(steps, Reached(txs))
BY TodoIs

LEMMA NextTodo ==
  (Types /\ Shape /\ SentInv /\ OrderInv)' =>
    (/\ Reached(txs) \in 1..(Len(steps) + 1)
     /\ StepsLeft = From(steps, Reached(txs)))'
BY TodoAlways, PTL

LEMMA FromSeq ==
  ASSUME NEW list \in Seq(Steps), NEW a \in 1..(Len(list) + 1)
  PROVE  /\ From(list, a) \in Seq(Steps)
         /\ Len(From(list, a)) = Len(list) - a + 1
         /\ \A k \in 1..(Len(list) - a + 1) : From(list, a)[k] = list[a - 1 + k]
<1> DEFINE n == Len(list) - a + 1
<1>1. n \in Nat /\ Len(list) \in Nat /\ a \in Nat
  OBVIOUS
<1>2. \A k \in 1..n : a - 1 + k \in 1..Len(list)
  BY <1>1
<1>3. \A k \in 1..n : list[a - 1 + k] \in Steps
  BY <1>2
<1>4. From(list, a) = [k \in 1..n |-> list[a - 1 + k]]
  BY DEF From
<1> HIDE DEF n
<1>5. /\ From(list, a) \in Seq(Steps) /\ Len(From(list, a)) = n
      /\ \A k \in 1..n : From(list, a)[k] = list[a - 1 + k]
  BY <1>1, <1>3, <1>4
<1> QED BY <1>5 DEF n

LEMMA FromEnds ==
  ASSUME NEW list \in Seq(Steps)
  PROVE  From(list, Len(list) + 1) = <<>> /\ From(list, 1) = list
<1> DEFINE none == From(list, Len(list) + 1)
           all == From(list, 1)
<1>1. Len(list) \in Nat
  OBVIOUS
<1>2. none \in Seq(Steps) /\ Len(none) = 0
  <2>1. Len(list) + 1 \in 1..(Len(list) + 1) /\ Len(list) - (Len(list) + 1) + 1 = 0
    BY <1>1
  <2> QED BY <2>1, FromSeq
<1>3. /\ all \in Seq(Steps) /\ Len(all) = Len(list)
      /\ \A k \in 1..Len(list) : all[k] = list[k]
  <2>1. 1 \in 1..(Len(list) + 1) /\ Len(list) - 1 + 1 = Len(list)
        /\ \A k \in 1..Len(list) : 1 - 1 + k = k
    BY <1>1
  <2>2. /\ all \in Seq(Steps) /\ Len(all) = Len(list) - 1 + 1
        /\ \A k \in 1..(Len(list) - 1 + 1) : all[k] = list[1 - 1 + k]
    BY <2>1, FromSeq
  <2> HIDE DEF all
  <2> QED BY <2>1, <2>2
<1> HIDE DEF none, all
<1>4. none = <<>>
  BY <1>2
<1>5. all = list
  BY <1>3
<1> QED BY <1>4, <1>5 DEF none, all

LEMMA FromTail ==
  ASSUME NEW list \in Seq(Steps), NEW a \in 1..Len(list)
  PROVE  /\ From(list, a) # <<>>
         /\ Head(From(list, a)) = list[a]
         /\ Tail(From(list, a)) = From(list, a + 1)
<1> DEFINE n == Len(list) - a + 1
           s == From(list, a)
           t == From(list, a + 1)
<1>1. /\ n \in Nat \ {0} /\ Len(list) \in Nat /\ a \in Nat
      /\ a \in 1..(Len(list) + 1) /\ a + 1 \in 1..(Len(list) + 1)
      /\ Len(list) - (a + 1) + 1 = n - 1
  OBVIOUS
<1>2. /\ s \in Seq(Steps) /\ Len(s) = n
      /\ \A k \in 1..n : s[k] = list[a - 1 + k]
  BY <1>1, FromSeq
<1>3. /\ t \in Seq(Steps) /\ Len(t) = n - 1
      /\ \A k \in 1..(n - 1) : t[k] = list[a + k]
  <2>1. /\ t \in Seq(Steps) /\ Len(t) = Len(list) - (a + 1) + 1
        /\ \A k \in 1..(Len(list) - (a + 1) + 1) : t[k] = list[a + 1 - 1 + k]
    BY <1>1, FromSeq
  <2> HIDE DEF t, n
  <2>2. \A k \in 1..(n - 1) : a + 1 - 1 + k = a + k
    BY <1>1
  <2> QED BY <1>1, <2>1, <2>2
<1> HIDE DEF s, t, n
<1>4. s # <<>> /\ Head(s) = s[1] /\ Tail(s) \in Seq(Steps) /\ Len(Tail(s)) = n - 1
      /\ \A k \in 1..(n - 1) : Tail(s)[k] = s[k + 1]
  BY <1>1, <1>2
<1>5. s[1] = list[a]
  <2>1. 1 \in 1..n /\ a - 1 + 1 = a
    BY <1>1
  <2> QED BY <1>2, <2>1
<1>6. \A k \in 1..(n - 1) : s[k + 1] = t[k]
  <2> TAKE k \in 1..(n - 1)
  <2>1. k + 1 \in 1..n /\ a - 1 + (k + 1) = a + k
    BY <1>1
  <2> QED BY <1>2, <1>3, <2>1
<1>7. Tail(s) = t
  <2> DEFINE u == Tail(s)
             m == n - 1
  <2>1. m \in Nat
    BY <1>1
  <2>2. u \in Seq(Steps) /\ Len(u) = m /\ \A k \in 1..m : u[k] = t[k]
    BY <1>4, <1>6
  <2>3. t \in Seq(Steps) /\ Len(t) = m
    BY <1>3
  <2> HIDE DEF u, m
  <2>4. u = t
    BY <2>1, <2>2, <2>3
  <2> QED BY <2>4 DEF u
<1> QED BY <1>4, <1>5, <1>7 DEF s, t

(* The transactions that ran own steps, when nothing more of them ran.     *)
LEMMA RanKept ==
  ASSUME Types, Types', OwnRan(txs') = OwnRan(txs),
         \A h \in OwnRan(txs) : txs'[h].step = txs[h].step
  PROVE  RanSteps' = RanSteps
<1>1. \A k \in 1..Cardinality(OwnRan(txs)) :
        Place(OwnRan(txs), k) \in OwnRan(txs)
  BY RanFacts, PlaceKept
<1> QED BY <1>1, RanFacts, NextRan DEF StepsOf

LEMMA NoneRan ==
  ASSUME Types', \A h \in DOMAIN txs' : txs'[h].step = Foreign
  PROVE  RanSteps' = <<>>
<1>1. OwnRan(txs') = {}
  BY DEF OwnRan
<1>2. Cardinality(OwnRan(txs')) = 0
  BY <1>1, FS_EmptySet
<1>3. StepsOf(txs') = <<>>
  BY <1>2 DEF StepsOf
<1> QED BY <1>3, NextRan

LEMMA RanGrows ==
  ASSUME Types, Types', FlowInv, NEW h \in Pool,
         txs[h].step # Foreign,
         txs' = [txs EXCEPT ![h].fate = "success"]
  PROVE  RanSteps' = Append(RanSteps, txs[h].step)
<1> DEFINE own == OwnRan(txs)
           n == Cardinality(own)
           e == txs[h].step
<1>1. /\ DOMAIN txs' = DOMAIN txs /\ txs'[h].fate = "success"
      /\ \A k \in DOMAIN txs : /\ txs'[k].step = txs[k].step
                               /\ k # h => txs'[k].fate = txs[k].fate
  <2>1. "success" \in Fates
    BY DEF Fates
  <2> QED BY <2>1, Fating
<1>2. h \in DOMAIN txs /\ h \in Unfated(txs) /\ DOMAIN txs \subseteq Nat
  <2>1. \A k \in DOMAIN txs : k \in Nat
    BY TxFields
  <2> QED BY <2>1 DEF Pool, InPool, Unfated
<1>3. OwnRan(txs') = own \cup {h}
  BY <1>1, <1>2 DEF OwnRan
<1>4. ASSUME NEW g \in own PROVE g < h
  <2>1. g \in DOMAIN txs /\ g \notin Unfated(txs)
    BY DEF OwnRan, Unfated
  <2>2. ~(h < g) /\ g # h
    BY <1>2, <2>1 DEF FlowInv, MinesInOrder
  <2>3. g \in Nat /\ h \in Nat
    BY <1>2, <2>1
  <2> QED BY <2>2, <2>3
<1>5. own \in SUBSET Nat /\ IsFiniteSet(own) /\ own \subseteq DOMAIN txs
      /\ RanSteps = StepsOf(txs)
  BY RanFacts
<1> HIDE DEF own
<1>6. n \in Nat /\ \A k \in 1..n : Place(own, k) \in own
  BY <1>5, PlaceKept
<1>7. /\ Cardinality(own \cup {h}) = n + 1
      /\ \A k \in 1..n : Place(own \cup {h}, k) = Place(own, k)
      /\ Place(own \cup {h}, n + 1) = h
  <2>1. h \in Nat
    BY <1>2
  <2> QED BY <1>4, <1>5, <2>1, KeepingOneMore
<1> HIDE DEF n
<1>8. RanSteps' = [k \in 1..(n + 1) |-> txs'[Place(own \cup {h}, k)].step]
  BY <1>3, <1>7, NextRan DEF StepsOf
<1>9. RanSteps = [k \in 1..n |-> txs[Place(own, k)].step]
  BY <1>5 DEF StepsOf, n, own
<1>10. ASSUME NEW k \in 1..n
       PROVE  txs'[Place(own \cup {h}, k)].step = txs[Place(own, k)].step
  BY <1>1, <1>5, <1>6, <1>7
<1>11. txs'[Place(own \cup {h}, n + 1)].step = e
  BY <1>1, <1>2, <1>7
<1> HIDE DEF e
<1>12. RanSteps \in Seq(Steps \cup {Foreign}) /\ Len(RanSteps) = n
  <2>1. \A k \in 1..n : txs[Place(own, k)].step \in Steps \cup {Foreign}
    BY <1>5, <1>6, TxFields
  <2> QED BY <1>6, <1>9, <2>1
<1>13. \A k \in 1..(n + 1) :
         txs'[Place(own \cup {h}, k)].step
           = IF k = n + 1 THEN e ELSE RanSteps[k]
  <2> TAKE k \in 1..(n + 1)
  <2>1. CASE k = n + 1
    BY <1>11, <2>1
  <2>2. CASE k # n + 1
    <3>1. k \in 1..n
      BY <1>6, <2>2
    <3> QED BY <1>9, <1>10, <2>2, <3>1
  <2> QED BY <2>1, <2>2
<1>14. RanSteps' = Append(RanSteps, e)
  <2> DEFINE S == Steps \cup {Foreign}
             r == RanSteps
             more == RanSteps'
             grown == Append(r, e)
  <2>1. r \in Seq(S) /\ Len(r) = n /\ e \in S
    BY <1>2, <1>12, TxFields DEF e
  <2>2. more = [k \in 1..(n + 1) |-> IF k = n + 1 THEN e ELSE r[k]]
    BY <1>8, <1>13
  <2> HIDE DEF S, r, more
  <2>3. /\ grown \in Seq(S) /\ Len(grown) = n + 1
        /\ \A k \in 1..(n + 1) : grown[k] = IF k = n + 1 THEN e ELSE r[k]
    BY <1>6, <2>1
  <2>4. \A k \in 1..n : r[k] \in S
    BY <2>1
  <2>5. /\ more \in Seq(S) /\ Len(more) = n + 1
        /\ \A k \in 1..(n + 1) : more[k] = IF k = n + 1 THEN e ELSE r[k]
    <3>1. \A k \in 1..(n + 1) : (IF k = n + 1 THEN e ELSE r[k]) \in S
      <4> TAKE k \in 1..(n + 1)
      <4>1. k = n + 1 \/ k \in 1..n
        BY <1>6
      <4> QED BY <2>1, <2>4, <4>1
    <3> QED BY <1>6, <2>2, <3>1
  <2> HIDE DEF grown
  <2>6. more = grown
    BY <1>6, <2>3, <2>5
  <2> QED BY <2>6 DEF more, grown, r
<1> QED BY <1>14 DEF e

(* A step that leaves what ran and what is left, and does not complete.    *)
LEMMA FlowStutters ==
  ASSUME UNCHANGED <<txs, steps>>, status' = "done" <=> status = "done"
  PROVE  UNCHANGED Flow!flow
BY DEF Flow!flow, RanSteps, StepsLeft, Ran

(* A step that sends, or that mines what does not run a step.              *)
LEMMA FlowWaits ==
  ASSUME SequenceInv, SequenceInv', UNCHANGED <<steps, at>>,
         status' = status \/ (Flowing /\ Flowing'),
         OwnRan(txs') = OwnRan(txs),
         \A h \in OwnRan(txs) : txs'[h].step = txs[h].step,
         \A s \in Steps : RanIn(txs', s) = RanIn(txs, s)
  PROVE  UNCHANGED Flow!flow
<1>1. RanSteps' = RanSteps
  BY RanKept DEF SequenceInv
<1>2. \A i \in DOMAIN steps : steps[i] \in Steps
  BY DEF SequenceInv, Types
<1>3. {i \in DOMAIN steps : RanIn(txs', steps[i]) = {}}
        = {i \in DOMAIN steps : RanIn(txs, steps[i]) = {}}
  BY <1>2
<1>4. /\ StepsLeft = Keeping(steps, {i \in DOMAIN steps : RanIn(txs, steps[i]) = {}})
      /\ StepsLeft' = Keeping(steps', {i \in DOMAIN steps' : RanIn(txs', steps'[i]) = {}})
  BY DEF StepsLeft, Ran, RanIn
<1>5. StepsLeft' = StepsLeft
  BY <1>3, <1>4
<1>6. (status' = "done") = (status = "done")
  BY DEF Flowing
<1> QED BY <1>1, <1>5, <1>6 DEF Flow!flow

LEMMA FlowExecutes ==
  ASSUME SequenceAssumption, SequenceInv, SequenceInv', UNCHANGED <<run, loop>>,
         NEW h \in Pool, txs[h].fate = "pending", txs[h].step # Foreign,
         txs' = [txs EXCEPT ![h].fate = "success"]
  PROVE  Flow!Execute
<1>1. /\ Types /\ Shape /\ SentInv /\ OrderInv /\ FlowInv
      /\ Types' /\ Shape' /\ SentInv' /\ OrderInv'
      /\ UNCHANGED <<steps, status, at>>
  BY DEF SequenceInv, run, loop
<1>2. h \in DOMAIN txs /\ steps \in Seq(Steps) /\ DOMAIN steps = 1..Len(steps)
      /\ Len(steps) \in Nat
  BY <1>1 DEF Pool, Types
<1>3. PICK i \in DOMAIN steps : txs[h].step = steps[i]
  BY <1>1, <1>2 DEF FlowInv, OwnSteps
<1>4. steps[i] \in Steps /\ h \in LiveIn(txs, steps[i])
  BY <1>2, <1>3 DEF LiveIn
<1>5. RanIn(txs, steps[i]) = {}
  <2>1. ASSUME NEW g \in RanIn(txs, steps[i]) PROVE FALSE
    <3>1. g \in LiveIn(txs, steps[i]) /\ txs[g].fate = "success"
      BY DEF RanIn, LiveIn
    <3>2. g = h
      BY <1>1, <1>4, <3>1 DEF SentInv, Lone
    <3> QED BY <3>1, <3>2
  <2> QED BY <2>1
<1>6. Flowing
  <2>1. status # "idle"
    BY <1>1, <1>2 DEF Shape
  <2>2. status # "done"
    BY <1>1, <1>5 DEF OrderInv
  <2> QED BY <1>1, <2>1, <2>2 DEF Types, Flowing
<1>7. i = at /\ at \in 1..Len(steps)
  <2>1. at \in 1..Len(steps)
    BY <1>1, <1>6, StepAt
  <2>2. ~(i < at)
    BY <1>1, <1>5, <1>6 DEF OrderInv
  <2>3. ~(i > at)
    BY <1>1, <1>4, <1>6 DEF SentInv, AheadUnsent
  <2> QED BY <1>2, <2>1, <2>2, <2>3
<1>8. Reached(txs) = at
  BY <1>5, <1>6, <1>7 DEF Reached, Flowing
<1>9. Reached(txs)' = at + 1
  <2>1. DOMAIN txs' = DOMAIN txs /\ txs'[h].fate = "success"
        /\ txs'[h].step = txs[h].step
    <3>1. "success" \in Fates
      BY DEF Fates
    <3> QED BY <1>1, <1>2, <3>1, Fating
  <2>2. h \in RanIn(txs', steps[at])
    BY <1>2, <1>3, <1>7, <2>1 DEF RanIn
  <2> QED BY <1>1, <1>6, <2>2 DEF Reached, Flowing
<1>10. StepsLeft = From(steps, at) /\ StepsLeft' = From(steps, at + 1)
  <2>1. StepsLeft = From(steps, at)
    BY <1>1, <1>8, TodoIs
  <2>2. StepsLeft' = From(steps', Reached(txs)')
    BY <1>1, NextTodo
  <2> QED BY <1>1, <1>9, <2>1, <2>2
<1>11. /\ StepsLeft # <<>> /\ Head(StepsLeft) = steps[at]
       /\ StepsLeft' = Tail(StepsLeft)
  BY <1>2, <1>7, <1>10, FromTail
<1>12. RanSteps' = Append(RanSteps, Head(StepsLeft))
  BY <1>1, <1>3, <1>7, <1>11, RanGrows
<1>13. status # "done" /\ (status' = "done") = (status = "done")
  BY <1>1, <1>6 DEF Flowing
<1> QED BY <1>11, <1>12, <1>13 DEF Flow!Execute

LEMMA EnvironmentMaps ==
  ASSUME SequenceAssumption, SequenceInv, SequenceInv', Environment
  PROVE  Flow!Execute \/ UNCHANGED Flow!flow
<1>1. Types /\ UNCHANGED <<run, loop>> /\ UNCHANGED <<steps, at, status>>
  BY EnvironmentSteps DEF SequenceInv, run, loop
<1>2. CASE UNCHANGED txs
  BY <1>1, <1>2, FlowStutters
<1>3. ASSUME NEW h \in Pool, NEW f \in Fates,
             txs' = [txs EXCEPT ![h].fate = f],
             f = "success" => txs[h].fate = "pending"
      PROVE  Flow!Execute \/ UNCHANGED Flow!flow
  <2>1. CASE f = "success" /\ txs[h].step # Foreign
    BY <1>1, <1>3, <2>1, FlowExecutes
  <2>2. CASE ~(f = "success" /\ txs[h].step # Foreign)
    <3>1. /\ DOMAIN txs' = DOMAIN txs /\ txs'[h].fate = f
          /\ \A k \in DOMAIN txs : /\ txs'[k].step = txs[k].step
                                   /\ k # h => txs'[k].fate = txs[k].fate
      BY <1>1, <1>3, Fating
    <3>2. h \in DOMAIN txs /\ txs[h].fate # "success"
      BY DEF Pool, InPool
    <3>3. OwnRan(txs') = OwnRan(txs)
      BY <2>2, <3>1, <3>2 DEF OwnRan
    <3>4. \A s \in Steps : RanIn(txs', s) = RanIn(txs, s)
      <4>1. \A s \in Steps : s # Foreign
        BY DEF SequenceAssumption, Foreign
      <4> QED BY <2>2, <3>1, <3>2, <4>1 DEF RanIn
    <3>5. \A k \in OwnRan(txs) : txs'[k].step = txs[k].step
      BY <3>1 DEF OwnRan
    <3> QED BY <1>1, <3>3, <3>4, <3>5, FlowWaits
  <2> QED BY <2>1, <2>2
<1> QED BY <1>1, <1>2, <1>3, EnvironmentSteps

LEMMA SendingMaps ==
  ASSUME SequenceInv, SequenceInv', pc = "wallet", Broadcast,
         UNCHANGED <<steps, at>>, Flowing'
  PROVE  UNCHANGED Flow!flow
<1>1. Types /\ Shape /\ Flowing
  BY RunningFlows DEF SequenceInv
<1>2. /\ DOMAIN txs' = DOMAIN txs \cup {Len(txs) + 1}
      /\ \A h \in DOMAIN txs : txs'[h] = txs[h]
      /\ txs'[Len(txs) + 1].fate = "pending"
  BY <1>1, Sending DEF Shape
<1>3. OwnRan(txs') = OwnRan(txs)
  BY <1>2 DEF OwnRan
<1>4. \A s \in Steps : RanIn(txs', s) = RanIn(txs, s)
  BY <1>2 DEF RanIn
<1>5. \A k \in OwnRan(txs) : txs'[k].step = txs[k].step
  BY <1>2 DEF OwnRan
<1> QED BY <1>1, <1>3, <1>4, <1>5, FlowWaits

LEMMA ReceiptMaps ==
  ASSUME SequenceInv, SequenceInv', NEW read \in BOOLEAN,
         StepMined(read) \/ StepFailed(read)
  PROVE  Flow!Complete \/ UNCHANGED Flow!flow
<1>1. pc = "receipt" /\ status = "running" /\ UNCHANGED <<txs, steps>>
  <2>1. pc = "receipt" /\ UNCHANGED <<txs, steps>>
    BY DEF StepMined, StepFailed, Receipt, chain
  <2> QED BY <2>1, RunningFlows DEF SequenceInv
<1>2. CASE status' # "done"
  BY <1>1, <1>2, FlowStutters
<1>3. CASE status' = "done"
  <2>1. RanSteps' = RanSteps /\ StepsLeft' = StepsLeft
    BY <1>1 DEF RanSteps, StepsLeft, Ran
  <2>2. Reached(txs)' = Len(steps') + 1
    BY <1>3 DEF Reached
  <2>3. steps' \in Seq(Steps) /\ StepsLeft' = From(steps', Len(steps') + 1)
    BY <2>2, NextTodo DEF SequenceInv, Types
  <2>4. StepsLeft' = <<>>
    BY <2>3, FromEnds
  <2>5. (status' = "done") = TRUE
    BY <1>3
  <2> QED BY <2>1, <2>4, <2>5 DEF Flow!Complete
<1> QED BY <1>2, <1>3

LEMMA RunMaps ==
  ASSUME SequenceInv, SequenceInv', SequenceAssumption, NEW list \in Lists, Run(list)
  PROVE  Flow!Start(list)
<1>1. /\ Types /\ Types' /\ txs' = Orphans /\ steps' = list
      /\ status' = "running" /\ at' = 1
  BY DEF SequenceInv, Run
<1>2. RanSteps' = <<>>
  BY <1>1, OrphanTypes, NoneRan
<1>3. list \in Seq(Steps) /\ 1 \in DOMAIN list /\ list[1] \in Steps
  <2>1. list \in Seq(Steps) /\ list # <<>>
    BY DEF SequenceAssumption
  <2> QED BY <2>1
<1>4. RanIn(txs', list[1]) = {}
  BY <1>1, <1>3, OrphanEffect DEF RanIn, LiveIn
<1>5. Reached(txs)' = 1
  BY <1>1, <1>4 DEF Reached
<1>6. StepsLeft' = From(list, 1)
  BY <1>1, <1>5, NextTodo DEF SequenceInv
<1>7. (status' = "done") = FALSE
  BY <1>1
<1> QED BY <1>2, <1>3, <1>6, <1>7, FromEnds DEF Flow!Start

LEMMA CloseMaps ==
  ASSUME SequenceInv, SequenceInv', Close
  PROVE  Flow!Leave
<1>1. Types /\ Types' /\ txs' = Orphans /\ steps' = <<>> /\ status' = "idle"
  BY DEF SequenceInv, Close, Stopped
<1>2. RanSteps' = <<>>
  BY <1>1, OrphanTypes, NoneRan
<1>3. Reached(txs)' = 1
  BY <1>1 DEF Reached
<1>4. steps' \in Seq(Steps) /\ StepsLeft' = From(steps', 1)
  BY <1>1, <1>3, NextTodo DEF SequenceInv, Types
<1>5. StepsLeft' = <<>>
  BY <1>1, <1>4, FromEnds
<1>6. (status' = "done") = FALSE
  BY <1>1
<1> QED BY <1>2, <1>5, <1>6 DEF Flow!Leave

(* What is left is planned anew, of steps that did not run.                *)
LEMMA RetryWithMaps ==
  ASSUME SequenceAssumption, SequenceInv, SequenceInv',
         NEW tail \in Tails, RetryWith(tail)
  PROVE  Flow!Replan(tail)
<1> DEFINE n == Len(tail)
<1>1. /\ Types /\ Shape /\ SentInv /\ OrderInv
      /\ Types' /\ Shape' /\ SentInv' /\ OrderInv'
  BY DEF SequenceInv
<1>2. /\ status = "failed" /\ at' = at
      /\ \A k \in 1..n : Ran(tail[k]) = {}
      /\ IF n = 0 THEN status' = "done"
                  ELSE status' = "running" /\ pc' = "prepare"
  BY DEF RetryWith
<1>3. /\ at \in 1..Len(steps) /\ n \in Nat /\ Len(steps) \in Nat
      /\ tail \in Seq(Steps) /\ DOMAIN tail = 1..n
      /\ steps' \in Seq(Steps) /\ Len(steps') = at - 1 + n
      /\ DOMAIN steps' = 1..(at - 1 + n)
      /\ \A i \in DOMAIN steps' : i >= at => steps'[i] = tail[i - at + 1]
  <2>1. Len(steps) \in Nat
    BY <1>1 DEF Types
  <2>2. tail \in Seq(Steps)
    BY DEF SequenceAssumption
  <2>3. DOMAIN tail = 1..n
    BY <2>2
  <2> QED BY <1>1, <2>1, <2>3, Rebuilding
<1>4. StepsLeft' = From(steps', at)
  <2>1. Reached(txs)' = at
    <3>1. CASE n = 0
      BY <1>2, <1>3, <3>1 DEF Reached
    <3>2. CASE n # 0
      <4>1. Unsent' /\ status' = "running" /\ at' = at
        BY <1>2, <3>2 DEF Unsent
      <4>2. LiveIn(txs, steps[at])' = {}
        BY <1>1, <4>1 DEF SentInv, CurrentUnsent
      <4> QED BY <4>1, <4>2 DEF Reached, RanIn, LiveIn
    <3> QED BY <3>1, <3>2
  <2> QED BY <1>1, <2>1, NextTodo
<1>5. From(steps', at) = tail
  <2> DEFINE left == From(steps', at)
  <2>1. at \in 1..(Len(steps') + 1) /\ Len(steps') - at + 1 = n
    BY <1>3
  <2>2. /\ left \in Seq(Steps) /\ Len(left) = n
        /\ \A k \in 1..n : left[k] = steps'[at - 1 + k]
    <3>1. /\ left \in Seq(Steps) /\ Len(left) = Len(steps') - at + 1
          /\ \A k \in 1..(Len(steps') - at + 1) : left[k] = steps'[at - 1 + k]
      BY <1>3, <2>1, FromSeq
    <3> HIDE DEF left, n
    <3> QED BY <2>1, <3>1
  <2>3. ASSUME NEW k \in 1..n PROVE steps'[at - 1 + k] = tail[k]
    <3> DEFINE i == at - 1 + k
    <3>1. i \in 1..(at - 1 + n) /\ i >= at /\ i - at + 1 = k
      BY <1>3
    <3> HIDE DEF i
    <3>2. steps'[i] = tail[i - at + 1]
      BY <1>3, <3>1
    <3>3. steps'[i] = tail[k]
      BY <3>1, <3>2
    <3> QED BY <3>3 DEF i
  <2> HIDE DEF left
  <2>4. left = tail
    <3>1. /\ left \in Seq(Steps) /\ tail \in Seq(Steps)
          /\ Len(left) = Len(tail) /\ \A k \in 1..Len(tail) : left[k] = tail[k]
      BY <1>3, <2>2, <2>3
    <3> QED BY <3>1
  <2> QED BY <2>4 DEF left
<1>6. RanSteps' = RanSteps
  BY <1>1, GivingUpEffect, RanKept
<1>7. ASSUME NEW k \in DOMAIN tail, NEW i \in DOMAIN RanSteps
      PROVE  tail[k] # RanSteps[i]
  <2>1. RanSteps = StepsOf(txs)
    BY <1>1, RanFacts
  <2>2. i \in 1..Cardinality(OwnRan(txs))
    BY <2>1 DEF StepsOf
  <2>3. Place(OwnRan(txs), i) \in OwnRan(txs)
    BY <1>1, <2>2, RanFacts, PlaceKept
  <2>4. RanSteps[i] = txs[Place(OwnRan(txs), i)].step
    BY <2>1, <2>2 DEF StepsOf
  <2>5. Ran(tail[k]) = {}
    BY <1>2, <1>3
  <2> QED BY <2>3, <2>4, <2>5 DEF OwnRan, Ran
<1>8. (status' = "done") = (tail = <<>>)
  BY <1>2, <1>3
<1>9. (status = "done") = FALSE
  BY <1>2
<1> QED BY <1>4, <1>5, <1>6, <1>7, <1>8, <1>9 DEF Flow!Replan

LEMMA StepMaps ==
  ASSUME SequenceAssumption, SequenceInv, SequenceInv', [Next]_vars
  PROVE  Flow!Next \/ UNCHANGED Flow!flow
<1>0. Shape /\ (pc # "idle" => Flowing /\ status = "running")
  BY RunningFlows DEF SequenceInv
<1>1. ASSUME NEW sent, Fail(sent), pc # "idle", UNCHANGED <<txs, steps>>
      PROVE  UNCHANGED Flow!flow
  BY <1>0, <1>1, FlowStutters DEF Fail
<1>2. CASE Page
  <2>1. ASSUME EstimateReverts \/ \E c \in {PendingCount, Unread} : Judge(c)
        PROVE  UNCHANGED Flow!flow
    BY <1>1, <2>1 DEF EstimateReverts, Judge, chain
  <2>2. ASSUME \/ \E c \in {PendingCount, Unread} : CountRead(c)
               \/ \E t \in BOOLEAN : Prompt(t)
        PROVE  UNCHANGED <<txs, steps, status>>
    BY <2>2 DEF CountRead, Prompt, run, chain
  <2> QED BY <1>2, <2>1, <2>2, FlowStutters DEF Page
<1>3. CASE Answer
  <2>1. ASSUME Sends PROVE UNCHANGED Flow!flow
    <3>1. /\ pc = "wallet" /\ Broadcast /\ UNCHANGED <<steps, at, status>>
      BY <2>1 DEF Sends
    <3>2. Flowing'
      BY <1>0, <3>1 DEF Flowing
    <3> QED BY <3>1, <3>2, SendingMaps
  <2>2. ASSUME NEW k \in BOOLEAN, SendsUnheard(k) PROVE UNCHANGED Flow!flow
    <3>1. pc = "wallet" /\ Broadcast /\ UNCHANGED <<steps, at>>
      BY <2>2 DEF SendsUnheard, run
    <3>2. status' = "failed" \/ status' = status
      BY <2>2 DEF SendsUnheard, Fail, run
    <3>3. Flowing'
      BY <1>0, <3>1, <3>2 DEF Flowing
    <3> QED BY <3>1, <3>3, SendingMaps
  <2>3. ASSUME Rejects PROVE UNCHANGED Flow!flow
    BY <1>1, <2>3 DEF Rejects, chain
  <2>4. ASSUME Refuses PROVE UNCHANGED Flow!flow
    BY <2>4, FlowStutters DEF Refuses, run, chain
  <2> QED BY <1>3, <2>1, <2>2, <2>3, <2>4 DEF Answer
<1>4. CASE \E read \in BOOLEAN : StepMined(read) \/ StepFailed(read)
  BY <1>4, ReceiptMaps DEF Flow!Next
<1>5. CASE SlowWallet \/ ReceiptLate \/ KeepWaiting \/ Retry
  <2>1. UNCHANGED <<txs, steps>>
    BY <1>5 DEF SlowWallet, ReceiptLate, KeepWaiting, Retry, chain
  <2>2. status' = "done" <=> status = "done"
    BY <1>0, <1>5 DEF SlowWallet, ReceiptLate, KeepWaiting, Retry
  <2> QED BY <2>1, <2>2, FlowStutters
<1>6. CASE \E list \in Lists : Run(list)
  BY <1>6, RunMaps DEF Flow!Next
<1>7. CASE Close
  BY <1>7, CloseMaps DEF Flow!Next
<1>8. CASE \E tail \in Tails : RetryWith(tail)
  BY <1>8, RetryWithMaps DEF Flow!Next
<1>9. CASE Environment
  BY <1>9, EnvironmentMaps DEF Flow!Next
<1>10. CASE UNCHANGED vars
  BY <1>10, FlowStutters DEF vars, run, chain
<1> QED BY <1>2, <1>3, <1>4, <1>5, <1>6, <1>7, <1>8, <1>9, <1>10 DEF Next

(* The flow implements OrderedSteps: whatever the wallet, the receipts and *)
(* the buttons do, its steps run on chain in the order of the list, each   *)
(* at most once, a rebuilt tail holds no step that ran, and it reports     *)
(* itself complete only when nothing is left (useTxSequence, runFrom).     *)
THEOREM FlowsRunInOrder == Spec => ImplementsOrderedSteps
<1>1. SequenceAssumption
  BY SequenceAssumption
<1>3. Init => Flow!Init
  <2>1. ASSUME Init PROVE /\ RanSteps = <<>> /\ StepsLeft = <<>>
                          /\ (status = "done") = FALSE
    <3>1. steps = <<>> /\ txs = <<>> /\ status = "idle"
      BY <2>1 DEF Init
    <3>2. Cardinality({}) = 0
      BY FS_EmptySet
    <3>3. \A list : Keeping(list, {}) = <<>>
      BY <3>2 DEF Keeping
    <3>4. {i \in DOMAIN steps : Ran(steps[i]) = {}} = {}
      BY <3>1
    <3>5. StepsLeft = <<>>
      BY <3>3, <3>4 DEF StepsLeft
    <3>6. RanSteps = <<>>
      <4>1. Cardinality(OwnRan(txs)) = 0
        BY <3>1, <3>2 DEF OwnRan
      <4>2. StepsOf(txs) = <<>>
        BY <4>1 DEF StepsOf
      <4> QED BY <4>2 DEF RanSteps, StepsOf, Keeping, OwnRan
    <3> QED BY <3>1, <3>5, <3>6
  <2> QED BY <2>1 DEF Flow!Init
<1>2. SequenceInv /\ SequenceInv' /\ [Next]_vars => [Flow!Next]_Flow!flow
  BY <1>1, StepMaps
<1> QED BY <1>2, <1>3, SequenceInvAlways, PTL
        DEF Spec, ImplementsOrderedSteps, Flow!Spec
=============================================================================
