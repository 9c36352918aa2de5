----------------------------- MODULE TxSequence -----------------------------
(***************************************************************************)
(* hooks/useTx.ts (useTxSequence) with lib/walletSync.ts, the nonce        *)
(* conflicts of lib/txErrors.ts, and the buttons of TxFlowDialog.tsx: a    *)
(* flow sends several transactions one after another through the user's    *)
(* wallet and waits for each receipt.                                      *)
(*                                                                         *)
(* Three parties interleave.  The page runs the loop runFrom, which is cut *)
(* at every await (pc).  The wallet picks the nonce itself, from its own   *)
(* view of the account, which may be behind; it may refuse, and it may     *)
(* report a nonce conflict although it did send.  The chain mines the      *)
(* account's transactions in nonce order; one may revert, be replaced or   *)
(* cancelled in the wallet, or be dropped, and its receipt may be late.    *)
(*                                                                         *)
(* Assumed: the page's node sees every pending transaction of the account, *)
(* a dropped transaction does not come back, and a wallet that fails for   *)
(* another reason than a nonce conflict has sent nothing.                  *)
(*                                                                         *)
(* Not modelled: gas figures, labels and copy; a sped-up copy of the same  *)
(* call, which is the same transaction here.                               *)
(*                                                                         *)
(* An operator whose comment starts with "Faulty:" belongs to no action.   *)
(***************************************************************************)
EXTENDS Integers, Sequences, FiniteSets

CONSTANTS Steps,      \* what the steps of a flow do (positive numbers)
          Lists,      \* the lists of steps a flow may be started with
          Tails,      \* the lists a caller may rebuild the rest of one with
          WaitCloses, \* is the dialog closable while the last step waits?
          MaxNonce    \* bound: transactions of the account

ASSUME SequenceAssumption ==
  /\ Steps \subseteq Nat \ {0}
  /\ Lists \subseteq Seq(Steps) \ {<<>>} /\ Tails \subseteq Seq(Steps)
  /\ \A list \in Lists \cup Tails :
       \A i, j \in DOMAIN list : list[i] = list[j] => i = j
  /\ WaitCloses \in BOOLEAN
  /\ MaxNonce \in Nat

Awaited == -2   \* a transaction count that is being read
Unread == -1    \* a transaction count that could not be read
Foreign == 0    \* the step of a transaction that belongs to no step

VARIABLES
  steps,        \* runRef.steps, <<>> when there is no run
  status,       \* idle, running, waiting, failed, done
  phase,        \* of each step: todo, signing, mining, done, error
  maybeSent,    \* the failed step may have gone through anyway
  syncing,      \* held back until the wallet has caught up
  pc,           \* where runFrom awaits: idle, prepare, wallet, judge, receipt
  at,           \* the step of the loop, or the one the run stopped at
  hash,         \* the transaction whose receipt is awaited
  prev,         \* wallet count the last mined transaction asks for
  before,       \* the node's pending count, read before the prompt
  lastMined,    \* count after the latest mined transaction noted (0: none)
  txs,          \* transactions of the account: step, nonce, fate
  count,        \* transactions of the account mined so far
  walletCount,  \* the wallet's view of count
  unnoted,      \* something of the account mined that this tab did not note
  late          \* the last prompt did not wait for the wallet

run    == <<steps, status, phase, maybeSent, syncing>>
loop   == <<pc, at, hash, prev, before, late>>
chain  == <<txs, count>>
vars   == <<run, loop, lastMined, chain, walletCount, unnoted>>

Fates == {"pending", "superseded", "success", "reverted", "replaced",
          "dropped"}

InPool(h) == txs[h].fate \in {"pending", "superseded"}

Pool == {h \in DOMAIN txs : InPool(h)}

(* Faulty: the latest count is short of the account's next nonce.          *)
PendingBelow == count + Cardinality(Pool) - 1

(* The account's next nonce, as the page's node sees it.                   *)
PendingCount == count + Cardinality(Pool)

(* Faulty: any receipt, a cancellation's or a replacement's too.           *)
AnyReceipt(h) == txs[h].fate \in {"success", "replaced"}

(* The step ran: its own calldata, or a repricing of it, succeeded.        *)
RanStep(h) == txs[h].fate = "success"

(* What of a step ran on chain, whatever the page makes of its receipts.   *)
Ran(s) == {h \in DOMAIN txs : txs[h].step = s /\ txs[h].fate = "success"}

Init ==
  /\ steps = <<>> /\ status = "idle" /\ phase = <<>>
  /\ maybeSent = FALSE /\ syncing = FALSE
  /\ pc = "idle" /\ at = 0 /\ hash = 0 /\ prev = 0 /\ before = Unread
  /\ late = FALSE
  /\ lastMined = 0 /\ unnoted = FALSE
  /\ txs = <<>> /\ count = 0 /\ walletCount = 0

-----------------------------------------------------------------------------
(* The loop.                                                               *)

(* The loop comes to step i with nothing sent for it.                      *)
Prepare(i) ==
  /\ pc' = "prepare" /\ at' = i
  /\ phase' = [phase EXCEPT ![i] = "signing"]
  /\ prev' = lastMined /\ before' = Awaited

(* The run stops at its current step with an error.                        *)
Fail(sent) ==
  /\ pc' = "idle"
  /\ status' = "failed" /\ syncing' = FALSE /\ maybeSent' = sent
  /\ phase' = [phase EXCEPT ![at] = "error"]

Stopped == status' = "idle" /\ steps' = <<>> /\ phase' = <<>>
           /\ maybeSent' = FALSE /\ syncing' = FALSE

(* Transactions of a run that is over, as far as they are still to mine.   *)
Orphans == [k \in 1..Cardinality(Pool) |->
              [step |-> Foreign, nonce |-> count + k - 1,
               fate |-> "pending"]]

(* estimateContractGas names the revert: the step fails before a prompt.   *)
EstimateReverts ==
  /\ pc = "prepare"
  /\ Fail(FALSE)
  /\ UNCHANGED <<steps, at, hash, prev, before, late, lastMined, chain,
                 walletCount, unnoted>>

(* The pending count is read next to the estimate and the wait for the     *)
(* wallet.                                                                 *)
CountRead(c) ==
  /\ pc = "prepare" /\ before = Awaited
  /\ before' = c
  /\ UNCHANGED <<run, pc, at, hash, prev, late, lastMined, chain,
                 walletCount, unnoted>>

SlowWallet ==
  /\ pc = "prepare" /\ ~syncing /\ walletCount < prev
  /\ syncing' = TRUE
  /\ UNCHANGED <<steps, status, phase, maybeSent, loop, lastMined, chain,
                 walletCount, unnoted>>

(* waitForWalletNonce resolves: the wallet's count covers prev, or the     *)
(* wait timed out or could not read the wallet.                            *)
Prompt(timedOut) ==
  /\ pc = "prepare" /\ before # Awaited
  /\ timedOut \/ walletCount >= prev
  /\ pc' = "wallet" /\ late' = (walletCount < prev)
  /\ syncing' = FALSE
  /\ UNCHANGED <<steps, status, phase, maybeSent, at, hash, prev, before,
                 lastMined, chain, walletCount, unnoted>>

Rejects ==
  /\ pc = "wallet"
  /\ Fail(FALSE)
  /\ UNCHANGED <<steps, at, hash, prev, before, late, lastMined, chain,
                 walletCount, unnoted>>

Broadcast ==
  /\ PendingCount < MaxNonce
  /\ txs' = Append(txs, [step |-> steps[at], nonce |-> PendingCount,
                         fate |-> "pending"])

Sends ==
  /\ pc = "wallet"
  /\ Broadcast
  /\ hash' = Len(txs) + 1 /\ pc' = "receipt"
  /\ phase' = [phase EXCEPT ![at] = "mining"]
  /\ UNCHANGED <<steps, status, maybeSent, syncing, at, prev, before, late,
                 lastMined, count, walletCount, unnoted>>

(* The wallet signed a nonce that is used up or taken.                     *)
StaleNonce == walletCount < count \/ Pool # {}

Refuses ==
  /\ pc = "wallet" /\ StaleNonce
  /\ pc' = "judge"
  /\ UNCHANGED <<run, at, hash, prev, before, late, lastMined, chain,
                 walletCount, unnoted>>

(* The transaction went out, but what comes back is "nonce too low" to a   *)
(* rebroadcast, or "already known" (known), which needs no count.          *)
SendsUnheard(known) ==
  /\ pc = "wallet"
  /\ Broadcast
  /\ unnoted' = TRUE
  /\ IF known THEN Fail(TRUE) /\ UNCHANGED steps
              ELSE pc' = "judge" /\ UNCHANGED run
  /\ UNCHANGED <<at, hash, prev, before, late, lastMined, count,
                 walletCount>>

(* Faulty: trusts the words of the refusal.                                *)
JudgeByWords(c) ==
  /\ pc = "judge"
  /\ Fail(FALSE)
  /\ UNCHANGED <<steps, at, hash, prev, before, late, lastMined, chain,
                 walletCount, unnoted>>

(* Only an unchanged, readable count says that nothing was sent.           *)
Judge(c) ==
  /\ pc = "judge"
  /\ Fail(before = Unread \/ c = Unread \/ c # before)
  /\ UNCHANGED <<steps, at, hash, prev, before, late, lastMined, chain,
                 walletCount, unnoted>>

(* Faulty: only a successful transaction is noted.                         *)
NoteSuccess(h, read) ==
  IF txs[h].fate = "success" /\ read
  THEN lastMined' = txs[h].nonce + 1 /\ UNCHANGED unnoted
  ELSE UNCHANGED <<lastMined, unnoted>>

(* noteMined, whatever became of the transaction, if its nonce can be read.*)
NoteMined(h, read) ==
  IF ~read THEN unnoted' = TRUE /\ UNCHANGED lastMined
  ELSE /\ UNCHANGED unnoted
       /\ lastMined' = IF txs[h].nonce + 1 > lastMined
                       THEN txs[h].nonce + 1 ELSE lastMined

Receipt == pc = "receipt" /\ txs[hash].fate \in {"success", "reverted",
                                                 "replaced"}

StepMined(read) ==
  /\ Receipt /\ RanStep(hash)
  /\ NoteMined(hash, read)
  /\ IF at = Len(steps)
     THEN /\ pc' = "idle" /\ status' = "done"
          /\ phase' = [phase EXCEPT ![at] = "done"]
          /\ UNCHANGED <<at, prev, before>>
     ELSE /\ pc' = "prepare" /\ at' = at + 1
          /\ prev' = lastMined' /\ before' = Awaited
          /\ phase' = [phase EXCEPT ![at] = "done", ![at + 1] = "signing"]
          /\ UNCHANGED status
  /\ UNCHANGED <<steps, maybeSent, syncing, hash, late, chain, walletCount>>

(* Reverted, or replaced by other calldata: the step did not run.          *)
StepFailed(read) ==
  /\ Receipt /\ ~RanStep(hash)
  /\ NoteMined(hash, read)
  /\ Fail(FALSE)
  /\ UNCHANGED <<steps, at, hash, prev, before, late, chain, walletCount>>

(* Faulty: a late receipt is reported as a failure.                        *)
ReceiptLateFails ==
  /\ pc = "receipt"
  /\ Fail(FALSE)
  /\ UNCHANGED <<steps, at, hash, prev, before, late, lastMined, chain,
                 walletCount, unnoted>>

(* The wait timed out or a read failed, the transaction mined or not.      *)
ReceiptLate ==
  /\ pc = "receipt"
  /\ pc' = "idle" /\ status' = "waiting"
  /\ UNCHANGED <<steps, phase, maybeSent, syncing, at, hash, prev, before,
                 late, lastMined, chain, walletCount, unnoted>>

-----------------------------------------------------------------------------
(* The user, at the dialog.                                                *)

Run(list) ==
  /\ status = "idle" /\ pc = "idle"
  /\ steps' = list /\ status' = "running"
  /\ phase' = [i \in DOMAIN list |-> IF i = 1 THEN "signing" ELSE "todo"]
  /\ pc' = "prepare" /\ at' = 1 /\ prev' = lastMined /\ before' = Awaited
  /\ txs' = Orphans
  /\ UNCHANGED <<maybeSent, syncing, hash, late, lastMined, count,
                 walletCount, unnoted>>

(* Faulty: a wait can be taken up again only for the last step.            *)
KeepWaitingForLast ==
  /\ status = "waiting" /\ at = Len(steps)
  /\ pc' = "receipt" /\ status' = "running"
  /\ UNCHANGED <<steps, phase, maybeSent, syncing, at, hash, prev, before,
                 late, lastMined, chain, walletCount, unnoted>>

(* The wait for the same hash is taken up again; nothing is sent.          *)
KeepWaiting ==
  /\ status = "waiting"
  /\ pc' = "receipt" /\ status' = "running"
  /\ UNCHANGED <<steps, phase, maybeSent, syncing, at, hash, prev, before,
                 late, lastMined, chain, walletCount, unnoted>>

(* Faulty: starts the list again.                                          *)
RetryAll ==
  /\ status = "failed" /\ ~maybeSent
  /\ status' = "running"
  /\ Prepare(1)
  /\ UNCHANGED <<steps, maybeSent, syncing, hash, late, lastMined, chain,
                 walletCount, unnoted>>

(* "Try again": from the step that failed, unless it may have been sent.   *)
Retry ==
  /\ status = "failed" /\ ~maybeSent
  /\ status' = "running"
  /\ Prepare(at)
  /\ UNCHANGED <<steps, maybeSent, syncing, hash, late, lastMined, chain,
                 walletCount, unnoted>>

(* The failed step is given up although it may have been sent: what of it  *)
(* is still to mine belongs to no step of the flow any more.               *)
GivenUp ==
  [h \in DOMAIN txs |->
     IF InPool(h) /\ txs[h].step = steps[at]
     THEN [txs[h] EXCEPT !.step = Foreign] ELSE txs[h]]

(* retry(remaining): the steps from the failed one on are replaced by what *)
(* a fresh read asks for, maybe nothing.  A call like one that ran is a    *)
(* step of its own.  After a send that may have gone through, "Try again"  *)
(* is not offered; what the remove form offers beside it (continueStepwise,*)
(* withdrawAvailable) goes on with other calls than the failed one.        *)
RetryWith(tail) ==
  LET n == Len(tail)
  IN /\ status = "failed"
     /\ \A k \in 1..n : Ran(tail[k]) = {}
     /\ maybeSent => \A k \in 1..n : tail[k] # steps[at]
     /\ steps' = SubSeq(steps, 1, at - 1) \o tail
     /\ phase' = [i \in 1..(at - 1 + n) |->
                    IF i < at THEN phase[i]
                    ELSE IF i = at THEN "signing" ELSE "todo"]
     /\ IF n = 0
        THEN status' = "done" /\ UNCHANGED <<pc, prev, before>>
        ELSE /\ status' = "running" /\ pc' = "prepare"
             /\ prev' = lastMined /\ before' = Awaited
     /\ maybeSent' = FALSE
     /\ txs' = IF maybeSent THEN GivenUp ELSE txs
     /\ UNCHANGED <<syncing, at, hash, late, lastMined, count, walletCount,
                    unnoted>>

(* The dialog closes: not while a step is in flight, except while the next *)
(* one is held back, or while the last one waits and the caller allows it. *)
Closable ==
  \/ status \in {"failed", "done"}
  \/ syncing
  \/ status = "waiting" /\ WaitCloses /\ at = Len(steps)

Close ==
  /\ Closable
  /\ Stopped /\ pc' = "idle" /\ at' = 0 /\ hash' = 0
  /\ txs' = Orphans
  /\ unnoted' = (unnoted \/ status = "waiting" \/ maybeSent)
  /\ UNCHANGED <<prev, before, late, lastMined, count, walletCount>>

-----------------------------------------------------------------------------
(* The chain, the wallet's view, and the rest of the account.              *)

Mined(h, fate) ==
  /\ InPool(h) /\ \A k \in Pool : h <= k
  /\ txs' = [txs EXCEPT ![h].fate = fate]
  /\ count' = count + 1
  /\ UNCHANGED <<run, loop, lastMined, walletCount, unnoted>>

Mine(h) ==
  IF txs[h].fate = "superseded" THEN Mined(h, "replaced")
  ELSE Mined(h, "success") \/ Mined(h, "reverted")

(* The user replaces or cancels a pending transaction in the wallet.       *)
Supersede(h) ==
  /\ txs[h].fate = "pending"
  /\ txs' = [txs EXCEPT ![h].fate = "superseded"]
  /\ UNCHANGED <<run, loop, lastMined, count, walletCount, unnoted>>

(* The pool forgets the transaction the page waits for.                    *)
Drop ==
  /\ hash # 0 /\ (pc = "receipt" \/ status = "waiting")
  /\ txs[hash].fate = "pending" /\ Pool = {hash}
  /\ txs' = [txs EXCEPT ![hash].fate = "dropped"]
  /\ UNCHANGED <<run, loop, lastMined, count, walletCount, unnoted>>

(* Another transaction of the account: from an earlier flow of this tab,   *)
(* which noted it, or from elsewhere.                                      *)
Elsewhere(noted) ==
  /\ Pool = {} /\ count < MaxNonce
  /\ noted => status = "idle"
  /\ count' = count + 1
  /\ IF noted THEN lastMined' = count + 1 /\ UNCHANGED unnoted
              ELSE unnoted' = TRUE /\ UNCHANGED lastMined
  /\ UNCHANGED <<run, loop, txs, walletCount>>

(* The note of the last mined transaction expires (TTL_MS).                *)
Forget ==
  /\ lastMined # 0
  /\ lastMined' = 0 /\ unnoted' = TRUE
  /\ UNCHANGED <<run, loop, chain, walletCount>>

WalletCatchesUp ==
  /\ walletCount < count
  /\ \E c \in (walletCount + 1)..count : walletCount' = c
  /\ UNCHANGED <<run, loop, lastMined, chain, unnoted>>

-----------------------------------------------------------------------------
Answer == Rejects \/ Sends \/ Refuses \/ \E k \in BOOLEAN : SendsUnheard(k)

Page ==
  \/ EstimateReverts
  \/ \E c \in {PendingCount, Unread} : CountRead(c)
  \/ \E t \in BOOLEAN : Prompt(t)
  \/ \E c \in {PendingCount, Unread} : Judge(c)

Environment ==
  \/ \E h \in DOMAIN txs : Mine(h) \/ Supersede(h)
  \/ Drop
  \/ \E noted \in BOOLEAN : Elsewhere(noted)
  \/ Forget
  \/ WalletCatchesUp

Next ==
  \/ Page \/ SlowWallet \/ Answer
  \/ \E read \in BOOLEAN : StepMined(read) \/ StepFailed(read)
  \/ ReceiptLate
  \/ \E list \in Lists : Run(list)
  \/ KeepWaiting \/ Retry \/ Close
  \/ \E tail \in Tails : RetryWith(tail)
  \/ Environment

Spec == Init /\ [][Next]_vars

(* The user answers the wallet, the page's reads answer, the chain mines,  *)
(* a receipt that keeps being asked for comes, and the user keeps waiting  *)
(* for it.                                                                 *)
Fairness ==
  /\ WF_vars(Page) /\ WF_vars(Answer)
  /\ WF_vars(\E h \in DOMAIN txs : Mine(h))
  /\ SF_vars(\E read \in BOOLEAN : StepMined(read) \/ StepFailed(read))
  /\ WF_vars(KeepWaiting)

LiveSpec == Spec /\ Fairness

-----------------------------------------------------------------------------
Tx == [step : Steps \cup {Foreign}, nonce : Nat, fate : Fates]

TypeOK ==
  /\ steps \in Seq(Steps)
  /\ status \in {"idle", "running", "waiting", "failed", "done"}
  /\ phase \in Seq({"todo", "signing", "mining", "done", "error"})
  /\ maybeSent \in BOOLEAN /\ syncing \in BOOLEAN
  /\ pc \in {"idle", "prepare", "wallet", "judge", "receipt"}
  /\ {at, hash, prev, lastMined, count, walletCount} \subseteq Nat
  /\ before \in Nat \cup {Awaited, Unread}
  /\ txs \in Seq(Tx)
  /\ unnoted \in BOOLEAN /\ late \in BOOLEAN

MayRun(s) == {h \in DOMAIN txs : txs[h].step = s /\ txs[h].fate = "pending"}

(* TxFlowDialog: nothing is ever sent twice.  However prompts, refusals,   *)
(* late receipts and retries interleave, a step that ran is not pending    *)
(* again, and is never pending twice.  A step that is given up after it    *)
(* may have been sent has left the flow, as when the dialog is closed.     *)
NoStepSentTwice ==
  \A s \in Steps : Cardinality(Ran(s) \cup MayRun(s)) <= 1

(* A step offered as "Try again" did not run and cannot run any more: a    *)
(* slow network or a wallet's misleading words are never a failure.        *)
FailedStepDidNotRun ==
  status = "failed" /\ ~maybeSent =>
    Ran(steps[at]) = {} /\ MayRun(steps[at]) = {}

(* A step is sent only when every step before it ran, and a step shown as  *)
(* done did run, so a finished flow ran every step that was left in it.    *)
StepsRunInOrder ==
  \A i \in DOMAIN steps :
    /\ phase[i] = "done" => Ran(steps[i]) # {}
    /\ Ran(steps[i]) \cup MayRun(steps[i]) # {} =>
         \A j \in 1..(i - 1) : Ran(steps[j]) # {}

(* While this tab noted everything the account mined, a prompt that waited *)
(* for the wallet is not signed with a used nonce (walletSync.ts).         *)
SyncedWalletIsCurrent ==
  pc = "wallet" /\ ~late /\ ~unnoted /\ Pool = {} => walletCount = count

(* No flow hangs: a running or waiting one ends or stops with an error,    *)
(* unless the pool dropped its transaction, for which it waits for ever.   *)
Dropped == hash # 0 /\ txs[hash].fate = "dropped"

FlowsEnd ==
  status \in {"running", "waiting"} ~>
    status \notin {"running", "waiting"} \/ Dropped

(* The flow implements OrderedSteps.  Of a list, what is at the positions  *)
(* of keep, in its order: place k has k positions of keep up to it.        *)
Ranked(keep, k) == {i \in keep : Cardinality({j \in keep : j <= i}) = k}

Place(keep, k) == CHOOSE i \in Ranked(keep, k) : TRUE

Keeping(list, keep) ==
  [k \in 1..Cardinality(keep) |-> list[Place(keep, k)]]

RanSteps ==
  LET ran == Keeping(txs, {h \in DOMAIN txs : /\ txs[h].step # Foreign
                                            /\ txs[h].fate = "success"})
  IN [k \in DOMAIN ran |-> ran[k].step]

StepsLeft == Keeping(steps, {i \in DOMAIN steps : Ran(steps[i]) = {}})

Flow == INSTANCE OrderedSteps
          WITH todo <- StepsLeft, ran <- RanSteps,
               complete <- (status = "done")

ImplementsOrderedSteps == Flow!Spec
=============================================================================
