----------------------------- MODULE RemovePlan -----------------------------
(***************************************************************************)
(* "Withdraw & remove plan": RemoveForm of app/app/plans/page.tsx with     *)
(* lib/removeSteps.ts, and what decides whether the plan is still listed:  *)
(* planLiveness of hooks/useLogs.ts and lib/visiblePositions.ts.           *)
(*                                                                         *)
(* The form reads the plan, builds the calls that empty and remove it,     *)
(* sends them one after another (useTxSequence, see TxSequence), and       *)
(* trusts only another read for the outcome.  It is cut at every await;    *)
(* meanwhile the owner's other tabs, the keeper, the market and anybody    *)
(* who prunes change the plan.  The vault's calls are those of PlanVault,  *)
(* for one plan, with amounts that are small numbers and no fees: what     *)
(* matters is which legs are zero, and which revert.                       *)
(*                                                                         *)
(* Not modelled: copy and labels, vaults that predate closePlan (to the    *)
(* form they are vaults whose close always reverts), a change of account,  *)
(* and closing the finished dialog while its outcome is being read.  Two   *)
(* reads are never under way at once, and the log scan answers at once.    *)
(*                                                                         *)
(* An operator whose comment starts with "Faulty:" belongs to no action.   *)
(***************************************************************************)
EXTENDS Integers, Sequences

CONSTANTS MaxChanges,   \* bound: changes by others
          MaxFaults     \* bound: failed reads, refusals, lost answers

ASSUME RemoveAssumption == {MaxChanges, MaxFaults} \subseteq Nat

Legs == {"boost", "stock"}   \* what can be kept from paying out

VARIABLES
  plan,       \* idle, shares, worth, stock, boosted, paused, indexed
  pending,    \* a buy page of the plan's stock is open
  blocked,    \* legs that revert now
  live,       \* planLiveness of the vault's logs: unknown, live, gone
  row,        \* the plan's row as last polled: its boosted value, is it empty
  hidden,     \* this session removed the plan
  phase,      \* closed, preview, flow, deferred, removed
  mode,       \* auto, sequence
  fresh,      \* the latest complete read, or NoRead
  reading,    \* what readFresh() was called for, none
  unread,     \* reads of it that are under way
  draft,      \* results of the others
  order,      \* the calls of this run, and what is said of the prune
  at,         \* the call under way
  status,     \* of the sequence: idle, running, failed, lost, done
  refused,    \* the failed call was declined in the wallet
  receipt,    \* of this run's close or prune: none, parked, unindexed
  remaining,  \* a run ended with value left
  changes, faults,
  raced,      \* others changed something since the last read began
  funded,     \* a deposit landed since the calls were built
  onTrust     \* no receipt told the last outcome

chain == <<plan, pending, blocked, live>>
page  == <<row, hidden>>
read  == <<fresh, reading, unread, draft>>
sent  == <<order, at, status, refused, receipt>>
form  == <<phase, mode, remaining>>
ghosts == <<raced, funded, onTrust>>
vars  == <<chain, page, read, sent, form, changes, faults, ghosts>>

Plan == [idle : Nat, shares : 0..1, worth : 0..1, stock : Nat,
         boosted : BOOLEAN, paused : BOOLEAN, indexed : BOOLEAN]

Calls == {"unboost", "withdraw", "part", "claim", "prune", "close"}

NoRead == [ok |-> FALSE]

NoOrder == [kind |-> "none", calls |-> <<>>, prune |-> FALSE, part |-> 0]

(* What the plan's shares are worth: the last of them may floor to zero.   *)
Value(p) == p.shares * p.worth

RowOf(p) == [value |-> Value(p),
             empty |-> p.idle + Value(p) = 0 /\ p.stock = 0]

Init ==
  /\ plan \in {p \in [idle : 0..1, shares : 0..1, worth : {1}, stock : 0..1,
                      boosted : BOOLEAN, paused : {FALSE}, indexed : {TRUE}] :
                 p.shares > 0 => p.boosted}
  /\ pending \in BOOLEAN /\ blocked = {} /\ live = "unknown"
  /\ row = RowOf(plan) /\ hidden = FALSE
  /\ phase = "closed" /\ mode = "auto" /\ remaining = FALSE
  /\ fresh = NoRead /\ reading = "none" /\ unread = {} /\ draft = NoRead
  /\ order = NoOrder /\ at = 0 /\ status = "idle" /\ refused = FALSE
  /\ receipt = "none"
  /\ changes = 0 /\ faults = 0
  /\ raced = FALSE /\ funded = FALSE /\ onTrust = FALSE

-----------------------------------------------------------------------------
(* The vault: what each call does, and when it reverts.                    *)

EmptyPlan(p) == p.idle = 0 /\ p.stock = 0 /\ p.shares = 0

Unboosted(p) == [p EXCEPT !.idle = @ + Value(p), !.shares = 0,
                          !.boosted = FALSE]

(* Faulty: takes it all from the idle balance.                             *)
FromIdle(p, a) == [p EXCEPT !.idle = @ - a]

(* idle USDG first, then the strategy; taking all of the value burns the   *)
(* shares, unless they are worth nothing.                                  *)
Withdrawn(p, a) ==
  IF a <= p.idle THEN [p EXCEPT !.idle = @ - a]
  ELSE [p EXCEPT !.idle = 0, !.shares = 0]

Parks(p) == pending /\ p.indexed

Closed(p) ==
  LET q == [Unboosted(p) EXCEPT !.idle = 0, !.stock = 0]
  IN IF Parks(p) THEN [q EXCEPT !.paused = TRUE] ELSE [q EXCEPT !.indexed = FALSE]

(* The strategy has to pay.                                                *)
Pulls(c) ==
  \/ c \in {"unboost", "close"} /\ plan.shares > 0
  \/ c = "withdraw" /\ Value(plan) > 0
  \/ c = "part" /\ order.part > plan.idle

(* The leg exists: neither ZeroAmount, nor PlanNotEmpty, nor               *)
(* EpochInProgress.                                                        *)
Applies(c) ==
  CASE c = "withdraw" -> plan.idle + Value(plan) > 0
    [] c = "part"     -> order.part > 0 /\ order.part <= plan.idle + Value(plan)
    [] c = "claim"    -> plan.stock > 0
    [] c = "prune"    -> EmptyPlan(plan) /\ ~pending
    [] OTHER          -> TRUE

GoesThrough(c) ==
  /\ Applies(c)
  /\ Pulls(c) => "boost" \notin blocked
  /\ c \in {"claim", "close"} /\ plan.stock > 0 => "stock" \notin blocked

After(c) ==
  CASE c = "unboost"  -> Unboosted(plan)
    [] c = "withdraw" -> Withdrawn(plan, plan.idle + Value(plan))
    [] c = "part"     -> Withdrawn(plan, order.part)
    [] c = "claim"    -> [plan EXCEPT !.stock = 0]
    [] c = "prune"    -> [plan EXCEPT !.indexed = FALSE]
    [] c = "close"    -> Closed(plan)

(* Faulty: a plan that was closed is gone, parked or not.                  *)
ClosedIsGone(c) ==
  IF c = "close" \/ (c = "prune" /\ plan.indexed) THEN "gone" ELSE live

(* planLiveness after the logs of a call: PlanIndexed(false) when it took  *)
(* the plan out, and PlanClosed, which counts only when it says so.        *)
LiveAfter(c) ==
  IF \/ c = "prune" /\ plan.indexed
     \/ c = "close" /\ ~Parks(plan)
  THEN "gone" ELSE live

Runs(c) ==
  /\ GoesThrough(c)
  /\ plan' = After(c) /\ live' = LiveAfter(c)
  /\ UNCHANGED <<pending, blocked>>

-----------------------------------------------------------------------------
(* buildRemoveOrder, buildCloseOrder, buildPartialWithdraw.                *)

Leg(needed, c) == IF needed THEN <<c>> ELSE <<>>

(* One call per leg the plan has, and the prune unless a page is open.     *)
RemoveOrder(f) ==
  [kind |-> "sequence",
   calls |-> Leg(f.boosted, "unboost") \o Leg(f.idle + f.value > 0, "withdraw")
             \o Leg(f.stock > 0, "claim") \o Leg(~f.pending, "prune"),
   prune |-> ~f.pending, part |-> 0]

CloseOrder(f) ==
  [kind |-> "close",
   calls |-> Leg(~(EmptyPlan(f) /\ f.pending), "close"),
   prune |-> ~f.pending, part |-> 0]

PartialWithdraw(f) ==
  [kind |-> "sequence", calls |-> <<"part">>, prune |-> FALSE, part |-> f.idle]

OrderFor(f, m) ==
  IF m = "close" \/ (m = "auto" /\ f.close) THEN CloseOrder(f)
  ELSE RemoveOrder(f)

-----------------------------------------------------------------------------
(* readFresh(): the plan and the open page in parallel, then a simulated   *)
(* close.                                                                  *)

NoDraft == [plan |-> NoRead, pending |-> FALSE, value |-> 0]

StartRead(why) ==
  /\ reading' = why /\ unread' = {"plan", "pending"}
  /\ draft' = NoDraft
  /\ raced' = FALSE

ReadPlan ==
  /\ "plan" \in unread
  /\ unread' = unread \ {"plan"}
  /\ draft' = [draft EXCEPT !.plan = plan,
                            !.value = IF plan.shares > 0 THEN row.value ELSE 0]
  /\ raced' = (raced \/ (plan.shares > 0 /\ row.value # Value(plan)))
  /\ UNCHANGED <<chain, page, fresh, reading, sent, form, changes, faults,
                 funded, onTrust>>

ReadPending ==
  /\ "pending" \in unread
  /\ unread' = unread \ {"pending"}
  /\ draft' = [draft EXCEPT !.pending = pending]
  /\ UNCHANGED <<chain, page, fresh, reading, sent, form, changes, faults,
                 ghosts>>

(* What the read found, once closePlan has been simulated.                 *)
Found ==
  [ok |-> TRUE, idle |-> draft.plan.idle, stock |-> draft.plan.stock,
   shares |-> draft.plan.shares, boosted |-> draft.plan.boosted,
   value |-> draft.value, pending |-> draft.pending,
   close |-> GoesThrough("close")]

Answered ==
  /\ reading # "none" /\ unread = {}
  /\ fresh' = Found
  /\ reading' = "none" /\ draft' = NoRead /\ UNCHANGED unread

Send(o) ==
  /\ order' = o /\ at' = 1
  /\ status' = IF o.calls = <<>> THEN "done" ELSE "running"
  /\ refused' = FALSE /\ receipt' = "none"
  /\ funded' = FALSE

(* retry([]): the flow is done at once, before the page has rendered the   *)
(* new order, so the outcome will be judged by the order that failed.      *)
SendNothing ==
  /\ status' = "done" /\ receipt' = "none" /\ funded' = FALSE
  /\ UNCHANGED <<order, at, refused>>

(* The preview's own read.                                                 *)
Previewed ==
  /\ reading = "preview" /\ Answered
  /\ UNCHANGED <<chain, page, sent, form, changes, faults, ghosts>>

(* Faulty: sends the order it had again.                                   *)
ResumeOld ==
  /\ reading \in {"retry", "stepwise"} /\ Answered
  /\ Send(order)
  /\ UNCHANGED <<chain, page, form, changes, faults, raced, onTrust>>

(* "Try again" and "Continue step by step": the rest is built anew.  A     *)
(* failed close is tried again as a close.                                 *)
Resume ==
  /\ reading \in {"retry", "stepwise"} /\ Answered
  /\ LET m == IF reading = "stepwise" THEN "sequence"
              ELSE IF order.calls[at] = "close" /\ mode = "auto" THEN "close"
              ELSE mode
         o == OrderFor(Found, m)
     IN IF o.calls = <<>> THEN SendNothing ELSE Send(o)
  /\ UNCHANGED <<chain, page, form, changes, faults, raced, onTrust>>

(* "Withdraw available part": nothing, if there is none by now.            *)
ResumePart ==
  /\ reading = "part" /\ Answered
  /\ IF Found.idle > 0 THEN Send(PartialWithdraw(Found))
     ELSE UNCHANGED <<sent, funded>>
  /\ UNCHANGED <<chain, page, form, changes, faults, raced, onTrust>>

(* Faulty: what was built is taken for what happened.                      *)
UnindexedAsBuilt(known) == order.prune

(* unindexedBy: the close's receipt says whether the plan left the list,   *)
(* if there is one and it can be read; otherwise, what was built.          *)
Unindexed(known) ==
  IF order.kind = "close" /\ receipt # "none" /\ known
  THEN receipt = "unindexed" ELSE order.prune

(* verify(): removed only if the read shows nothing left and it left the   *)
(* list; otherwise back to the preview, or wait for the page to close.     *)
Verify(known) ==
  /\ reading = "verify" /\ Answered
  /\ IF known THEN UNCHANGED faults
     ELSE faults < MaxFaults /\ faults' = faults + 1
  /\ phase' = IF ~EmptyPlan(Found) THEN "preview"
              ELSE IF Unindexed(known) THEN "removed" ELSE "deferred"
  /\ remaining' = ~EmptyPlan(Found)
  /\ hidden' = (hidden \/ phase' = "removed")
  /\ onTrust' = (receipt = "none" \/ ~known)
  /\ status' = "idle" /\ order' = NoOrder /\ at' = 0
  /\ receipt' = "none" /\ refused' = FALSE
  /\ UNCHANGED <<chain, row, mode, changes, raced, funded>>

(* "Finish delete".                                                        *)
Finish ==
  /\ reading = "finish" /\ Answered
  /\ IF ~EmptyPlan(Found)
     THEN phase' = "preview" /\ remaining' = TRUE /\ UNCHANGED <<sent, funded>>
     ELSE IF OrderFor(Found, mode).calls = <<>>
     THEN UNCHANGED <<phase, remaining, sent, funded>>
     ELSE /\ phase' = "flow" /\ remaining' = FALSE
          /\ Send(OrderFor(Found, mode))
  /\ UNCHANGED <<chain, page, mode, changes, faults, raced, onTrust>>

(* A read fails: nothing is built on it.                                   *)
ReadFails ==
  /\ reading # "none"
  /\ faults < MaxFaults /\ faults' = faults + 1
  /\ fresh' = NoRead /\ reading' = "none" /\ unread' = {} /\ draft' = NoRead
  /\ IF reading = "verify"
     THEN /\ phase' = "preview" /\ status' = "idle"
          /\ order' = NoOrder /\ at' = 0 /\ receipt' = "none"
          /\ refused' = FALSE
     ELSE UNCHANGED <<phase, sent>>
  /\ UNCHANGED <<chain, page, mode, remaining, changes, ghosts>>

-----------------------------------------------------------------------------
(* The sequence, one call at a time.                                       *)

Call == order.calls[at]

StepRuns ==
  /\ status = "running"
  /\ Runs(Call)
  /\ receipt' = IF Call \notin {"close", "prune"} THEN receipt
                ELSE IF Call = "close" /\ Parks(plan) THEN "parked"
                ELSE "unindexed"
  /\ IF at = Len(order.calls) THEN status' = "done" /\ UNCHANGED at
     ELSE at' = at + 1 /\ UNCHANGED status
  /\ UNCHANGED <<page, read, order, refused, form, changes, faults, ghosts>>

StepReverts ==
  /\ status = "running" /\ ~GoesThrough(Call)
  /\ status' = "failed" /\ refused' = FALSE
  /\ UNCHANGED <<chain, page, read, order, at, receipt, form, changes,
                 faults, ghosts>>

Rejected ==
  /\ status = "running"
  /\ faults < MaxFaults /\ faults' = faults + 1
  /\ status' = "failed" /\ refused' = TRUE
  /\ UNCHANGED <<chain, page, read, order, at, receipt, form, changes,
                 ghosts>>

(* The wallet's answer is lost: the call may run, now or not at all.       *)
AnswerLost ==
  /\ status = "running"
  /\ faults < MaxFaults /\ faults' = faults + 1
  /\ status' = "lost"
  /\ Runs(Call) \/ UNCHANGED chain
  /\ UNCHANGED <<page, read, order, at, refused, receipt, form, changes,
                 ghosts>>

(* After the last call (or none): a read decides.                          *)
Done ==
  /\ phase = "flow" /\ status = "done" /\ reading = "none"
  /\ StartRead("verify")
  /\ UNCHANGED <<chain, page, fresh, sent, form, changes, faults, funded,
                 onTrust>>

-----------------------------------------------------------------------------
(* The owner, at the form.                                                 *)

(* Faulty: what was removed stays hidden.                                  *)
HiddenByKey == live = "gone" \/ hidden

(* isHiddenPlan: nothing in it, and out of the list or just removed.       *)
HiddenPlan == row.empty /\ (live = "gone" \/ hidden)

Idle == reading = "none"

(* The scan of the logs may be behind: a plan that is gone may be shown.   *)
Open ==
  /\ phase \in {"closed", "removed"} /\ ~(row.empty /\ hidden)
  /\ phase' = "preview" /\ mode' = "auto" /\ remaining' = FALSE
  /\ StartRead("preview") /\ fresh' = NoRead
  /\ order' = NoOrder /\ at' = 0 /\ status' = "idle" /\ refused' = FALSE
  /\ receipt' = "none"
  /\ funded' = FALSE /\ onTrust' = FALSE
  /\ UNCHANGED <<chain, page, changes, faults>>

ReadAgain ==
  /\ phase = "preview" /\ Idle /\ ~fresh.ok
  /\ StartRead("preview")
  /\ UNCHANGED <<chain, page, fresh, sent, form, changes, faults, funded,
                 onTrust>>

Preview == OrderFor(fresh, mode)

(* Faulty: no way out but the one-transaction close.                       *)
PreviewingClose ==
  phase = "preview" /\ reading \in {"none", "preview"} /\ fresh.ok /\ fresh.close

(* Nothing keeps the owner from starting while the preview is read again:  *)
(* what is sent then was read before, and the answer, which would only     *)
(* redraw the preview, is left out.                                        *)
Previewing == phase = "preview" /\ reading \in {"none", "preview"} /\ fresh.ok

Overtaken ==
  /\ reading' = "none" /\ unread' = {} /\ draft' = NoRead /\ UNCHANGED fresh

Start ==
  /\ Previewing /\ Preview.calls # <<>>
  /\ phase' = "flow" /\ remaining' = FALSE
  /\ Send(Preview)
  /\ raced' = (raced \/ reading # "none")
  /\ Overtaken
  /\ UNCHANGED <<chain, page, mode, changes, faults, onTrust>>

(* Nothing to send but a deferred prune.                                   *)
Defer ==
  /\ Previewing /\ Preview.calls = <<>> /\ ~remaining
  /\ phase' = "deferred" /\ Overtaken
  /\ UNCHANGED <<chain, page, sent, mode, remaining, changes, faults,
                 ghosts>>

ChooseMode ==
  /\ Previewing /\ fresh.close /\ Preview.calls # <<>>
  /\ mode' = IF mode = "auto" THEN "sequence" ELSE "auto"
  /\ UNCHANGED <<chain, page, read, sent, phase, remaining, changes,
                 faults, ghosts>>

Retry ==
  /\ phase = "flow" /\ status = "failed" /\ Idle
  /\ StartRead("retry")
  /\ UNCHANGED <<chain, page, fresh, sent, form, changes, faults, funded,
                 onTrust>>

(* The two offers beside "Try again" stand after a lost answer as well,    *)
(* when the call may run yet.                                              *)
Stuck == phase = "flow" /\ status \in {"failed", "lost"} /\ Idle

ContinueStepwise ==
  /\ Stuck
  /\ Call = "close" /\ ~refused
  /\ mode' = "sequence" /\ StartRead("stepwise")
  /\ UNCHANGED <<chain, page, fresh, sent, phase, remaining, changes,
                 faults, funded, onTrust>>

WithdrawAvailable ==
  /\ Stuck
  /\ Call \in {"unboost", "withdraw", "close"}
  /\ fresh.ok /\ fresh.boosted /\ fresh.idle > 0
  /\ StartRead("part")
  /\ UNCHANGED <<chain, page, fresh, sent, form, changes, faults, funded,
                 onTrust>>

(* The flow dialog is closed after a failure: back to the preview.         *)
CloseFlow ==
  /\ Stuck
  /\ phase' = "preview" /\ StartRead("preview")
  /\ order' = NoOrder /\ at' = 0 /\ status' = "idle" /\ refused' = FALSE
  /\ receipt' = "none"
  /\ UNCHANGED <<chain, page, fresh, mode, remaining, changes, faults,
                 funded, onTrust>>

FinishDelete ==
  /\ phase = "deferred" /\ Idle /\ ~pending
  /\ StartRead("finish")
  /\ UNCHANGED <<chain, page, fresh, sent, form, changes, faults, funded,
                 onTrust>>

Leave ==
  /\ phase \in {"preview", "deferred"}
  /\ phase' = "closed"
  /\ fresh' = NoRead /\ reading' = "none" /\ unread' = {} /\ draft' = NoRead
  /\ mode' = "auto" /\ remaining' = FALSE
  /\ raced' = FALSE /\ funded' = FALSE /\ onTrust' = FALSE
  /\ UNCHANGED <<chain, page, sent, changes, faults>>

-----------------------------------------------------------------------------
(* Everybody else.                                                         *)

(* A deposit brings the plan back into the list; the owner pays, lent or   *)
(* not.                                                                    *)
Deposit ==
  /\ plan' = IF plan.boosted THEN [plan EXCEPT !.shares = 1, !.worth = 1,
                                               !.indexed = TRUE]
             ELSE [plan EXCEPT !.idle = @ + 1, !.indexed = TRUE]
  /\ live' = "live" /\ funded' = (phase # "closed")
  /\ UNCHANGED <<pending, blocked>>

BoostElsewhere ==
  /\ plan.idle > 0
  /\ plan' = [plan EXCEPT !.idle = 0, !.shares = 1, !.worth = 1,
                          !.boosted = TRUE]
  /\ UNCHANGED <<pending, blocked, live, funded>>

(* A page that buys for the plan, whose stock may be paid out at once.     *)
Bought(p, distributed) ==
  LET q == Withdrawn(p, 1)
  IN IF distributed THEN q ELSE [q EXCEPT !.stock = 1]

PageBuys(distributed, over) ==
  /\ plan.indexed /\ ~plan.paused /\ plan.idle + Value(plan) > 0
  /\ plan.idle = 0 => "boost" \notin blocked
  /\ plan' = Bought(plan, distributed)
  /\ pending' = ~over
  /\ UNCHANGED <<blocked, live, funded>>

(* A page of the stock opens without reaching the plan.                    *)
PageOpens ==
  /\ ~pending /\ pending' = TRUE
  /\ UNCHANGED <<plan, blocked, live, funded>>

LegBlocks(leg) ==
  /\ blocked' = blocked \cup {leg}
  /\ UNCHANGED <<plan, pending, live, funded>>

SharesTurn ==
  /\ plan.shares > 0
  /\ plan' = [plan EXCEPT !.worth = 1 - @]
  /\ UNCHANGED <<pending, blocked, live, funded>>

(* The owner's other tab, a late transaction of this one, or anybody who   *)
(* prunes.                                                                 *)
CallElsewhere(c) == Runs(c) /\ UNCHANGED funded

Other ==
  /\ changes < MaxChanges /\ changes' = changes + 1
  /\ \/ Deposit \/ BoostElsewhere \/ PageOpens \/ SharesTurn
     \/ \E d, o \in BOOLEAN : PageBuys(d, o)
     \/ \E c \in Calls \ {"part"} : CallElsewhere(c)
     \/ \E leg \in Legs \ blocked : LegBlocks(leg)
  /\ raced' = (phase # "closed")
  /\ UNCHANGED <<page, read, sent, form, faults, onTrust>>

(* The open page is finished, or a stale one abandoned; the strategy has   *)
(* liquidity again, the recipient is accepted again.                       *)
Clears ==
  /\ \/ pending /\ pending' = FALSE /\ UNCHANGED blocked
     \/ blocked # {} /\ blocked' = {} /\ UNCHANGED pending
  /\ raced' = (phase # "closed")
  /\ UNCHANGED <<plan, live, page, read, sent, form, changes, faults,
                 funded, onTrust>>

(* The row is polled.                                                      *)
Poll ==
  /\ row # RowOf(plan)
  /\ row' = RowOf(plan)
  /\ UNCHANGED <<chain, hidden, read, sent, form, changes, faults, ghosts>>

-----------------------------------------------------------------------------
Form ==
  \/ ReadPlan \/ ReadPending
  \/ Previewed \/ Resume \/ ResumePart \/ Finish
  \/ \E known \in BOOLEAN : Verify(known)
  \/ StepRuns \/ StepReverts \/ Done \/ Defer

(* What an owner who wants the plan gone keeps pressing.                   *)
Press == ReadAgain \/ Start \/ Retry \/ FinishDelete
         \/ (status = "lost" /\ CloseFlow)

Next ==
  \/ Form \/ Press
  \/ ReadFails \/ Rejected \/ AnswerLost
  \/ Open \/ ChooseMode \/ ContinueStepwise \/ WithdrawAvailable \/ CloseFlow
  \/ Leave
  \/ Other \/ Clears \/ Poll

Spec == Init /\ [][Next]_vars

(* Reads answer, transactions are mined, the page polls, and an owner who  *)
(* wants the plan gone presses on, "Try again" in particular.              *)
LiveSpec ==
  Spec /\ WF_vars(Form) /\ SF_vars(Press) /\ SF_vars(Retry) /\ WF_vars(Poll)

-----------------------------------------------------------------------------
Order == [kind : {"none", "close", "sequence"}, calls : Seq(Calls),
          prune : BOOLEAN, part : Nat]

Read == [ok : {TRUE}, idle : Nat, stock : Nat, shares : 0..1,
         boosted : BOOLEAN, value : 0..1, pending : BOOLEAN, close : BOOLEAN]

Draft == [plan : Plan \cup {NoRead}, pending : BOOLEAN, value : 0..1]

TypeOK ==
  /\ plan \in Plan /\ pending \in BOOLEAN /\ blocked \subseteq Legs
  /\ live \in {"unknown", "live", "gone"}
  /\ row \in [value : 0..1, empty : BOOLEAN] /\ hidden \in BOOLEAN
  /\ phase \in {"closed", "preview", "flow", "deferred", "removed"}
  /\ mode \in {"auto", "sequence"} /\ remaining \in BOOLEAN
  /\ fresh \in Read \cup {NoRead}
  /\ reading \in {"none", "preview", "retry", "stepwise", "part", "verify",
                  "finish"}
  /\ unread \subseteq {"plan", "pending"}
  /\ reading # "none" => draft \in Draft
                         /\ ("plan" \notin unread => draft.plan \in Plan)
  /\ reading = "none" => unread = {}
  /\ order \in Order /\ at \in Nat
  /\ status \in {"idle", "running", "failed", "lost", "done"}
  /\ status \in {"running", "failed", "lost"} => at \in DOMAIN order.calls
  /\ receipt \in {"none", "parked", "unindexed"}
  /\ {refused, raced, funded, onTrust} \subseteq BOOLEAN
  /\ {changes, faults} \subseteq Nat

(* "Plan removed" is true: nothing is in the plan and the vault no longer  *)
(* iterates over it, unless a deposit landed since its calls were built or *)
(* no receipt told the outcome (an empty retry, an unreadable receipt).    *)
RemovedIsGone ==
  phase = "removed" /\ ~funded /\ ~onTrust =>
    EmptyPlan(plan) /\ ~plan.indexed

(* The comment of RemoveForm: the plan is removed when it is empty and out *)
(* of the index, and the row is never hidden on trust.                     *)
NeverHiddenOnTrust == phase = "removed" /\ ~funded => ~plan.indexed

(* A call is never sent for a leg the plan does not have, nor a prune      *)
(* behind a leg that was left out, unless somebody else changed the plan   *)
(* since it was read (or its row was behind): what a step reverts for is   *)
(* somebody else's doing.                                                  *)
LegsFit ==
  status = "running" /\ ~raced => Applies(Call)

(* The logs never call a plan gone that the vault still iterates over: it  *)
(* would be charged with no row to remove it from.                         *)
GoneIsUnindexed == live = "gone" => ~plan.indexed

(* No dead end: an owner who stays at the form and keeps pressing gets the *)
(* plan removed, once nothing blocks a leg or keeps a page open.           *)
RemovalEnds ==
  <>[](blocked = {} /\ ~pending) =>
    (phase \in {"preview", "flow", "deferred"} ~> phase \in {"removed", "closed"})

(* Value is never hidden for good: a plan that holds something shows up in *)
(* the list, whatever was removed and whatever the logs say.               *)
ValueShows == ~RowOf(plan).empty ~> RowOf(plan).empty \/ ~HiddenPlan
=============================================================================
