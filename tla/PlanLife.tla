------------------------------ MODULE PlanLife ------------------------------
(***************************************************************************)
(* What a vault promises about the life of one plan, without amounts, list *)
(* positions or epochs: a plan that holds anything is listed, it is filled *)
(* only while it is listed, runs and has money, what it gains is a deposit *)
(* or a purchase, and it is taken off the list only empty and while no     *)
(* epoch of its stock is half visited; a plan closed in the middle of one  *)
(* stays listed and paused.                                                *)
(*                                                                         *)
(* PlanVault implements this for each of its plans, and so does the one    *)
(* plan that RemovePlan keeps on its side of the chain.                    *)
(***************************************************************************)
VARIABLES
  listed,    \* the vault iterates over the plan
  paused,    \* the pages of an epoch pass it over
  funds,     \* it holds USDG, idle or lent
  stock,     \* it holds stock nobody has claimed
  open       \* an epoch of its stock has been visited in part

life == <<listed, paused, funds, stock, open>>

HeldIsListed == funds \/ stock => listed

Init == HeldIsListed

(* A deposit, the one that creates the plan included: only then the stock  *)
(* is chosen, whose epoch may be half visited.                             *)
Fund ==
  /\ listed'
  /\ funds => funds'
  /\ UNCHANGED <<paused, stock>>
  /\ listed => UNCHANGED open

(* A visit that buys, and may keep the stock or pay it out at once.        *)
Buy ==
  /\ listed /\ ~paused /\ funds
  /\ stock => stock'
  /\ UNCHANGED <<listed, paused>>

(* Money moves in or out of the lending pool, or out to the owner.         *)
Draw ==
  /\ funds' => funds
  /\ stock' => stock
  /\ UNCHANGED <<listed, paused, open>>

(* Everything is paid out, and the plan leaves as soon as it may.          *)
Close ==
  /\ ~funds' /\ ~stock'
  /\ IF listed /\ open THEN listed' /\ paused'
                       ELSE ~listed' /\ UNCHANGED paused
  /\ UNCHANGED open

Prune ==
  /\ ~funds /\ ~stock /\ ~open
  /\ ~listed'
  /\ UNCHANGED <<paused, funds, stock, open>>

Pause == UNCHANGED <<listed, funds, stock, open>>

(* The epoch goes on elsewhere, ends, or the next one begins.              *)
Turn == UNCHANGED <<listed, paused, funds, stock>>

Next == Fund \/ Buy \/ Draw \/ Close \/ Prune \/ Pause \/ Turn

Spec == Init /\ [][Next]_life
=============================================================================
