---------------------------- MODULE OrderedSteps ----------------------------
(***************************************************************************)
(* What a multi-transaction flow of the web application promises, whatever *)
(* happens to its prompts, hashes and receipts: its steps run on chain in  *)
(* the order of the list, each at most once, and it reports itself         *)
(* complete only when nothing of the list is left.  A flow may stop at any *)
(* point, and what is left may be planned anew, of steps that did not run. *)
(*                                                                         *)
(* TxSequence (hooks/useTx.ts) implements this.                            *)
(***************************************************************************)
EXTENDS Sequences, Integers

CONSTANTS Lists,     \* the lists of steps a flow may be started with
          Tails      \* the lists the rest of a flow may be replaced by

VARIABLES todo,      \* steps of the flow that have not run, in order
          ran,       \* steps of the flow that ran on chain, in order
          complete   \* the flow is reported complete

flow == <<todo, ran, complete>>

Init == todo = <<>> /\ ran = <<>> /\ complete = FALSE

(* A new flow is started.                                                  *)
Start(list) == todo' = list /\ ran' = <<>> /\ complete' = FALSE

(* The first step that is left runs on chain.                              *)
Execute ==
  /\ todo # <<>> /\ ~complete
  /\ ran' = Append(ran, Head(todo))
  /\ todo' = Tail(todo)
  /\ UNCHANGED complete

(* The steps that are left are replaced, by none of those that ran.        *)
Replan(tail) ==
  /\ ~complete
  /\ \A k \in DOMAIN tail, i \in DOMAIN ran : tail[k] # ran[i]
  /\ todo' = tail
  /\ complete' = (tail = <<>>)
  /\ UNCHANGED ran

Complete == todo = <<>> /\ complete' = TRUE /\ UNCHANGED <<todo, ran>>

(* The flow is given up, or put away when complete.                        *)
Leave == todo' = <<>> /\ ran' = <<>> /\ complete' = FALSE

Next ==
  \/ \E list \in Lists : Start(list)
  \/ Execute
  \/ \E tail \in Tails : Replan(tail)
  \/ Complete
  \/ Leave

Spec == Init /\ [][Next]_flow
=============================================================================
