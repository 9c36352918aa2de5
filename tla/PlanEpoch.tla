----------------------------- MODULE PlanEpoch ------------------------------
(***************************************************************************)
(* What a vault promises about the epochs of its stocks, without pages of  *)
(* bounded size, list positions or a cursor: an epoch visits every plan    *)
(* that is listed, visits none twice, charges a plan at most once, and is  *)
(* over only when nobody waits any more.  A visit may pass a plan over,    *)
(* but not a willing one: a plan that is not paused, was not charged yet,  *)
(* fits under the page cap and has the money at hand.                      *)
(*                                                                         *)
(* An epoch may be cut short by the next one (keepers may be late), and    *)
(* what makes a plan willing may change at any moment.                     *)
(***************************************************************************)
CONSTANTS Plans, Stocks

VARIABLES
  listed,    \* stock -> the plans that take part in its epochs
  phase,     \* stock -> has the current epoch been visited not at all
             \*          ("fresh"), in part ("open") or entirely ("closed")?
  waiting,   \* stock -> the plans the current epoch has still to visit
  charged,   \* the plans the current epoch has charged
  willing    \* the plans a visit may not pass over

vars == <<listed, phase, waiting, charged, willing>>

(* A vault starts in an epoch that charges nobody.                         *)
Init ==
  /\ listed = [s \in Stocks |-> {}]
  /\ phase = [s \in Stocks |-> "closed"]
  /\ waiting = [s \in Stocks |-> {}]
  /\ charged = Plans
  /\ willing = {}

(* A plan joins at any time, and the current epoch too unless that is over.*)
Join(s, p) ==
  /\ \A t \in Stocks : p \notin listed[t]
  /\ listed' = [listed EXCEPT ![s] = @ \cup {p}]
  /\ waiting' = [waiting EXCEPT
       ![s] = IF phase[s] = "closed" THEN @ ELSE @ \cup {p}]
  /\ willing' \in SUBSET Plans
  /\ UNCHANGED <<phase, charged>>

(* A plan leaves between epochs, or before the first visit of one.         *)
Leave(s, p) ==
  /\ p \in listed[s]
  /\ phase[s] # "open"
  /\ listed' = [listed EXCEPT ![s] = @ \ {p}]
  /\ waiting' = [waiting EXCEPT ![s] = @ \ {p}]
  /\ willing' \in SUBSET Plans
  /\ UNCHANGED <<phase, charged>>

(* Some of the waiting plans are visited, and some of these charged.       *)
Visit(s, seen, taken) ==
  /\ seen # {}
  /\ taken \cap charged = {}
  /\ willing \cap seen \subseteq taken
  /\ waiting' = [waiting EXCEPT ![s] = @ \ seen]
  /\ charged' = charged \cup taken
  /\ phase' = [phase EXCEPT
       ![s] = IF waiting[s] = seen THEN "closed" ELSE "open"]
  /\ willing' \in SUBSET Plans
  /\ UNCHANGED listed

NextEpoch ==
  /\ phase' = [s \in Stocks |-> "fresh"]
  /\ waiting' = listed
  /\ charged' = {}
  /\ willing' \in SUBSET Plans
  /\ UNCHANGED listed

(* Money moves, plans and the vault are paused, amounts and caps change.   *)
Turn ==
  /\ willing' \in SUBSET Plans
  /\ UNCHANGED <<listed, phase, waiting, charged>>

Next ==
  \/ \E s \in Stocks, p \in Plans : Join(s, p) \/ Leave(s, p)
  \/ \E s \in Stocks : \E seen \in SUBSET waiting[s] :
       \E taken \in SUBSET seen : Visit(s, seen, taken)
  \/ NextEpoch
  \/ Turn

Spec == Init /\ [][Next]_vars
=============================================================================
