------------------------------ MODULE BudgetLock ------------------------------
(***************************************************************************)
(* What the quote and budget lock promises, without statements, calls or   *)
(* crashes: a quote is held at most once, holding it fits the limit the    *)
(* holder was given, and from then on it goes only forwards.  A released   *)
(* quote is never held again, and a spent one never gives its budget back. *)
(* What a mission has spent or holds reserved is one counter, which only   *)
(* holding and giving back move.                                           *)
(***************************************************************************)
EXTENDS Integers

CONSTANTS Missions, Providers, Amounts, Limits

VARIABLES
  budget,    \* the budget last given to each mission
  stage,     \* the stage of each quote
  held,      \* the units each quote holds, once it has been held
  exposure   \* the units each mission has spent or holds reserved

vars == <<budget, stage, held, exposure>>

Keys == Missions \X Providers

Init ==
  /\ budget = [m \in Missions |-> -1]
  /\ stage = [k \in Keys |-> "free"]
  /\ held = [k \in Keys |-> 0]
  /\ exposure = [m \in Missions |-> 0]

Hold(k, a, l) ==
  /\ stage[k] = "free"
  /\ exposure[k[1]] + a <= l
  /\ stage' = [stage EXCEPT ![k] = "held"]
  /\ held' = [held EXCEPT ![k] = a]
  /\ exposure' = [exposure EXCEPT ![k[1]] = @ + a]
  /\ budget' = [budget EXCEPT ![k[1]] = l]

GiveBack(k) ==
  /\ stage[k] = "held"
  /\ stage' = [stage EXCEPT ![k] = "released"]
  /\ exposure' = [exposure EXCEPT ![k[1]] = @ - held[k]]
  /\ UNCHANGED <<budget, held>>

Spend(k) ==
  /\ stage[k] = "held"
  /\ stage' = [stage EXCEPT ![k] = "spent"]
  /\ UNCHANGED <<budget, held, exposure>>

Contest(k) ==
  /\ stage[k] \in {"held", "spent"}
  /\ stage' = [stage EXCEPT ![k] = "disputed"]
  /\ UNCHANGED <<budget, held, exposure>>

SetBudget(m, b) ==
  /\ budget' = [budget EXCEPT ![m] = b]
  /\ UNCHANGED <<stage, held, exposure>>

Next ==
  \/ \E k \in Keys, a \in Amounts, l \in Limits : Hold(k, a, l)
  \/ \E k \in Keys : GiveBack(k) \/ Spend(k) \/ Contest(k)
  \/ \E m \in Missions, b \in Limits : SetBudget(m, b)

Spec == Init /\ [][Next]_vars
=============================================================================
