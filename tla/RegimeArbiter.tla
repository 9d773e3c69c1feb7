----------------------------- MODULE RegimeArbiter -----------------------------
(***************************************************************************)
(* src/regime.rs: which regime the condition of the host calls for, and    *)
(* the hysteresis that holds on to the regime chosen before.               *)
(*                                                                         *)
(* The condition vector is floating-point; the arbiter compares it with    *)
(* thresholds, and what is kept here is the band each value falls in.      *)
(* The continuation debt decays by a few percent a sample and grows with   *)
(* every burden: it is a band too, and its next value one of those that    *)
(* the band it is in can lead to.                                          *)
(***************************************************************************)
EXTENDS Integers

CONSTANTS
  MinDwell,          \* min_dwell
  EnoughForAbstain   \* samples before an indecisive margin counts

ASSUME ArbiterAssumption == MinDwell \in Nat \ {0} /\ EnoughForAbstain \in Nat

MemoryRegime == {"Local", "Reanchor", "Evidence", "Abstain", "Quarantine", "Rollback"}

\* local_loss below exit_loss, below enter_loss, up to 0.62, above.
Loss == {"calm", "between", "strained", "broken"}

\* debt up to 0.35, up to 0.8, above.
Debt == {"low", "middle", "high"}

\* What a sample and the state say, as far as the arbiter tells it apart: the loss,
\* whether anything adds to the debt, whether the margin is below 0.12, and
\* whether the session is longer than 200 samples. More than the enter loss is
\* itself a burden, and so is such a margin.
Condition ==
  {c \in [loss : Loss, burdened : BOOLEAN, indecisive : BOOLEAN, long : BOOLEAN] :
     (c.loss \in {"strained", "broken"} \/ c.indecisive) => c.burdened}

Arbiter == [previous : MemoryRegime, dwell : 0 .. MinDwell, debt : Debt]

NewArbiter == [previous |-> "Local", dwell |-> 0, debt |-> "low"]

\* One sample repays less than an eighth of the debt; a burden may add more than half a unit.
NextDebt(debt, burdened) ==
  CASE debt = "low"                   -> IF burdened THEN Debt ELSE {"low"}
    [] debt = "middle"                -> IF burdened THEN Debt ELSE {"low", "middle"}
    [] debt = "high"                  -> {"middle", "high"}

\* estimate_condition: no integrity, and next to no legitimacy.
Broken(authority, failed) == failed \/ authority = "Faulted"

\* The zone of the envelope. Between the thresholds it is what the regime was.
Zone(previous, authority, failed, c) ==
  CASE Broken(authority, failed) \/ c.loss = "broken" -> "Invalid"
    [] ~Broken(authority, failed) /\ c.loss # "broken"
       /\ (c.loss = "strained" \/ authority = "Paused") -> "Uncertain"
    [] ~Broken(authority, failed) /\ authority # "Paused" /\ c.loss = "calm" -> "Admissible"
    [] ~Broken(authority, failed) /\ authority # "Paused" /\ c.loss = "between" ->
         IF previous = "Local" THEN "Admissible" ELSE "Uncertain"

\* The regime the condition calls for. Low legitimacy would call for Quarantine; it
\* never comes without lost integrity, which calls for Rollback before.
Wanted(previous, debt, authority, failed, c, samples) ==
  LET zone == Zone(previous, authority, failed, c) IN
  IF Broken(authority, failed) THEN "Rollback"
  ELSE IF c.indecisive /\ zone # "Admissible" /\ samples >= EnoughForAbstain THEN "Abstain"
  ELSE CASE zone = "Invalid"    -> IF debt = "high" \/ c.long THEN "Evidence" ELSE "Reanchor"
         [] zone = "Uncertain"  -> "Reanchor"
         [] zone = "Admissible" -> "Local"

\* MUTANT of Holds: either condition is enough to return.
HoldsOnlyInDebt(a, wanted, debt) ==
  a.previous # "Local" /\ wanted = "Local" /\ a.dwell < MinDwell /\ debt # "low"

\* The return to Local waits for the dwell and for the debt.
Holds(a, wanted, debt) ==
  a.previous # "Local" /\ wanted = "Local" /\ (a.dwell < MinDwell \/ debt # "low")

\* RegimeArbiter::decide. The regime decided is the arbiter's previous afterwards.
\* Its dwell grows when a regime is wanted again, not when it is held against Local.
Decide(a, wanted, debt) ==
  CASE wanted = a.previous ->
         [a EXCEPT !.debt = debt, !.dwell = IF @ < MinDwell THEN @ + 1 ELSE @]
    [] wanted # a.previous /\ Holds(a, wanted, debt) ->
         [a EXCEPT !.debt = debt]
    [] wanted # a.previous /\ ~Holds(a, wanted, debt) ->
         [previous |-> wanted, dwell |-> 0, debt |-> debt]
================================================================================
