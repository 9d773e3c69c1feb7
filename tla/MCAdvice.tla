-------------------------------- MODULE MCAdvice --------------------------------
(* Small instances of Advice for TLC. *)
EXTENDS Advice

Shows(loss, burdened, indecisive, long, situation) ==
  [condition |-> [loss |-> loss, burdened |-> burdened, indecisive |-> indecisive, long |-> long],
   situation |-> situation]

Headroom ==
  [memory |-> 0, forecast |-> 0, want |-> 0, hot |-> FALSE, stressed |-> FALSE,
   plenty |-> TRUE, steady |-> TRUE, room |-> MaxConcurrency]
Tight == [Headroom EXCEPT !.memory = 3, !.want = 1]

\* A calm host, a burden in the band between the thresholds of the loss, and a broken
\* envelope in a long session whose margin does not decide.
SomeReadings ==
  {Shows("calm", FALSE, FALSE, FALSE, Headroom), Shows("between", TRUE, FALSE, FALSE, Tight),
   Shows("broken", TRUE, TRUE, TRUE, Headroom)}

SomeStages == {"BoundedAdaptive", "AgentPolicy"}
================================================================================
