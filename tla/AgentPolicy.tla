------------------------------ MODULE AgentPolicy ------------------------------
(***************************************************************************)
(* src/policy.rs and src/adaptive.rs: the directive for the agents on the  *)
(* host, and the bounded change of the controller's gains.                 *)
(*                                                                         *)
(* Percentages, fractions and forecasts are kept as the number of the      *)
(* thresholds they have passed. A directive keeps what differs between     *)
(* its cases; batch size and retrieval depth follow the same cases as      *)
(* concurrency and token budget.                                           *)
(***************************************************************************)
EXTENDS Integers

CONSTANTS
  MaxConcurrency,    \* maximum_concurrency
  MinSamples,        \* minimum_samples_before_adaptation
  Interval,          \* adaptation_interval_samples
  HomeostasisSamples,\* samples before homeostatic slack counts, 8
  AllowBounded,      \* allow_bounded_adaptation
  MaxGain, Step      \* range of a gain, and the most one checkpoint moves it

ASSUME PolicyAssumption ==
  /\ MaxConcurrency \in Nat \ {0}
  /\ MinSamples \in Nat /\ Interval \in Nat \ {0} /\ HomeostasisSamples \in Nat
  /\ AllowBounded \in BOOLEAN
  /\ MaxGain \in Nat /\ Step \in Nat

LearningStage == {"Recorder", "Analytics", "Replay", "Shadow", "BoundedAdaptive", "AgentPolicy"}

\* memory: soft (1), hard (2), half way to critical (3), critical (4).
\* forecast: hold (0), suggest_eco (1), thermal_watch (2), contract_agent (3).
\* want: slack above 0.55 (0), 0.45 (1), 0.30 (2), 0.15 (3), not above it (4).
\* hot: the controller protects, or the GPU is near its limit.
\* stressed: above the setpoint, or a residue. plenty: capacity, stability and an
\* empty queue. steady: flow_stability. room: concurrency by the capacity formula.
Situation ==
  [memory : 0 .. 4, forecast : 0 .. 3, want : 0 .. 4,
   hot : BOOLEAN, stressed : BOOLEAN, plenty : BOOLEAN, steady : BOOLEAN,
   room : 1 .. MaxConcurrency]

Directive ==
  [live : BOOLEAN, background : BOOLEAN, concurrency : 1 .. MaxConcurrency,
   budget : {45, 65, 82, 100}]

Least(a, b) == IF a <= b THEN a ELSE b
Greatest(S) == CHOOSE n \in S : \A m \in S : m <= n

Critical(s) == s.memory >= 4 \/ s.forecast = 3
Protect(s) == s.hot \/ s.memory >= 4
Constrained(s) == Protect(s) \/ s.memory >= 2 \/ s.stressed
Abundant(s, samples) ==
  ~Constrained(s) /\ s.plenty /\ (samples >= HomeostasisSamples => s.want = 0)

\* What memory and forecast leave of a concurrency, and what homeostatic slack leaves.
MemoryCap(s) ==
  CASE Critical(s)                                                -> 1
    [] ~Critical(s) /\ s.memory >= 3                              -> 2
    [] ~Critical(s) /\ s.memory < 3 /\ (s.memory = 2 \/ s.forecast >= 1) -> 4
    [] ~Critical(s) /\ s.memory < 2 /\ s.forecast = 0             -> MaxConcurrency

SlackCap(s, samples) ==
  CASE samples < HomeostasisSamples \/ s.want < 2   -> MaxConcurrency
    [] samples >= HomeostasisSamples /\ s.want = 2  -> 4
    [] samples >= HomeostasisSamples /\ s.want = 3  -> 2
    [] samples >= HomeostasisSamples /\ s.want >= 4 -> 1

Concurrency(s, samples) ==
  IF Protect(s) THEN 1 ELSE Least(s.room, Least(MemoryCap(s), SlackCap(s, samples)))

\* token_budget_scale, in percent.
Budget(s, samples) ==
  CASE Critical(s) \/ Protect(s) \/ s.forecast = 2                -> 45
    [] ~(Critical(s) \/ Protect(s) \/ s.forecast = 2)
       /\ (Constrained(s) \/ s.forecast = 1)                      -> 65
    [] ~(Critical(s) \/ s.forecast \in {1, 2}) /\ Abundant(s, samples) -> 100
    [] OTHER                                                      -> 82

Background(s, samples) ==
  /\ s.forecast = 0 /\ ~Constrained(s)
  /\ Abundant(s, samples) \/ s.steady

\* MUTANT of Live: the stage is enough.
LiveByStage(stage, samples) == stage = "AgentPolicy"

Live(stage, samples) == stage = "AgentPolicy" /\ samples >= MinSamples

\* recommend_with_guard
Recommend(s, samples, stage) ==
  [live        |-> Live(stage, samples),
   background  |-> Background(s, samples),
   concurrency |-> Concurrency(s, samples),
   budget      |-> Budget(s, samples)]

\* MUTANT of Overridden: an abstention or a rollback only shadows, like a re-anchoring.
Shadowed(d, regime) == [d EXCEPT !.live = @ /\ regime = "Local"]

\* The loop's override: every regime but Local shadows the directive, three contract it.
Overridden(d, regime) ==
  CASE regime \in {"Abstain", "Quarantine", "Rollback"} ->
         [d EXCEPT !.live = FALSE, !.background = FALSE, !.concurrency = 1]
    [] regime \in {"Evidence", "Reanchor"} -> [d EXCEPT !.live = FALSE]
    [] regime = "Local" -> d

--------------------------------------------------------------------------------
(* adaptive.rs *)

\* MUTANT of Clamped: the range of the gain is forgotten.
Unclamped(gain) == gain

Clamped(gain) == IF gain < 0 THEN 0 ELSE IF gain > MaxGain THEN MaxGain ELSE gain

\* MUTANT of Checkpoint: any sample after the first ones.
EverySample(samples) == samples >= MinSamples

Checkpoint(samples) == samples >= MinSamples /\ samples % Interval = 0

\* Whether recommend proposes a change, and may apply it.
MayAdapt(stage, samples) ==
  stage = "BoundedAdaptive" /\ AllowBounded /\ Checkpoint(samples)

\* recommend: the gains that the evidence may call for. Which one rests on the
\* prediction error and the stability of the flow.
Suggested(gain, stage, samples) ==
  IF MayAdapt(stage, samples) THEN {Clamped(gain + by) : by \in -Step .. Step} ELSE {gain}
================================================================================
