----------------------------- MODULE AdviceProofs -----------------------------
(***************************************************************************)
(* Theorems about Advice: for every dwell, interval and number of samples, *)
(* every range of the gain and every set of readings.                      *)
(***************************************************************************)
EXTENDS Advice, TLAPS

--------------------------------------------------------------------------------
(* Remainders, from the division that defines them. *)

LEMMA Division ==
  ASSUME NEW n \in Nat, NEW k \in Nat \ {0}
  PROVE  n \div k \in Nat /\ n % k \in 0 .. k - 1 /\ n = k * (n \div k) + (n % k)
  OBVIOUS

LEMMA NoMultiple ==
  ASSUME NEW d \in Int, NEW k \in Nat \ {0}, d * k \in 1 - k .. k - 1
  PROVE  d = 0
  OBVIOUS

LEMMA Remainder ==
  ASSUME NEW n \in Nat, NEW k \in Nat \ {0}, NEW q \in Int, NEW r \in 0 .. k - 1, n = k * q + r
  PROVE  n % k = r
<1> DEFINE d == (n \div k) - q
           s == n % k
<1>1. n \div k \in Nat /\ s \in 0 .. k - 1 /\ n = k * (n \div k) + s
  BY Division
<1>2. d \in Int /\ d * k = r - s
  BY <1>1
<1>3. r - s \in 1 - k .. k - 1
  BY <1>1
<1> HIDE DEF d, s
<1>4. d = 0
  BY <1>2, <1>3, NoMultiple
<1>5. r - s = 0
  BY <1>2, <1>4
<1> QED
  BY <1>1, <1>5 DEF s

LEMMA NextModulo ==
  ASSUME NEW n \in Nat, NEW k \in Nat \ {0}, (n % k) + 1 < k
  PROVE  (n + 1) % k = (n % k) + 1
<1> DEFINE q == n \div k
           s == n % k
<1>1. q \in Nat /\ s \in 0 .. k - 1 /\ n = k * q + s /\ s + 1 < k
  BY Division
<1> HIDE DEF q, s
<1>2. n + 1 \in Nat /\ s + 1 \in 0 .. k - 1 /\ n + 1 = k * q + (s + 1)
  BY <1>1
<1>3. (n + 1) % k = s + 1
  BY <1>1, <1>2, Remainder
<1> QED
  BY <1>3 DEF s

LEMMA LessModulo ==
  ASSUME NEW n \in Nat, NEW k \in Nat \ {0}, n >= k
  PROVE  (n - k) % k = n % k
<1> DEFINE q == n \div k
           s == n % k
<1>1. q \in Nat /\ s \in 0 .. k - 1 /\ n = k * q + s
  BY Division
<1> HIDE DEF q, s
<1>2. n - k \in Nat /\ q - 1 \in Int /\ n - k = k * (q - 1) + s
  BY <1>1
<1>3. (n - k) % k = s
  BY <1>1, <1>2, Remainder
<1> QED
  BY <1>3 DEF s

USE AdviceAssumption, PolicyAssumption, ArbiterAssumption

--------------------------------------------------------------------------------
(* What arbiter and policy return. *)

LEMMA GreatestOf ==
  ASSUME NEW a \in Nat, NEW b \in Nat, NEW c \in Nat
  PROVE  /\ Greatest({a, b, c}) \in {a, b, c}
         /\ \A m \in {a, b, c} : m <= Greatest({a, b, c})
<1>1. \E n \in {a, b, c} : \A m \in {a, b, c} : m <= n
  <2>1. CASE a >= b /\ a >= c
    BY <2>1
  <2>2. CASE b >= a /\ b >= c
    BY <2>2
  <2>3. CASE c >= a /\ c >= b
    BY <2>3
  <2> QED
    BY <2>1, <2>2, <2>3
<1> QED
  BY <1>1 DEF Greatest

LEMMA TopIsHigh ==
  /\ Top \in Nat /\ Top - Interval \in Nat
  /\ MinSamples <= Top - Interval
<1> DEFINE g == Greatest({MinSamples, HomeostasisSamples, EnoughForAbstain})
<1>1. g \in Nat /\ MinSamples <= g
  BY GreatestOf
<1>2. Top = g + Interval
  BY DEF Top
<1> HIDE DEF g
<1> QED
  BY <1>1, <1>2

\* Folding keeps a count in its range, and above the threshold of the evidence.
LEMMA CountedInRange ==
  ASSUME NEW n \in 0 .. Top
  PROVE  /\ Counted(n) \in 0 .. Top
         /\ Counted(n) = n + 1 \/ (n = Top /\ Counted(n) > MinSamples)
<1>1. CASE n < Top
  BY <1>1, TopIsHigh DEF Counted
<1>2. CASE ~(n < Top)
  <2>1. n = Top /\ Counted(n) = n + 1 - Interval
    BY <1>2, TopIsHigh DEF Counted
  <2> QED
    BY <2>1, TopIsHigh
<1> QED
  BY <1>1, <1>2

LEMMA DebtsAreDebts ==
  ASSUME NEW debt \in Debt, NEW burdened \in BOOLEAN
  PROVE  NextDebt(debt, burdened) \subseteq Debt
  BY DEF NextDebt, Debt

LEMMA ZoneIsZone ==
  ASSUME NEW previous, NEW a, NEW failed, NEW c \in Condition
  PROVE  Zone(previous, a, failed, c) \in {"Invalid", "Uncertain", "Admissible"}
<1>1. c.loss \in {"calm", "between", "strained", "broken"}
  BY DEF Condition, Loss
<1>2. CASE Broken(a, failed) \/ c.loss = "broken"
  BY <1>2 DEF Zone
<1>3. CASE ~Broken(a, failed) /\ c.loss # "broken" /\ (c.loss = "strained" \/ a = "Paused")
  BY <1>3 DEF Zone
<1>4. CASE ~Broken(a, failed) /\ a # "Paused" /\ c.loss = "calm"
  BY <1>4 DEF Zone
<1>5. CASE ~Broken(a, failed) /\ a # "Paused" /\ c.loss = "between"
  BY <1>5 DEF Zone
<1> QED
  BY <1>1, <1>2, <1>3, <1>4, <1>5

LEMMA WantedIsRegime ==
  ASSUME NEW previous, NEW debt, NEW a, NEW failed, NEW c \in Condition, NEW n
  PROVE  /\ Wanted(previous, debt, a, failed, c, n) \in MemoryRegime
         /\ Broken(a, failed) => Wanted(previous, debt, a, failed, c, n) = "Rollback"
<1> DEFINE zone == Zone(previous, a, failed, c)
<1>1. zone \in {"Invalid", "Uncertain", "Admissible"}
  BY ZoneIsZone
<1>2. CASE Broken(a, failed)
  BY <1>2 DEF Wanted, MemoryRegime
<1>3. CASE ~Broken(a, failed) /\ c.indecisive /\ zone # "Admissible" /\ n >= EnoughForAbstain
  BY <1>3 DEF Wanted, MemoryRegime
<1>4. CASE ~Broken(a, failed) /\ ~(c.indecisive /\ zone # "Admissible" /\ n >= EnoughForAbstain)
  BY <1>1, <1>4 DEF Wanted, MemoryRegime
<1> QED
  BY <1>2, <1>3, <1>4

LEMMA Decided ==
  ASSUME NEW a \in Arbiter, NEW wanted \in MemoryRegime, NEW debt \in Debt
  PROVE  /\ Decide(a, wanted, debt) \in Arbiter
         /\ wanted # "Local" => Decide(a, wanted, debt).previous = wanted
         /\ \/ /\ Decide(a, wanted, debt).previous = a.previous
               /\ Decide(a, wanted, debt).dwell \in {a.dwell, a.dwell + 1}
            \/ /\ Decide(a, wanted, debt).previous # a.previous
               /\ Decide(a, wanted, debt).dwell = 0
               /\ ~Holds(a, wanted, debt) /\ Decide(a, wanted, debt).previous = wanted
<1>1. a.previous \in MemoryRegime /\ a.dwell \in 0 .. MinDwell /\ a.debt \in Debt
  BY DEF Arbiter
<1>2. CASE wanted = a.previous
  <2> DEFINE dwell == IF a.dwell < MinDwell THEN a.dwell + 1 ELSE a.dwell
  <2>1. dwell \in 0 .. MinDwell /\ dwell \in {a.dwell, a.dwell + 1}
    BY <1>1
  <2>2. Decide(a, wanted, debt) = [a EXCEPT !.debt = debt, !.dwell = dwell]
    BY <1>2 DEF Decide
  <2> HIDE DEF dwell
  <2> QED
    BY <1>1, <1>2, <2>1, <2>2 DEF Arbiter
<1>3. CASE wanted # a.previous /\ Holds(a, wanted, debt)
  <2>1. Decide(a, wanted, debt) = [a EXCEPT !.debt = debt] /\ wanted = "Local"
    BY <1>3 DEF Decide, Holds
  <2> QED
    BY <1>1, <2>1 DEF Arbiter
<1>4. CASE wanted # a.previous /\ ~Holds(a, wanted, debt)
  <2>1. Decide(a, wanted, debt) = [previous |-> wanted, dwell |-> 0, debt |-> debt]
    BY <1>4 DEF Decide
  <2> QED
    BY <1>1, <1>4, <2>1 DEF Arbiter
<1> QED
  BY <1>2, <1>3, <1>4

LEMMA ConcurrencyInRange ==
  ASSUME NEW s \in Situation, NEW n \in Nat
  PROVE  Concurrency(s, n) \in 1 .. MaxConcurrency
<1>1. s.room \in 1 .. MaxConcurrency /\ s.memory \in 0 .. 4 /\ s.forecast \in 0 .. 3 /\ s.want \in 0 .. 4
  BY DEF Situation
<1>2. MemoryCap(s) \in {1, 2, 4, MaxConcurrency}
  <2>1. CASE Critical(s)
    BY <2>1 DEF MemoryCap
  <2>2. CASE ~Critical(s) /\ s.memory >= 3
    BY <2>2 DEF MemoryCap
  <2>3. CASE ~Critical(s) /\ s.memory < 3 /\ (s.memory = 2 \/ s.forecast >= 1)
    BY <2>3 DEF MemoryCap
  <2>4. CASE ~Critical(s) /\ s.memory < 2 /\ s.forecast = 0
    BY <2>4 DEF MemoryCap
  <2> QED
    BY <1>1, <2>1, <2>2, <2>3, <2>4
<1>3. SlackCap(s, n) \in {1, 2, 4, MaxConcurrency}
  <2>1. CASE n < HomeostasisSamples \/ s.want < 2
    BY <2>1 DEF SlackCap
  <2>2. CASE n >= HomeostasisSamples /\ s.want = 2
    BY <2>2 DEF SlackCap
  <2>3. CASE n >= HomeostasisSamples /\ s.want = 3
    BY <2>3 DEF SlackCap
  <2>4. CASE n >= HomeostasisSamples /\ s.want >= 4
    BY <2>4 DEF SlackCap
  <2> QED
    BY <1>1, <2>1, <2>2, <2>3, <2>4
<1> QED
  BY <1>1, <1>2, <1>3 DEF Concurrency, Least

LEMMA RecommendationIsDirective ==
  ASSUME NEW s \in Situation, NEW n \in Nat, NEW stage_of, NEW r \in MemoryRegime
  PROVE  /\ Overridden(Recommend(s, n, stage_of), r) \in Directive
         /\ Overridden(Recommend(s, n, stage_of), r).live => stage_of = "AgentPolicy" /\ n >= MinSamples
         /\ r = "Rollback" =>
              /\ ~Overridden(Recommend(s, n, stage_of), r).live
              /\ ~Overridden(Recommend(s, n, stage_of), r).background
              /\ Overridden(Recommend(s, n, stage_of), r).concurrency = 1
<1> DEFINE d == Recommend(s, n, stage_of)
<1>1. Live(stage_of, n) \in BOOLEAN /\ Background(s, n) \in BOOLEAN /\ Budget(s, n) \in {45, 65, 82, 100}
  BY DEF Live, Background, Budget
<1>2. d \in Directive
  BY <1>1, ConcurrencyInRange DEF Recommend, Directive
<1>3. d.live => stage_of = "AgentPolicy" /\ n >= MinSamples
  BY DEF Recommend, Live
<1>4. 1 \in 1 .. MaxConcurrency
  OBVIOUS
<1> HIDE DEF d
<1>5. CASE r \in {"Abstain", "Quarantine", "Rollback"}
  <2>1. Overridden(d, r) = [d EXCEPT !.live = FALSE, !.background = FALSE, !.concurrency = 1]
    BY <1>5 DEF Overridden
  <2> QED
    BY <1>2, <1>4, <2>1 DEF Directive, d
<1>6. CASE r \in {"Evidence", "Reanchor"}
  <2>1. Overridden(d, r) = [d EXCEPT !.live = FALSE]
    BY <1>6 DEF Overridden
  <2> QED
    BY <1>2, <1>6, <2>1 DEF Directive, d
<1>7. CASE r = "Local"
  <2>1. Overridden(d, r) = d
    BY <1>7 DEF Overridden
  <2> QED
    BY <1>2, <1>3, <1>7, <2>1 DEF d
<1> QED
  BY <1>5, <1>6, <1>7 DEF MemoryRegime

LEMMA SuggestionsAreGains ==
  ASSUME NEW gain \in 0 .. MaxGain, NEW stage_of, NEW n
  PROVE  Suggested(gain, stage_of, n) \subseteq 0 .. MaxGain
<1>1. \A by \in -Step .. Step : Clamped(gain + by) \in 0 .. MaxGain
  BY DEF Clamped
<1> QED
  BY <1>1 DEF Suggested

--------------------------------------------------------------------------------
(* Type correctness. *)

LEMMA UpToInRange ==
  ASSUME NEW cap \in Nat, NEW n \in 0 .. cap
  PROVE  /\ UpTo(n, cap) \in 0 .. cap /\ UpTo(n, cap) >= n
         /\ UpTo(n, cap) = n + 1 \/ (n = cap /\ UpTo(n, cap) = cap)
  BY DEF UpTo

\* What Advise works out, by the names its definition uses.
LEMMA Advised ==
  ASSUME TypeOK, NEW c \in Condition, NEW s \in Situation, Advise(c, s)
  PROVE  /\ arbiter' \in Arbiter /\ outcome' \in Outcome
         /\ outcome'.regime = arbiter'.previous
         /\ outcome'.directive.live => snap.stage = "AgentPolicy" /\ snap.samples >= MinSamples
         /\ outcome'.samples = IF pending THEN counted' ELSE snap.samples
         /\ authority = "Faulted" =>
              /\ outcome'.regime = "Rollback" /\ ~outcome'.directive.live
              /\ ~outcome'.directive.background /\ outcome'.directive.concurrency = 1
         /\ \/ arbiter'.previous = arbiter.previous /\ arbiter'.dwell \in {arbiter.dwell, arbiter.dwell + 1}
            \/ /\ arbiter'.previous # arbiter.previous /\ arbiter'.dwell = 0
               /\ arbiter'.previous = "Local" => arbiter.dwell >= MinDwell
<1> DEFINE count == IF pending THEN Counted(counted) ELSE counted
           failed == authority = "Faulted"
<1>1. PICK debt \in NextDebt(arbiter.debt, c.burdened),
           gain \in IF pending THEN Suggested(snap.tuning, snap.stage, count) ELSE {snap.tuning} :
        LET wanted == Wanted(arbiter.previous, debt, snap.authority, failed, c, snap.samples)
            next   == Decide(arbiter, wanted, debt) IN
        /\ arbiter' = next
        /\ outcome' =
             [regime    |-> next.previous,
              hold      |-> next.previous # wanted,
              directive |-> Overridden(Recommend(s, snap.samples, snap.stage), next.previous),
              samples   |-> IF pending THEN count ELSE snap.samples,
              adapts    |-> gain # snap.tuning,
              tuning    |-> gain]
  BY DEF Advise
<1> DEFINE wanted == Wanted(arbiter.previous, debt, snap.authority, failed, c, snap.samples)
           next   == Decide(arbiter, wanted, debt)
           d      == Overridden(Recommend(s, snap.samples, snap.stage), next.previous)
<1>2. /\ arbiter \in Arbiter /\ arbiter.previous \in MemoryRegime /\ arbiter.debt \in Debt
      /\ arbiter.dwell \in 0 .. MinDwell
      /\ snap \in Snap /\ snap.samples \in 0 .. Top /\ snap.tuning \in 0 .. MaxGain
      /\ counted \in 0 .. Top /\ c.burdened \in BOOLEAN
  BY DEF TypeOK, LoopOK, Arbiter, Snap, Condition
<1>3. debt \in Debt
  BY <1>2, DebtsAreDebts
<1>4. gain \in 0 .. MaxGain
  BY <1>2, SuggestionsAreGains
<1>5. wanted \in MemoryRegime /\ (authority = "Faulted" => wanted = "Rollback")
  <2>1. /\ wanted \in MemoryRegime
        /\ Broken(snap.authority, failed) => wanted = "Rollback"
    BY WantedIsRegime
  <2>2. authority = "Faulted" => Broken(snap.authority, failed)
    BY DEF Broken
  <2> HIDE DEF wanted, failed
  <2> QED
    BY <2>1, <2>2
<1>6. /\ next \in Arbiter
      /\ wanted # "Local" => next.previous = wanted
      /\ \/ next.previous = arbiter.previous /\ next.dwell \in {arbiter.dwell, arbiter.dwell + 1}
         \/ /\ next.previous # arbiter.previous /\ next.dwell = 0
            /\ ~Holds(arbiter, wanted, debt) /\ next.previous = wanted
  BY <1>2, <1>3, <1>5, Decided
<1>7. next.previous \in MemoryRegime /\ (next.previous # wanted) \in BOOLEAN
  BY <1>6 DEF Arbiter
<1>8. /\ d \in Directive
      /\ d.live => snap.stage = "AgentPolicy" /\ snap.samples >= MinSamples
      /\ next.previous = "Rollback" => ~d.live /\ ~d.background /\ d.concurrency = 1
  <2>1. snap.samples \in Nat
    BY <1>2
  <2> QED
    BY <1>7, <2>1, RecommendationIsDirective
<1>9. count \in 0 .. Top
  BY <1>2, CountedInRange
<1>10. counted' = count
  BY DEF Advise
<1>11. arbiter' = next
       /\ outcome' = [regime |-> next.previous, hold |-> next.previous # wanted, directive |-> d,
                      samples |-> IF pending THEN count ELSE snap.samples,
                      adapts |-> gain # snap.tuning, tuning |-> gain]
  BY <1>1
<1>12. next.previous # arbiter.previous /\ next.previous = "Local" => arbiter.dwell >= MinDwell
  BY <1>2, <1>6 DEF Holds
<1> HIDE DEF count, wanted, next, d, failed
<1>13. outcome' \in Outcome
  BY <1>2, <1>4, <1>7, <1>8, <1>9, <1>11 DEF Outcome
<1>14. authority = "Faulted" => next.previous = "Rollback"
  BY <1>5, <1>6
<1> QED
  BY <1>6, <1>8, <1>10, <1>11, <1>12, <1>13, <1>14

LEMMA InitialTypes == Init => TypeOK
<1> SUFFICES ASSUME Init PROVE TypeOK
  OBVIOUS
<1>1. 0 \in 0 .. Top /\ 0 \in 0 .. MaxGain /\ 1 \in 1 .. MaxConcurrency
      /\ 0 \in 0 .. MinDwell /\ 1 \in 1 .. MinDwell + 2 /\ Interval \in 0 .. Interval
      /\ 0 \in 0 .. MinSamples
  BY TopIsHigh
<1>2. NoDirective \in Directive
  BY <1>1 DEF NoDirective, Directive
<1>3. NoSnap \in Snap
  BY <1>1 DEF NoSnap, Snap, LearningStage, Authority
<1>4. NoOutcome \in Outcome
  BY <1>1, <1>2 DEF NoOutcome, Outcome, MemoryRegime
<1>5. NewArbiter \in Arbiter
  BY <1>1 DEF NewArbiter, Arbiter, MemoryRegime, Debt
<1>6. stage \in LearningStage /\ tuning \in 0 .. MaxGain
  BY DEF Init
<1>7. SharedOK
  BY <1>1, <1>2, <1>6 DEF Init, SharedOK, Authority, MemoryRegime
<1>8. LoopOK
  BY <1>1, <1>3, <1>4, <1>5 DEF Init, LoopOK
<1>9. HistoryOK
  BY <1>1 DEF Init, HistoryOK
<1> QED
  BY <1>7, <1>8, <1>9 DEF TypeOK

LEMMA StepTypes == TypeOK /\ [Next]_vars => TypeOK'
<1> SUFFICES ASSUME TypeOK, [Next]_vars PROVE TypeOK'
  OBVIOUS
<1>0. 0 \in 0 .. Top /\ 0 \in 0 .. MinSamples /\ Interval \in 0 .. Interval /\ 0 \in 0 .. Interval
  BY TopIsHigh
<1> USE DEF TypeOK, SharedOK, LoopOK, HistoryOK, shared, loop, hist
<1>1. ASSUME NEW s \in Stages, SetStage(s) PROVE TypeOK'
  BY <1>0, <1>1 DEF SetStage, BeginNewEpoch, StartOver
<1>2. ASSUME NEW gain \in Tunings, SetTuning(gain) PROVE TypeOK'
  BY <1>0, <1>2 DEF SetTuning, BeginNewEpoch, StartOver
<1>3. ASSUME NEW a \in Authority, OpenEpoch(a) PROVE TypeOK'
  BY <1>0, <1>3 DEF OpenEpoch, BeginNewEpoch, StartOver
<1>4. CASE Relink
  <2>1. /\ samples' \in 0 .. Top /\ epoch_changed' \in BOOLEAN /\ evidence' = 0 /\ age' = 0
        /\ spacing' = Interval
    BY <1>0, <1>4 DEF Relink, BeginNewEpoch, StartOver
  <2>2. authority' = "Working" /\ target_changed' = TRUE /\ late' = 0
        /\ UNCHANGED <<stage, tuning, directive, regime, loop, held>>
    BY <1>4 DEF Relink
  <2> QED
    BY <1>0, <2>1, <2>2 DEF Authority
<1>5. CASE Fault
  BY <1>5 DEF Fault, Authority
<1>6. CASE Snapshot
  <2>1. snap' \in Snap
    BY <1>6 DEF Snapshot, Snap
  <2>2. counted' \in 0 .. Top /\ pending' \in BOOLEAN
    BY <1>0, <1>6 DEF Snapshot
  <2> QED
    BY <1>6, <2>1, <2>2 DEF Snapshot
<1>7. ASSUME NEW c \in Condition, NEW s \in Situation, Advise(c, s) PROVE TypeOK'
  <2>1. arbiter' \in Arbiter /\ outcome' \in Outcome
    BY <1>7, Advised
  <2>2. counted' \in 0 .. Top
    BY <1>7, CountedInRange DEF Advise
  <2>3. evidence' \in 0 .. MinSamples /\ spacing' \in 0 .. Interval
    BY <1>7, UpToInRange DEF Advise
  <2>4. held' \in 1 .. MinDwell + 2
    <3>1. held' = 1 \/ held' = UpTo(held, MinDwell + 2)
      BY <1>7 DEF Advise
    <3> QED
      BY <3>1 DEF UpTo
  <2>5. snap' \in Snap
    BY <1>0, <1>7 DEF Advise, NoSnap, Snap, LearningStage, Authority
  <2> QED
    BY <1>7, <2>1, <2>2, <2>3, <2>4, <2>5 DEF Advise
<1>8. CASE WriteBack
  <2>1. /\ outcome.directive \in Directive /\ outcome.regime \in MemoryRegime
        /\ outcome.samples \in 0 .. Top /\ outcome.tuning \in 0 .. MaxGain
    BY DEF Outcome
  <2>2. NoOutcome \in Outcome
    BY <1>0 DEF NoOutcome, NoDirective, Outcome, Directive, MemoryRegime
  <2>3. age' \in 0 .. 4 /\ late' \in 0 .. 2 /\ spacing' \in 0 .. Interval
    BY <1>8 DEF WriteBack, UpTo
  <2> QED
    BY <1>8, <2>1, <2>2, <2>3 DEF WriteBack, Authority
<1>9. CASE UNCHANGED vars
  BY <1>9 DEF vars
<1>10. ASSUME NEW r \in Readings, Advise(r.condition, r.situation) PROVE TypeOK'
  <2>1. r.condition \in Condition /\ r.situation \in Situation
    OBVIOUS
  <2> QED
    BY <1>7, <1>10, <2>1
<1> QED
  BY <1>1, <1>2, <1>3, <1>4, <1>5, <1>6, <1>8, <1>9, <1>10 DEF Next

\* Type correctness: gains stay in their range, concurrency between 1 and its maximum,
\* the dwell below its minimum, for every dwell, interval and number of samples.
THEOREM TypeCorrect == Spec => []TypeOK
  BY InitialTypes, StepTypes, PTL DEF Spec

--------------------------------------------------------------------------------
(* A fault contracts the directive. *)

\* What is worked out after a publication that followed the fault is contracted, and
\* so is what was published after it.
Contracted ==
  authority = "Faulted" /\ late >= 1 /\ pc = "WriteBack" =>
    /\ outcome.regime = "Rollback"
    /\ ~outcome.directive.live /\ ~outcome.directive.background /\ outcome.directive.concurrency = 1

LEMMA ContractedStep ==
  TypeOK /\ Contracted /\ FaultContracts /\ [Next]_vars => Contracted' /\ FaultContracts'
<1> SUFFICES ASSUME TypeOK, Contracted, FaultContracts, [Next]_vars
             PROVE  Contracted' /\ FaultContracts'
  OBVIOUS
<1>0. late \in 0 .. 2
  BY DEF TypeOK, HistoryOK
<1>1. CASE UNCHANGED <<authority, directive, regime, pc, outcome, late>>
  BY <1>1 DEF Contracted, FaultContracts
<1>2. CASE \/ \E s \in Stages : SetStage(s)
           \/ \E gain \in Tunings : SetTuning(gain)
  BY <1>1, <1>2 DEF SetStage, SetTuning, loop
<1>3. ASSUME NEW a \in Authority, OpenEpoch(a) PROVE Contracted' /\ FaultContracts'
  <2>1. (authority' = "Faulted") = (authority = "Faulted")
        /\ UNCHANGED <<directive, regime, pc, outcome, late>>
    BY <1>3 DEF OpenEpoch, loop
  <2> QED
    BY <2>1 DEF Contracted, FaultContracts
<1>4. CASE Relink \/ Fault
  <2>1. late' = 0
    BY <1>4 DEF Relink, Fault
  <2> QED
    BY <2>1 DEF Contracted, FaultContracts
<1>5. CASE Snapshot
  BY <1>5 DEF Snapshot, hist, Contracted, FaultContracts
<1>6. ASSUME NEW r \in Readings, Advise(r.condition, r.situation) PROVE Contracted' /\ FaultContracts'
  <2>1. r.condition \in Condition /\ r.situation \in Situation
    OBVIOUS
  <2>2. authority = "Faulted" =>
          /\ outcome'.regime = "Rollback" /\ ~outcome'.directive.live
          /\ ~outcome'.directive.background /\ outcome'.directive.concurrency = 1
    BY <1>6, <2>1, Advised
  <2>3. UNCHANGED <<authority, directive, regime, late>>
    BY <1>6 DEF Advise, shared
  <2> QED
    BY <2>2, <2>3 DEF Contracted, FaultContracts
<1>7. CASE WriteBack
  <2>1. /\ pc = "WriteBack" /\ pc' = "Snapshot"
        /\ directive' = outcome.directive /\ regime' = outcome.regime
        /\ late' = IF authority = "Faulted" THEN UpTo(late, 2) ELSE 0
    BY <1>7 DEF WriteBack
  <2>2. late' = 2 => authority = "Faulted" /\ late >= 1
    BY <1>0, <2>1 DEF UpTo
  <2> QED
    BY <2>1, <2>2 DEF Contracted, FaultContracts
<1>8. CASE UNCHANGED vars
  BY <1>1, <1>8 DEF vars, shared, loop, hist
<1> QED
  BY <1>2, <1>3, <1>4, <1>5, <1>6, <1>7, <1>8 DEF Next

\* From the second directive published after a fault on, whichever step of an iteration
\* the fault fell between, the regime is Rollback and the directive shadowed, serial
\* and without background work, until the link is renewed (main.rs:452-508, 595-632).
THEOREM FaultIsContracted == Spec => []FaultContracts
<1>1. Init => Contracted /\ FaultContracts
  BY DEF Init, Contracted, FaultContracts
<1> QED
  BY <1>1, ContractedStep, TypeCorrect, PTL DEF Spec

--------------------------------------------------------------------------------
(* A regime is held for its dwell. *)

\* The decisions counted for a regime are more than its dwell.
Dwelt == arbiter.previous # "Local" => held > arbiter.dwell

ReturnWaits == arbiter.previous # "Local" /\ arbiter'.previous = "Local" => held > MinDwell

LEMMA DweltStep == TypeOK /\ Dwelt /\ [Next]_vars => Dwelt' /\ ReturnWaits
<1> SUFFICES ASSUME TypeOK, Dwelt, [Next]_vars PROVE Dwelt' /\ ReturnWaits
  OBVIOUS
<1>1. CASE UNCHANGED <<arbiter, held>>
  BY <1>1 DEF Dwelt, ReturnWaits
<1>2. ASSUME NEW r \in Readings, Advise(r.condition, r.situation) PROVE Dwelt' /\ ReturnWaits
  <2>1. r.condition \in Condition /\ r.situation \in Situation
    OBVIOUS
  <2>2. /\ arbiter' \in Arbiter
        /\ \/ arbiter'.previous = arbiter.previous /\ arbiter'.dwell \in {arbiter.dwell, arbiter.dwell + 1}
           \/ /\ arbiter'.previous # arbiter.previous /\ arbiter'.dwell = 0
              /\ arbiter'.previous = "Local" => arbiter.dwell >= MinDwell
    BY <1>2, <2>1, Advised
  <2>3. /\ arbiter.dwell \in 0 .. MinDwell /\ arbiter'.dwell \in 0 .. MinDwell
        /\ held \in 1 .. MinDwell + 2
    BY <2>2 DEF TypeOK, LoopOK, HistoryOK, Arbiter
  <2>4. held' = IF arbiter'.previous # arbiter.previous \/ arbiter'.previous = "Local" THEN 1
                ELSE UpTo(held, MinDwell + 2)
    <3>1. outcome'.regime = arbiter'.previous
      BY <1>2, <2>1, Advised
    <3> QED
      BY <1>2 DEF Advise
  <2>5. Dwelt'
    <3>1. CASE arbiter'.previous # arbiter.previous
      BY <2>2, <2>3, <2>4, <3>1 DEF Dwelt
    <3>2. CASE arbiter'.previous = arbiter.previous
      BY <2>2, <2>3, <2>4, <3>2 DEF Dwelt, UpTo
    <3> QED
      BY <3>1, <3>2
  <2>6. ReturnWaits
    BY <2>2, <2>3 DEF Dwelt, ReturnWaits
  <2> QED
    BY <2>5, <2>6
<1>3. CASE \/ \E s \in Stages : SetStage(s)
           \/ \E gain \in Tunings : SetTuning(gain)
           \/ \E a \in Authority : OpenEpoch(a)
           \/ Relink \/ Fault \/ Snapshot \/ WriteBack \/ UNCHANGED vars
  BY <1>1, <1>3 DEF SetStage, SetTuning, OpenEpoch, Relink, Fault, Snapshot, WriteBack, loop, hist, vars
<1> QED
  BY <1>2, <1>3 DEF Next

\* The return to Local waits until one other regime was decided more often than the
\* dwell, for every dwell and whatever the debt does (regime.rs:255-282).
THEOREM ReturnIsDelayed == Spec => ReturnToLocalWaits
<1>1. Init => Dwelt
  BY DEF Init, Dwelt, NewArbiter
<1>2. TypeOK /\ Dwelt /\ [Next]_vars =>
        [(arbiter.previous # "Local" /\ arbiter'.previous = "Local") => held > MinDwell]_vars
  BY DweltStep DEF ReturnWaits
<1> QED
  BY <1>1, <1>2, DweltStep, TypeCorrect, PTL DEF Spec, ReturnToLocalWaits

--------------------------------------------------------------------------------
(* A live directive rests on evidence of its own epoch. *)

\* Until the loop has seen that the epoch or the target changed it publishes once.
\* Afterwards its count is one of frames since the change; the second publication
\* brings it into the metrics, and the snapshots from the third on are of it.
Changed == epoch_changed \/ target_changed
Unseen == Changed => age <= 1 /\ (pc # "Snapshot" => age = 0)
Evident == ~Changed => evidence = MinSamples \/ counted <= evidence
BeforeSnapshot ==
  ~Changed /\ pc = "Snapshot" => (pending \/ age <= 1) /\ (age >= 3 => samples = counted)
BeforeAdvice ==
  ~Changed /\ pc = "Advise" =>
    snap.stage = stage /\ (pending \/ age <= 1) /\ (age >= 3 => snap.samples = counted)
BeforeWriteBack ==
  ~Changed /\ pc = "WriteBack" =>
    /\ pending
    /\ age >= 2 => outcome.samples = counted
    /\ age >= 3 /\ outcome.directive.live => evidence = MinSamples /\ stage = "AgentPolicy"
Traced ==
  Unseen /\ Evident /\ BeforeSnapshot /\ BeforeAdvice /\ BeforeWriteBack /\ StaleEvidenceIsShortLived

LEMMA TracedAdvice ==
  ASSUME TypeOK, Traced, NEW c \in Condition, NEW s \in Situation, Advise(c, s)
  PROVE  Traced'
<1>0. /\ counted \in 0 .. Top /\ evidence \in 0 .. MinSamples /\ age \in 0 .. 4 /\ pending \in BOOLEAN
      /\ snap.samples \in Nat
  BY DEF TypeOK, LoopOK, HistoryOK, Snap
<1>1. /\ pc = "Advise" /\ pc' = "WriteBack" /\ pending' = TRUE
      /\ UNCHANGED <<epoch_changed, target_changed, age, stage, directive, samples>>
      /\ counted' = IF pending THEN Counted(counted) ELSE counted
      /\ evidence' = IF pending /\ ~Changed THEN UpTo(evidence, MinSamples) ELSE evidence
  BY DEF Advise, shared, Changed
<1>2. /\ outcome'.directive.live => snap.stage = "AgentPolicy" /\ snap.samples >= MinSamples
      /\ outcome'.samples = IF pending THEN counted' ELSE snap.samples
  BY Advised
<1>3. Changed' <=> Changed
  BY <1>1 DEF Changed
<1>4. Unseen'
  BY <1>1, <1>3 DEF Traced, Unseen
<1>5. evidence = MinSamples => evidence' = MinSamples
  BY <1>0, <1>1 DEF UpTo
<1>6. Evident'
  <2> SUFFICES ASSUME ~Changed, evidence # MinSamples PROVE evidence' = MinSamples \/ counted' <= evidence'
    BY <1>3, <1>5 DEF Evident
  <2>1. counted <= evidence /\ evidence < MinSamples
    BY <1>0 DEF Traced, Evident
  <2>2. CASE pending
    <3>1. counted # Top
      BY <1>0, <2>1, TopIsHigh
    <3>2. counted' = counted + 1 /\ evidence' = evidence + 1
      BY <1>0, <1>1, <2>1, <2>2, <3>1, CountedInRange DEF UpTo
    <3> QED
      BY <1>0, <2>1, <3>2
  <2>3. CASE ~pending
    BY <1>1, <2>1, <2>3
  <2> QED
    BY <2>2, <2>3
<1>7. BeforeWriteBack'
  <2> SUFFICES ASSUME ~Changed PROVE BeforeWriteBack'
    BY <1>3 DEF BeforeWriteBack
  <2>1. snap.stage = stage /\ (pending \/ age <= 1) /\ (age >= 3 => snap.samples = counted)
    BY <1>1 DEF Traced, BeforeAdvice
  <2>2. age >= 2 => outcome'.samples = counted'
    BY <1>0, <1>2, <2>1
  <2>3. ASSUME age >= 3, outcome'.directive.live
        PROVE  evidence' = MinSamples /\ stage = "AgentPolicy"
    <3>1. counted >= MinSamples /\ stage = "AgentPolicy"
      BY <1>2, <2>1, <2>3
    <3>2. evidence = MinSamples
      BY <1>0, <3>1 DEF Traced, Evident
    <3> QED
      BY <1>5, <3>1, <3>2
  <2> QED
    BY <1>1, <2>2, <2>3 DEF BeforeWriteBack
<1>8. BeforeSnapshot' /\ BeforeAdvice'
  BY <1>1 DEF BeforeSnapshot, BeforeAdvice
<1>9. StaleEvidenceIsShortLived'
  BY <1>1, <1>5 DEF Traced, StaleEvidenceIsShortLived
<1> QED
  BY <1>4, <1>6, <1>7, <1>8, <1>9 DEF Traced

LEMMA TracedStep == TypeOK /\ Traced /\ [Next]_vars => Traced'
<1> SUFFICES ASSUME TypeOK, Traced, [Next]_vars PROVE Traced'
  OBVIOUS
<1>0. age \in 0 .. 4 /\ counted \in 0 .. Top /\ evidence \in 0 .. MinSamples
  BY DEF TypeOK, LoopOK, HistoryOK
<1> USE DEF Traced, Unseen, Evident, BeforeSnapshot, BeforeAdvice, BeforeWriteBack, Changed,
            StaleEvidenceIsShortLived
\* A change starts the count of publications over.
<1>1. ASSUME Changed', age' = 0 PROVE Traced'
  BY <1>1
<1>2. CASE \/ \E s \in Stages : SetStage(s)
           \/ \E gain \in Tunings : SetTuning(gain)
           \/ \E a \in Authority : OpenEpoch(a)
           \/ Relink
  BY <1>1, <1>2 DEF SetStage, SetTuning, OpenEpoch, Relink, BeginNewEpoch, StartOver
<1>3. CASE Fault
  BY <1>3 DEF Fault, loop
<1>4. CASE Snapshot
  <2>1. /\ pc = "Snapshot" /\ pc' = "Advise" /\ ~Changed'
        /\ snap'.stage = stage /\ snap'.samples = samples
        /\ UNCHANGED <<stage, evidence, age, directive>>
    BY <1>4 DEF Snapshot, hist
  <2>2. CASE Changed
    <3>1. counted' = 0 /\ age <= 1
      BY <1>4, <2>1, <2>2 DEF Snapshot
    <3> QED
      BY <1>0, <2>1, <3>1
  <2>3. CASE ~Changed
    <3>1. UNCHANGED <<counted, pending>>
      BY <1>4, <2>3 DEF Snapshot
    <3> QED
      BY <2>1, <2>3, <3>1
  <2> QED
    BY <2>2, <2>3
<1>5. ASSUME NEW r \in Readings, Advise(r.condition, r.situation) PROVE Traced'
  <2>1. r.condition \in Condition /\ r.situation \in Situation
    OBVIOUS
  <2> QED
    BY <1>5, <2>1, TracedAdvice
<1>6. CASE WriteBack
  <2>1. /\ pc = "WriteBack" /\ pc' = "Snapshot"
        /\ directive' = outcome.directive /\ samples' = outcome.samples
        /\ UNCHANGED <<stage, epoch_changed, target_changed, counted, pending, evidence>>
    BY <1>6 DEF WriteBack
  <2>2. age' = UpTo(age, 4) /\ age' \in 0 .. 4 /\ (age = 0 => age' = 1)
        /\ (age' >= 3 => age >= 2) /\ (age' >= 4 => age >= 3)
    BY <1>0, <1>6 DEF WriteBack, UpTo
  <2>3. CASE Changed
    BY <2>1, <2>2, <2>3
  <2>4. CASE ~Changed
    BY <2>1, <2>2, <2>4
  <2> QED
    BY <2>3, <2>4
<1>7. CASE UNCHANGED vars
  BY <1>7 DEF vars, shared, loop, hist
<1> QED
  BY <1>2, <1>3, <1>4, <1>5, <1>6, <1>7 DEF Next

LEMMA TracedInitially == Init => Traced
<1> SUFFICES ASSUME Init PROVE Traced
  OBVIOUS
<1>1. /\ age = 0 /\ counted = 0 /\ evidence = 0 /\ pc = "Snapshot" /\ ~Changed
  BY DEF Init, Changed
<1> QED
  BY <1>1 DEF Traced, Unseen, Evident, BeforeSnapshot, BeforeAdvice, BeforeWriteBack,
              StaleEvidenceIsShortLived

\* What a live directive rests on is at most three publications behind the epoch and
\* the target: later, as many frames of theirs were finalised as the stage asks for,
\* for every threshold (main.rs:222, 527-537, 629-632).
THEOREM EvidenceIsFresh == Spec => []StaleEvidenceIsShortLived
<1>1. Traced => StaleEvidenceIsShortLived
  BY DEF Traced
<1> QED
  BY <1>1, TracedInitially, TracedStep, TypeCorrect, PTL DEF Spec

--------------------------------------------------------------------------------
(* The tuning is adapted in small steps with an interval between them. *)

\* While the epoch is the loop's, the frames since the last step are the count of
\* samples behind its last checkpoint; a step that is not published yet is one from the
\* tuning it will change, at a checkpoint. A change of epoch or target starts over,
\* but for a step of an iteration that had not seen it.
Spaced ==
  /\ Changed => spacing = Interval \/ (pc = "Snapshot" /\ spacing = 0)
  /\ ~Changed /\ spacing < Interval => counted % Interval = spacing
Current == ~Changed /\ pc = "Advise" => snap.tuning = tuning /\ snap.stage = stage
Measured ==
  ~Changed /\ pc = "WriteBack" /\ outcome.adapts =>
    /\ MayAdapt(stage, counted)
    /\ outcome.tuning - tuning \in -Step .. Step
    /\ spacing > 0
Paced == Spaced /\ Current /\ Measured

\* Folding the count leaves its distance to the checkpoints.
LEMMA CountedModulo ==
  ASSUME NEW n \in 0 .. Top, (n % Interval) + 1 < Interval
  PROVE  Counted(n) % Interval = (n % Interval) + 1
<1>0. n \in Nat /\ n + 1 \in Nat /\ Interval \in Nat \ {0}
  BY TopIsHigh
<1>1. (n + 1) % Interval = (n % Interval) + 1
  BY <1>0, NextModulo
<1>2. n + 1 >= Interval => (n + 1 - Interval) % Interval = (n + 1) % Interval
  <2> DEFINE m == n + 1
  <2> SUFFICES ASSUME m >= Interval PROVE (m - Interval) % Interval = m % Interval
    OBVIOUS
  <2>1. m \in Nat
    BY <1>0
  <2> HIDE DEF m
  <2> QED
    BY <1>0, <2>1, LessModulo
<1>3. ~(n < Top) => n + 1 >= Interval
  BY TopIsHigh
<1> QED
  BY <1>1, <1>2, <1>3 DEF Counted

LEMMA SuggestionIsSmall ==
  ASSUME NEW gain \in 0 .. MaxGain, NEW stage_of, NEW n, NEW next \in Suggested(gain, stage_of, n)
  PROVE  /\ next # gain => MayAdapt(stage_of, n)
         /\ next - gain \in -Step .. Step
<1>1. ASSUME NEW by \in -Step .. Step PROVE Clamped(gain + by) - gain \in -Step .. Step
  BY DEF Clamped
<1>2. CASE MayAdapt(stage_of, n)
  BY <1>1, <1>2 DEF Suggested
<1>3. CASE ~MayAdapt(stage_of, n)
  BY <1>3 DEF Suggested
<1> QED
  BY <1>2, <1>3

\* What an iteration proposes is a step from the tuning and stage of its snapshot, and
\* only where it finalises a frame.
LEMMA Proposed ==
  ASSUME TypeOK, NEW c \in Condition, NEW s \in Situation, Advise(c, s)
  PROVE  /\ counted' = IF pending THEN Counted(counted) ELSE counted
         /\ outcome'.adapts => pending /\ MayAdapt(snap.stage, counted')
         /\ outcome'.tuning - snap.tuning \in -Step .. Step
<1> DEFINE count == IF pending THEN Counted(counted) ELSE counted
<1>1. PICK gain \in IF pending THEN Suggested(snap.tuning, snap.stage, count) ELSE {snap.tuning} :
        outcome'.adapts = (gain # snap.tuning) /\ outcome'.tuning = gain
  BY DEF Advise
<1>2. snap.tuning \in 0 .. MaxGain
  BY DEF TypeOK, LoopOK, Snap
<1>3. counted' = count
  BY DEF Advise
<1> HIDE DEF count
<1>4. CASE pending
  BY <1>1, <1>2, <1>3, <1>4, SuggestionIsSmall DEF count
<1>5. CASE ~pending
  <2>1. gain = snap.tuning /\ ~outcome'.adapts
    BY <1>1, <1>5
  <2>2. 0 \in -Step .. Step
    OBVIOUS
  <2>3. outcome'.tuning - snap.tuning = 0
    BY <1>1, <1>2, <2>1
  <2> QED
    BY <1>3, <2>1, <2>2, <2>3 DEF count
<1> QED
  BY <1>4, <1>5

LEMMA PacedAdvice ==
  ASSUME TypeOK, Paced, NEW c \in Condition, NEW s \in Situation, Advise(c, s)
  PROVE  Paced'
<1>0. /\ counted \in 0 .. Top /\ spacing \in 0 .. Interval /\ pending \in BOOLEAN
      /\ tuning \in 0 .. MaxGain /\ snap.tuning \in 0 .. MaxGain
  BY DEF TypeOK, SharedOK, LoopOK, HistoryOK, Snap
<1>1. /\ pc = "Advise" /\ pc' = "WriteBack"
      /\ UNCHANGED <<epoch_changed, target_changed, stage, tuning>>
      /\ spacing' = IF pending THEN UpTo(spacing, Interval) ELSE spacing
  BY DEF Advise, shared
<1>2. Changed' <=> Changed
  BY <1>1 DEF Changed
<1>3. Spaced'
  <2>1. CASE Changed
    BY <1>0, <1>1, <1>2, <2>1 DEF Paced, Spaced, UpTo
  <2>2. CASE ~Changed /\ pending
    <3> SUFFICES ASSUME spacing' < Interval PROVE counted' % Interval = spacing'
      BY <1>2, <2>2 DEF Spaced
    <3>1. spacing + 1 < Interval /\ spacing' = spacing + 1
      BY <1>0, <1>1, <2>2 DEF UpTo
    <3>2. counted % Interval = spacing
      BY <1>0, <2>2, <3>1 DEF Paced, Spaced
    <3> QED
      BY <1>0, <2>2, <3>1, <3>2, CountedModulo, Proposed
  <2>3. CASE ~Changed /\ ~pending
    BY <1>1, <1>2, <2>3, Proposed DEF Paced, Spaced
  <2> QED
    BY <2>1, <2>2, <2>3
<1>4. Current'
  BY <1>1 DEF Current
<1>5. Measured'
  <2> SUFFICES ASSUME ~Changed, outcome'.adapts
               PROVE  MayAdapt(stage, counted') /\ outcome'.tuning - tuning \in -Step .. Step /\ spacing' > 0
    BY <1>1, <1>2 DEF Measured
  <2>1. snap.tuning = tuning /\ snap.stage = stage
    BY <1>1 DEF Paced, Current
  <2>2. spacing' > 0
    BY <1>0, <1>1, Proposed DEF UpTo
  <2> QED
    BY <2>1, <2>2, Proposed
<1> QED
  BY <1>3, <1>4, <1>5 DEF Paced

PacedWrite ==
  pc = "WriteBack" /\ pc' = "Snapshot" /\ tuning' # tuning /\ ~Changed =>
    /\ stage = "BoundedAdaptive" /\ AllowBounded
    /\ tuning' - tuning \in -Step .. Step
    /\ spacing = Interval /\ evidence >= MinSamples

LEMMA PacedStep == TypeOK /\ Paced /\ Evident /\ [Next]_vars => Paced' /\ PacedWrite
<1> SUFFICES ASSUME TypeOK, Paced, Evident, [Next]_vars PROVE Paced' /\ PacedWrite
  OBVIOUS
<1>0. /\ counted \in 0 .. Top /\ spacing \in 0 .. Interval /\ evidence \in 0 .. MinSamples
      /\ tuning \in 0 .. MaxGain
  BY DEF TypeOK, SharedOK, LoopOK, HistoryOK
<1>1. ASSUME Changed', spacing' = Interval PROVE Paced'
  BY <1>0, <1>1 DEF Paced, Spaced, Current, Measured
<1>2. CASE \/ \E s \in Stages : SetStage(s)
           \/ \E gain \in Tunings : SetTuning(gain)
           \/ \E a \in Authority : OpenEpoch(a)
           \/ Relink
  <2>1. Changed' /\ spacing' = Interval /\ pc' = pc
    BY <1>2 DEF SetStage, SetTuning, OpenEpoch, Relink, BeginNewEpoch, StartOver, loop, Changed
  <2> QED
    BY <1>1, <2>1 DEF PacedWrite
<1>3. CASE Fault
  BY <1>3 DEF Fault, loop, Paced, Spaced, Current, Measured, Changed, PacedWrite
<1>4. CASE Snapshot
  <2>1. /\ pc = "Snapshot" /\ pc' = "Advise" /\ ~Changed'
        /\ snap'.stage = stage /\ snap'.tuning = tuning
        /\ UNCHANGED <<stage, tuning, spacing>>
    BY <1>4 DEF Snapshot, hist, Changed
  <2>2. spacing' < Interval => counted' % Interval = spacing'
    <3>1. CASE Changed
      BY <1>0, <1>4, <2>1, <3>1 DEF Snapshot, Changed, Paced, Spaced
    <3>2. CASE ~Changed
      BY <1>4, <2>1, <3>2 DEF Snapshot, Changed, Paced, Spaced
    <3> QED
      BY <3>1, <3>2
  <2> QED
    BY <2>1, <2>2 DEF Paced, Spaced, Current, Measured, PacedWrite
<1>5. ASSUME NEW r \in Readings, Advise(r.condition, r.situation) PROVE Paced' /\ PacedWrite
  <2>1. r.condition \in Condition /\ r.situation \in Situation
    OBVIOUS
  <2>2. pc = "Advise"
    BY <1>5 DEF Advise
  <2> QED
    BY <1>5, <2>1, <2>2, PacedAdvice DEF PacedWrite
<1>6. CASE WriteBack
  <2>1. /\ pc = "WriteBack" /\ pc' = "Snapshot"
        /\ tuning' = IF outcome.adapts THEN outcome.tuning ELSE tuning
        /\ spacing' = IF outcome.adapts THEN 0 ELSE spacing
        /\ UNCHANGED <<stage, epoch_changed, target_changed, counted, evidence>>
    BY <1>6 DEF WriteBack
  <2>2. Changed' <=> Changed
    BY <2>1 DEF Changed
  <2>3. ~Changed /\ outcome.adapts =>
          /\ counted % Interval = 0 /\ counted >= MinSamples /\ spacing > 0
          /\ stage = "BoundedAdaptive" /\ AllowBounded
          /\ outcome.tuning - tuning \in -Step .. Step
    BY <2>1 DEF Paced, Measured, MayAdapt, Checkpoint
  <2>4. Paced'
    BY <1>0, <2>1, <2>2, <2>3 DEF Paced, Spaced, Current, Measured
  <2>5. PacedWrite
    <3> SUFFICES ASSUME ~Changed, outcome.adapts
                 PROVE  spacing = Interval /\ evidence >= MinSamples
      BY <2>1, <2>3 DEF PacedWrite
    <3>1. spacing = Interval
      BY <1>0, <2>3 DEF Paced, Spaced
    <3>2. evidence >= MinSamples
      BY <1>0, <2>3 DEF Evident
    <3> QED
      BY <3>1, <3>2
  <2> QED
    BY <2>4, <2>5
<1>7. CASE UNCHANGED vars
  BY <1>7 DEF vars, shared, loop, hist, Paced, Spaced, Current, Measured, Changed, PacedWrite
<1> QED
  BY <1>2, <1>3, <1>4, <1>5, <1>6, <1>7 DEF Next

\* The loop changes the tuning only in the bounded-adaptive stage, by at most one step,
\* and not again before an interval of finalised frames, for every interval and range
\* of the gain; the write of an iteration that a change of epoch or target overtook is
\* excepted (adaptive.rs:11-110, main.rs:573-578, 650-657).
THEOREM StepsArePaced == Spec => AdaptationIsPaced
<1>1. Init => Paced
  BY DEF Init, Paced, Spaced, Current, Measured, Changed
<1>2. TypeOK /\ Paced /\ Evident /\ [Next]_vars =>
        [(pc = "WriteBack" /\ pc' = "Snapshot" /\ tuning' # tuning
          /\ ~epoch_changed /\ ~target_changed) =>
           /\ stage = "BoundedAdaptive" /\ AllowBounded
           /\ tuning' - tuning \in -Step .. Step
           /\ spacing = Interval /\ evidence >= MinSamples]_vars
  BY PacedStep DEF PacedWrite, Changed
<1>3. Traced => Evident
  BY DEF Traced
<1> QED
  BY <1>1, <1>2, <1>3, PacedStep, TracedInitially, TracedStep, TypeCorrect, PTL
     DEF Spec, AdaptationIsPaced

================================================================================
