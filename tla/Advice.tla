-------------------------------- MODULE Advice --------------------------------
(***************************************************************************)
(* What the control loop of src/main.rs advises and adapts: one iteration  *)
(* takes a snapshot of the state, arbitrates a regime, recommends a        *)
(* directive, counts the frame it finalises, may propose a change of the   *)
(* tuning, and writes all of it back, while requests open epochs, change   *)
(* stage and tuning, and fault or relink the target.                       *)
(*                                                                         *)
(* Recording has the frames and files of the same loop, Interlink its      *)
(* authority: here authority is Working, Paused or Faulted, and            *)
(* failed_invariant is set exactly while it is Faulted.  A tuning is one   *)
(* gain.  The count of samples is folded where no threshold or checkpoint  *)
(* tells the folded values apart.                                          *)
(***************************************************************************)
EXTENDS RegimeArbiter, AgentPolicy

CONSTANTS
  Readings,          \* what a sample may show to the arbiter and to the policy
  Stages,            \* learning stages the operator selects
  Tunings            \* gains the operator sets

ASSUME AdviceAssumption ==
  /\ Readings \subseteq [condition : Condition, situation : Situation]
  /\ Stages \subseteq LearningStage
  /\ Tunings \subseteq 0 .. MaxGain

VARIABLES
  authority, stage, samples, tuning,   \* RuntimeState; samples is of its metrics
  directive, regime,                   \* RuntimeState: the last ones published
  epoch_changed, target_changed,       \* revisions differ from the loop's copies
  pc, snap, outcome,                   \* the loop: step, snapshot, what it will publish
  arbiter, counted, pending,           \* the loop: arbiter, analytics, pending frame
  \* history
  evidence,          \* frames finalised since the epoch or the target changed
  age,               \* directives published since the epoch or the target changed
  late,              \* directives published since the fault
  held,              \* consecutive decisions for the present regime, unless Local
  spacing            \* frames finalised since the last adaptive step, or Interval

shared == <<authority, stage, samples, tuning, directive, regime, epoch_changed, target_changed>>
loop == <<pc, snap, outcome, arbiter, counted, pending>>
hist == <<evidence, age, late, held, spacing>>
vars == <<shared, loop, hist>>

Authority == {"Working", "Paused", "Faulted"}

\* Counts above every threshold are told apart by the checkpoint only.
Top == Greatest({MinSamples, HomeostasisSamples, EnoughForAbstain}) + Interval
Counted(n) == IF n < Top THEN n + 1 ELSE n + 1 - Interval
UpTo(n, cap) == IF n < cap THEN n + 1 ELSE cap

NoSnap == [stage |-> "Recorder", samples |-> 0, authority |-> "Working", tuning |-> 0]
Snap == [stage : LearningStage, samples : 0 .. Top, authority : Authority, tuning : 0 .. MaxGain]

NoDirective == [live |-> FALSE, background |-> FALSE, concurrency |-> 1, budget |-> 100]

NoOutcome ==
  [regime |-> "Local", hold |-> FALSE, directive |-> NoDirective, samples |-> 0,
   adapts |-> FALSE, tuning |-> 0]
Outcome ==
  [regime : MemoryRegime, hold : BOOLEAN, directive : Directive, samples : 0 .. Top,
   adapts : BOOLEAN, tuning : 0 .. MaxGain]

Init ==
  /\ authority = "Working"
  /\ stage \in Stages
  /\ samples = 0
  /\ tuning \in Tunings
  /\ directive = NoDirective
  /\ regime = "Local"
  /\ epoch_changed = FALSE
  /\ target_changed = FALSE
  /\ pc = "Snapshot"
  /\ snap = NoSnap
  /\ outcome = NoOutcome
  /\ arbiter = NewArbiter
  /\ counted = 0
  /\ pending = FALSE
  /\ evidence = 0
  /\ age = 0
  /\ late = 0
  /\ held = 1
  /\ spacing = Interval

--------------------------------------------------------------------------------
(* Requests. *)

\* History: the evidence starts over, as the loop's analytics will.
StartOver ==
  /\ evidence' = 0
  /\ age' = 0
  /\ spacing' = Interval

\* The metrics start over; directive and regime stay as published.
BeginNewEpoch ==
  /\ samples' = 0
  /\ epoch_changed' = TRUE
  /\ StartOver

SetStage(s) ==
  /\ s # stage
  /\ stage' = s
  /\ BeginNewEpoch
  /\ UNCHANGED <<authority, tuning, directive, regime, target_changed, loop, late, held>>

SetTuning(gain) ==
  /\ tuning' = gain
  /\ BeginNewEpoch
  /\ UNCHANGED <<authority, stage, directive, regime, target_changed, loop, late, held>>

\* Pause, resume, enable, baseline, reset, session, mode. None of them clears a fault.
OpenEpoch(a) ==
  /\ (a = "Faulted") = (authority = "Faulted")
  /\ authority' = a
  /\ BeginNewEpoch
  /\ UNCHANGED <<stage, tuning, directive, regime, target_changed, loop, late, held>>

\* Connect, mesh and disconnect. They clear a fault; the disconnect of the chat
\* agent opens no epoch.
Relink ==
  /\ authority' = "Working"
  /\ target_changed' = TRUE
  /\ \/ BeginNewEpoch
     \/ StartOver /\ UNCHANGED <<samples, epoch_changed>>
  /\ late' = 0
  /\ UNCHANGED <<stage, tuning, directive, regime, loop, held>>

\* A verification finds another executable.
Fault ==
  /\ authority # "Faulted"
  /\ authority' = "Faulted"
  /\ late' = 0
  /\ UNCHANGED <<stage, samples, tuning, directive, regime, epoch_changed, target_changed,
                 loop, evidence, age, held, spacing>>

--------------------------------------------------------------------------------
(* The control loop. *)

\* The snapshot, and the reset of the analytics when a revision has changed.
Snapshot ==
  /\ pc = "Snapshot"
  /\ snap' = [stage |-> stage, samples |-> samples, authority |-> authority, tuning |-> tuning]
  /\ IF epoch_changed \/ target_changed
     THEN counted' = 0 /\ pending' = FALSE
     ELSE UNCHANGED <<counted, pending>>
  /\ epoch_changed' = FALSE
  /\ target_changed' = FALSE
  /\ pc' = "Advise"
  /\ UNCHANGED <<authority, stage, samples, tuning, directive, regime, outcome, arbiter, hist>>

\* From regime to directive, without the lock but for failed_invariant, which is read
\* here and not in the snapshot. A pending frame is finalised and counted; only then
\* is there a suggestion, for the tuning of the snapshot.
Advise(c, s) ==
  LET count == IF pending THEN Counted(counted) ELSE counted IN
  /\ pc = "Advise"
  /\ counted' = count
  /\ \E debt \in NextDebt(arbiter.debt, c.burdened),
        gain \in IF pending THEN Suggested(snap.tuning, snap.stage, count) ELSE {snap.tuning} :
       LET failed == authority = "Faulted"
           wanted == Wanted(arbiter.previous, debt, snap.authority, failed, c, snap.samples)
           next   == Decide(arbiter, wanted, debt) IN
       /\ arbiter' = next
       /\ outcome' =
            [regime    |-> next.previous,
             hold      |-> next.previous # wanted,
             directive |-> Overridden(Recommend(s, snap.samples, snap.stage), next.previous),
             samples   |-> IF pending THEN count ELSE snap.samples,
             adapts    |-> gain # snap.tuning,
             tuning    |-> gain]
       /\ held' = IF next.previous # arbiter.previous \/ next.previous = "Local" THEN 1
                  ELSE UpTo(held, MinDwell + 2)
  /\ evidence' = IF pending /\ ~epoch_changed /\ ~target_changed THEN UpTo(evidence, MinSamples) ELSE evidence
  /\ spacing' = IF pending THEN UpTo(spacing, Interval) ELSE spacing
  /\ pending' = TRUE
  /\ pc' = "WriteBack"
  /\ snap' = NoSnap
  /\ UNCHANGED <<shared, age, late>>

\* Everything is published, whatever epoch it is by now. The loop itself may find
\* the target gone or the verification expired.
WriteBack ==
  /\ pc = "WriteBack"
  /\ authority' \in IF authority = "Working" THEN {"Working", "Faulted"} ELSE {authority}
  /\ directive' = outcome.directive
  /\ regime' = outcome.regime
  /\ samples' = outcome.samples
  /\ tuning' = IF outcome.adapts THEN outcome.tuning ELSE tuning
  /\ spacing' = IF outcome.adapts THEN 0 ELSE spacing
  /\ age' = UpTo(age, 4)
  /\ late' = IF authority = "Faulted" THEN UpTo(late, 2) ELSE 0
  /\ pc' = "Snapshot"
  /\ outcome' = NoOutcome
  /\ UNCHANGED <<stage, epoch_changed, target_changed, snap, arbiter, counted, pending,
                 evidence, held>>

Next ==
  \/ \E s \in Stages : SetStage(s)
  \/ \E gain \in Tunings : SetTuning(gain)
  \/ \E a \in Authority : OpenEpoch(a)
  \/ Relink
  \/ Fault
  \/ Snapshot
  \/ \E r \in Readings : Advise(r.condition, r.situation)
  \/ WriteBack

Spec == Init /\ [][Next]_vars

--------------------------------------------------------------------------------
(* Properties. *)

SharedOK ==
  /\ authority \in Authority
  /\ stage \in LearningStage
  /\ samples \in 0 .. Top
  /\ tuning \in 0 .. MaxGain
  /\ directive \in Directive
  /\ regime \in MemoryRegime
  /\ epoch_changed \in BOOLEAN /\ target_changed \in BOOLEAN

LoopOK ==
  /\ pc \in {"Snapshot", "Advise", "WriteBack"}
  /\ snap \in Snap
  /\ outcome \in Outcome
  /\ arbiter \in Arbiter
  /\ counted \in 0 .. Top
  /\ pending \in BOOLEAN

HistoryOK ==
  /\ evidence \in 0 .. MinSamples
  /\ age \in 0 .. 4
  /\ late \in 0 .. 2
  /\ held \in 1 .. MinDwell + 2
  /\ spacing \in 0 .. Interval

\* Every variable has its type; gains, counts and concurrency stay in their ranges.
TypeOK == SharedOK /\ LoopOK /\ HistoryOK

\* From the second directive published after a fault on, wherever in an iteration
\* the fault fell, until the link is renewed: shadowed, serial, no background work
\* (main.rs:452-508, 595-632).
FaultContracts ==
  (authority = "Faulted" /\ late = 2) =>
    /\ regime = "Rollback"
    /\ ~directive.live /\ ~directive.background /\ directive.concurrency = 1

\* The metrics an iteration took from before an epoch, and wrote back after it was
\* opened, carry a live directive through no more than three publications, unless the
\* target changes again; later a live directive has the evidence of its own epoch, target
\* and stage (main.rs:222, 527-537, 629-632).
StaleEvidenceIsShortLived ==
  (directive.live /\ age = 4) => evidence = MinSamples /\ stage = "AgentPolicy"

\* The return to Local waits until one other regime was decided more often than the
\* dwell, whatever was wanted in between (regime.rs:255-282).
ReturnToLocalWaits ==
  [][(arbiter.previous # "Local" /\ arbiter'.previous = "Local") => held > MinDwell]_vars

\* The loop changes the tuning in the bounded-adaptive stage only, by no more than
\* one step from what it is, and not again before an interval of finalised frames;
\* but for the write of an iteration during which the epoch or the target changed
\* (adaptive.rs:11-110, main.rs:573-578, 650-657).
AdaptationIsPaced ==
  [][(pc = "WriteBack" /\ pc' = "Snapshot" /\ tuning' # tuning
      /\ ~epoch_changed /\ ~target_changed) =>
       /\ stage = "BoundedAdaptive" /\ AllowBounded
       /\ tuning' - tuning \in -Step .. Step
       /\ spacing = Interval /\ evidence >= MinSamples]_vars

\* What regime.rs:132 and docs/GCMT_PULSEFLOW_EVOLUTION.md:121 say and the code does
\* not keep: without debt, a regime is held against Local for the dwell only.
HoldEndsWithDwell ==
  (outcome.hold /\ arbiter.debt = "low") => held <= MinDwell + 1
================================================================================
