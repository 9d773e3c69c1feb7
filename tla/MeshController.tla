---------------------------- MODULE MeshController ----------------------------
(***************************************************************************)
(* The two actuators of src/governor.rs as functions of their state: the   *)
(* ProcessGovernor, bound to one target, and the MeshController, which     *)
(* writes one level to the processes that press hardest on the host.       *)
(*                                                                         *)
(* Each yields the set of results a call can have: which processes got the *)
(* class of the level (wrote) is up to the system, and so is which writes  *)
(* failed.  A write has two parts, the priority class and the power        *)
(* throttling, and fails if one of them does: one that failed may have     *)
(* changed the class all the same.  Throttling is not modelled.            *)
(* Time is the age of the last change, which stops growing at Dwell.       *)
(***************************************************************************)
EXTENDS PulseController, Sequences

CONSTANTS
  Pid,               \* processes that may be a target or be selected
  NoPid,
  Dwell,             \* minimum_dwell_ms, in loop iterations
  AllowAboveNormal,  \* allow_above_normal_priority
  Budgets            \* mesh targets below 84, 88, 92 percent of memory, and above

ASSUME ActuatorAssumption ==
  /\ NoPid \notin Pid
  /\ Dwell \in Nat \ {0}
  /\ AllowAboveNormal \in BOOLEAN
  /\ Budgets \in [1 .. 4 -> Nat]

Class == {"Below", "Normal", "Above"}

ClassOf(level) ==
  CASE level \in {"Eco", "ThermalProtect"} -> "Below"
    [] level = "Responsive"                -> "Above"
    [] OTHER                               -> "Normal"

Governor == [pid : Pid \cup {NoPid}, applied : QosLevel, since : 0 .. Dwell]

NewGovernor(p) ==
  [pid |-> p, applied |-> IF p = NoPid THEN "MonitorOnly" ELSE "Normal", since |-> Dwell]

EffectiveLevel(level) ==
  IF level = "Responsive" /\ ~AllowAboveNormal THEN "Normal" ELSE level

\* ProcessGovernor::apply: held, written, or failed, with or without the class
\* written. A failure leaves the governor as it was, so that the next call for
\* another level than it believes in tries again.
GovernorResults(g, level) ==
  LET e == EffectiveLevel(level) IN
  IF g.pid = NoPid \/ level = g.applied \/ g.since < Dwell
  THEN {[gov |-> g, wrote |-> {}, failed |-> {}]}
  ELSE {[gov |-> [g EXCEPT !.applied = e, !.since = 0], wrote |-> {g.pid}, failed |-> {}]}
       \cup {[gov |-> g, wrote |-> w, failed |-> {g.pid}] : w \in SUBSET {g.pid}}

\* max_targets_for_ram
MaxTargets(ram) ==
  CASE ram >= 92               -> Budgets[4]
    [] ram >= 88 /\ ram < 92   -> Budgets[3]
    [] ram >= 84 /\ ram < 88   -> Budgets[2]
    [] ram < 84                -> Budgets[1]

\* mesh_eco_ram_threshold: the mesh turns to Eco a little earlier than the controller.
MeshRamThreshold == Clamp(EcoRamEnter - 3, 78, 96)

PreferMeshQos(level, ram) ==
  IF level # "ThermalProtect" /\ ram >= MeshRamThreshold THEN "Eco" ELSE level

\* select_mesh_targets: processes by falling score, as many as the budget allows.
\* Scores move freely, and so does the order.
Selections(ram) ==
  {s \in UNION {[1 .. n -> Pid] : n \in 0 .. MaxTargets(ram)} :
     \A i, j \in DOMAIN s : s[i] = s[j] => i = j}

Chosen(s) == {s[i] : i \in DOMAIN s}

Mesh == [applied : QosLevel, pids : Seq(Pid), since : 0 .. Dwell]
NewMesh == [applied |-> "MonitorOnly", pids |-> <<>>, since |-> Dwell]

\* MUTANT of MeshHolds: only a new level is worth a write.
HoldsItsLevel(m, level, s) == s = <<>> \/ level = m.applied \/ m.since < Dwell

\* No process is above the score floor, or nothing changed since the last write,
\* or it is too recent. The order of the processes counts as a change.
MeshHolds(m, level, s) ==
  s = <<>> \/ (s = m.pids /\ level = m.applied) \/ m.since < Dwell

\* MeshController::step for a level above MonitorOnly and a selection. Processes
\* whose write fails are counted and otherwise taken for written, and nothing is
\* written to processes no longer selected. Those that got the class though their
\* write failed are in wrote with the others: only the count tells them apart, and
\* it is left out.
MeshResults(m, level, s) ==
  IF MeshHolds(m, level, s)
  THEN {[mesh |-> m, wrote |-> {}, refused |-> {}]}
  ELSE {[mesh |-> [applied |-> level, pids |-> s, since |-> 0],
         wrote |-> w, refused |-> Chosen(s) \ w] : w \in SUBSET Chosen(s)}
================================================================================
