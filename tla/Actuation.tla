------------------------------- MODULE Actuation -------------------------------
(***************************************************************************)
(* How a QoS level comes about and reaches the processes: one iteration of *)
(* the control loop of src/main.rs with its controller, its governor and   *)
(* its mesh controller, while requests change what is governed.            *)
(*                                                                         *)
(* The loop acts on a snapshot, and nothing but the loop writes to the     *)
(* processes, so that an iteration is one action here; what can go wrong   *)
(* between its steps is in Interlink.  Whether the snapshot permits active *)
(* governance (effective_active) depends on authority, liveness and the    *)
(* age of the receipt: here it may be so in every iteration with a scope.  *)
(* Processes do not exit here; a write may fail at any time, half way too. *)
(***************************************************************************)
EXTENDS MeshController

CONSTANTS
  Host,              \* the scope of the mesh
  Temps,             \* GPU temperatures a sample may have, NoReading among them
  Rams,              \* percentages of memory a sample may have
  Modes              \* operating modes the operator may choose

ASSUME ActuationAssumption ==
  /\ Host \notin Pid \cup {NoPid}
  /\ Temps \subseteq Int \cup {NoReading}
  /\ Rams \subseteq Int
  /\ Modes \subseteq OperatingMode

VARIABLES
  scope,             \* what RuntimeState names as governed: a process, the host, nothing
  target_changed,    \* target_revision differs from the loop's copy
  epoch_changed,     \* reset_revision differs from the loop's copy
  controller, gov, mesh_controller, last_mesh_mode,  \* locals of the loop
  qos,               \* the priority class of every process
  \* history
  waiting,           \* class each process is asked for and does not have, and how long
  mistaken,          \* the governor took its process over in another class than Normal,
                     \* or its last write to it failed half way
  faulty,            \* processes whose last write failed
  hot,               \* the guard was reached and the release threshold not since
  forgot,            \* the controller started over while hot
  left               \* samples since Eco was left because of the capacity

requests == <<scope, target_changed, epoch_changed>>
loop == <<controller, gov, mesh_controller, last_mesh_mode>>
hist == <<waiting, mistaken, faulty, hot, forgot, left>>
vars == <<requests, loop, qos, hist>>

Scope == Pid \cup {NoPid, Host}
TargetOf(s) == IF s = Host THEN NoPid ELSE s
MonitorOnly(s) == TargetOf(s) = NoPid

Content == [class |-> "none", time |-> 0]
Wait == [class : Class \cup {"none"}, time : 0 .. Dwell]

Init ==
  /\ scope \in Pid \cup {NoPid}
  /\ target_changed = FALSE
  /\ epoch_changed = FALSE
  /\ controller = NewController(MonitorOnly(scope))
  /\ gov = NewGovernor(scope)
  /\ mesh_controller = NewMesh
  /\ last_mesh_mode = FALSE
  /\ qos = [p \in Pid |-> "Normal"]
  /\ waiting = [p \in Pid |-> Content]
  /\ mistaken = FALSE
  /\ faulty = {}
  /\ hot = FALSE
  /\ forgot = FALSE
  /\ left = FullCapacity

--------------------------------------------------------------------------------
(* Requests. *)

\* Connect, mesh, disconnect. All but the disconnect of the chat agent open an epoch.
Retarget(s) ==
  /\ scope' = s
  /\ target_changed' = TRUE
  /\ epoch_changed' \in {epoch_changed, TRUE}
  /\ UNCHANGED <<loop, qos, hist>>

\* A new epoch, whatever opens it: enable, baseline, reset, session, mode, stage, tuning.
OpenEpoch ==
  /\ epoch_changed' = TRUE
  /\ UNCHANGED <<scope, target_changed, loop, qos, hist>>

--------------------------------------------------------------------------------
(* The control loop. *)

\* What the loop starts an iteration with, after it has looked at the revisions
\* and at the edges of mesh mode.
CurrentController ==
  IF epoch_changed THEN ResetController(controller, MonitorOnly(scope))
  ELSE IF target_changed THEN NewController(MonitorOnly(scope))
  ELSE controller

Older(age) == IF age < Dwell THEN age + 1 ELSE Dwell

CurrentGovernor ==
  IF target_changed THEN NewGovernor(TargetOf(scope))
  ELSE [gov EXCEPT !.since = Older(@)]

CurrentMesh ==
  IF (scope = Host) # last_mesh_mode THEN NewMesh
  ELSE [mesh_controller EXCEPT !.since = Older(@)]

\* History: who is asked for a class it does not have, and for how long it has been.
\* A write that failed excuses.
Await(class, whom) ==
  waiting' =
    [p \in Pid |->
       IF p \notin whom \/ qos'[p] = class \/ p \in faulty'
       THEN Content
       ELSE [class |-> class,
             time  |-> IF waiting[p].class = class THEN Older(waiting[p].time) ELSE 0]]

\* History: what the reading and the step say of heat and of Eco.
Observe(temp) ==
  LET raised  == hot \/ (temp # NoReading /\ temp >= Guard)
      cooled  == temp # NoReading /\ temp <= Release
      renewed == target_changed \/ epoch_changed
      before  == CurrentController IN
  /\ hot' = (raised /\ ~cooled)
  /\ forgot' = (hot' /\ (forgot \/ (hot /\ renewed)) /\ ~(temp # NoReading /\ temp >= Guard))
  /\ left' = IF renewed THEN FullCapacity
             ELSE IF before.level \in {"Eco", "ThermalProtect"} /\ controller'.level = "Normal"
             THEN 0
             ELSE IF left < FullCapacity THEN left + 1 ELSE FullCapacity

\* The level is the one that the governor, mistaken, believes in, and holds.
Deceived == mistaken' /\ controller'.level = gov'.applied

\* The target is asked for the controller's level, or to be as it was when
\* governance is not active; the call happens whether or not it is.
GovernProcess ==
  LET level == controller'.level
      found == IF target_changed THEN scope # NoPid /\ qos[scope] # "Normal" ELSE mistaken IN
  /\ \E r \in GovernorResults(CurrentGovernor, level) :
       /\ gov' = r.gov
       /\ qos' = [p \in Pid |-> IF p \in r.wrote THEN ClassOf(EffectiveLevel(level)) ELSE qos[p]]
       /\ mistaken' = IF r.wrote = {} THEN found ELSE r.failed # {}
       /\ faulty' = r.failed
  /\ Await(ClassOf(EffectiveLevel(level)), IF Deceived THEN {} ELSE {gov'.pid})
  /\ mesh_controller' = CurrentMesh

\* The mesh asks the selected processes for the level it prefers.
GovernHost(ram) ==
  LET level == PreferMeshQos(controller'.level, ram)
      known == IF last_mesh_mode THEN faulty ELSE {} IN
  /\ \E s \in Selections(ram) : \E r \in MeshResults(CurrentMesh, level, s) :
       /\ mesh_controller' = r.mesh
       /\ qos' = [p \in Pid |-> IF p \in r.wrote THEN ClassOf(level) ELSE qos[p]]
       /\ faulty' = (known \ r.wrote) \cup {p \in r.refused : qos[p] # ClassOf(level)}
       /\ mistaken' = FALSE
       /\ Await(ClassOf(level), Chosen(s))
  /\ gov' = CurrentGovernor

\* The mesh is on and governance is not active: the governor, which has no target,
\* is called, and the processes of the mesh are left as they are.
LeaveHost ==
  /\ gov' = CurrentGovernor
  /\ mesh_controller' = CurrentMesh
  /\ faulty' = IF last_mesh_mode THEN faulty ELSE {}
  /\ mistaken' = FALSE
  /\ waiting' = [p \in Pid |-> Content]
  /\ UNCHANGED qos

\* One iteration, and one more iteration of age for everything that dwells.
Iterate(temp, ram, active, mode) ==
  /\ active => scope # NoPid
  /\ \E capacity \in NextCapacity(CurrentController.capacity) :
       controller' = ControllerStep(CurrentController, temp, ram, active, mode, capacity)
  /\ \/ scope # Host /\ GovernProcess
     \/ scope = Host /\ active /\ GovernHost(ram)
     \/ scope = Host /\ ~active /\ LeaveHost
  /\ last_mesh_mode' = (scope = Host)
  /\ target_changed' = FALSE
  /\ epoch_changed' = FALSE
  /\ Observe(temp)
  /\ UNCHANGED scope

Next ==
  \/ \E s \in Scope : Retarget(s)
  \/ OpenEpoch
  \/ \E temp \in Temps, ram \in Rams, active \in BOOLEAN, mode \in Modes :
       Iterate(temp, ram, active, mode)

Spec == Init /\ [][Next]_vars

--------------------------------------------------------------------------------
(* Properties. *)

ControlOK ==
  /\ controller \in Controller
  /\ gov \in Governor
  /\ mesh_controller \in Mesh
  /\ last_mesh_mode \in BOOLEAN

HistoryOK ==
  /\ waiting \in [Pid -> Wait]
  /\ mistaken \in BOOLEAN /\ faulty \subseteq Pid
  /\ hot \in BOOLEAN /\ forgot \in BOOLEAN
  /\ left \in 0 .. FullCapacity

\* Every variable has its type: capacity stays in its range, levels, classes and
\* ages are ones the code knows.
TypeOK ==
  /\ scope \in Scope /\ target_changed \in BOOLEAN /\ epoch_changed \in BOOLEAN
  /\ ControlOK
  /\ qos \in [Pid -> Class]
  /\ HistoryOK

\* From a reading at the guard to one at the release threshold, missing readings
\* and a mesh in between, active governance asks for thermal protection, and no
\* process is given a better class than the protected one, by governor or mesh;
\* unless a new epoch or target has made the controller forget (controller.rs:132-155,
\* governor.rs:258-270).
HotIsProtected ==
  [][(hot' /\ ~forgot' /\ controller'.level # "MonitorOnly") =>
       /\ controller'.level = "ThermalProtect"
       /\ \A p \in Pid : qos'[p] \in {qos[p], "Below"}]_vars

\* Nothing but the system stands between a process and the class it is asked for:
\* the dwell time defers a change and never loses it, whatever levels, selections
\* and actuators follow each other. A write that failed is excused, and so is the level
\* that a governor holds because it believes in it, and wrongly: a process it takes
\* over it believes to be Normal, one whose write failed half way to be what it was
\* (governor.rs:21-81, 146-169, 304-408).
AskedIsApplied ==
  \A p \in Pid : waiting[p].time < Dwell

\* Hysteresis: after Eco was left because capacity had recovered, lack of capacity
\* brings it back only after as many samples as it takes to fall from the exit to
\* the entry threshold at the slew limit (controller.rs:216-246, 126-129).
EcoReentryIsSlow ==
  [][(/\ controller.level \notin {"Eco", "ThermalProtect"}
      /\ controller'.level = "Eco" /\ controller'.capacity <= EcoEnter
      /\ ~target_changed /\ ~epoch_changed /\ left < FullCapacity)
     => (left + 1) * Slew >= EcoExit - EcoEnter]_vars

================================================================================
