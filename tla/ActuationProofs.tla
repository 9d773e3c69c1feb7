---------------------------- MODULE ActuationProofs ----------------------------
(***************************************************************************)
(* Type correctness and every property of Actuation, for every set of      *)
(* processes, every threshold, slew limit, mesh budget and dwell time, in  *)
(* whatever order the thresholds are.                                      *)
(***************************************************************************)
EXTENDS Actuation, TLAPS

--------------------------------------------------------------------------------
(* The controller. *)

LEMMA Starts == \A b \in BOOLEAN : NewController(b) \in Controller
  BY ControllerAssumption DEF NewController, Controller, QosLevel

\* A step of the controller, for a capacity that the feedback may arrive at.
LEMMA Steps ==
  ASSUME NEW c \in Controller, NEW temp \in Temps, NEW ram \in Rams, NEW active \in BOOLEAN,
         NEW mode \in Modes, NEW capacity \in NextCapacity(c.capacity)
  PROVE  ControllerStep(c, temp, ram, active, mode, capacity) \in Controller
<1> DEFINE next == ControllerStep(c, temp, ram, active, mode, capacity)
<1>1. SelectQos(c.level, capacity, mode) \in QosLevel
  BY DEF SelectQos, QosLevel
<1>2. RequestedQos(c.level, Latch(c.latched, temp), capacity, active, ram, mode) \in QosLevel
  <2>1. Latch(c.latched, temp) \in BOOLEAN /\ RamAssist(ram) \in BOOLEAN
    BY DEF Latch, RamAssist
  <2> QED
    BY <1>1, <2>1 DEF RequestedQos, QosLevel
<1>3. capacity \in 0 .. FullCapacity
  BY DEF NextCapacity
<1>4. Latch(c.latched, temp) \in BOOLEAN
  BY DEF Latch
<1> QED
  BY <1>2, <1>3, <1>4 DEF ControllerStep, Controller

LEMMA Continues == TypeOK => CurrentController \in Controller
<1>1. MonitorOnly(scope) \in BOOLEAN
  BY DEF MonitorOnly
<1> QED
  BY <1>1, Starts DEF CurrentController, ResetController, TypeOK, ControlOK

--------------------------------------------------------------------------------
(* The actuators. *)

LEMMA Levels ==
  \A l \in QosLevel : ClassOf(l) \in Class /\ EffectiveLevel(l) \in QosLevel
  BY DEF ClassOf, EffectiveLevel, Class, QosLevel

LEMMA Ages == \A n \in 0 .. Dwell : Older(n) \in 0 .. Dwell
  BY ActuatorAssumption DEF Older

LEMMA Targets == \A s \in Scope : TargetOf(s) \in Pid \cup {NoPid}
  BY DEF Scope, TargetOf

LEMMA Governors == \A p \in Pid \cup {NoPid} : NewGovernor(p) \in Governor
  BY ActuatorAssumption DEF NewGovernor, Governor, QosLevel

\* The call holds, writes, or fails, with the class written or not.
Holds(g, level, r) ==
  /\ r.gov = g /\ r.wrote = {} /\ r.failed = {}
  /\ g.pid = NoPid \/ level = g.applied \/ g.since < Dwell

Succeeds(g, level, r) ==
  /\ g.pid \in Pid /\ r.wrote = {g.pid} /\ r.failed = {}
  /\ r.gov.pid = g.pid /\ r.gov.applied = EffectiveLevel(level) /\ r.gov.since = 0

Fails(g, r) == g.pid \in Pid /\ r.gov = g /\ r.wrote \subseteq {g.pid} /\ r.failed = {g.pid}

LEMMA Governed ==
  ASSUME NEW g \in Governor, NEW level \in QosLevel, NEW r \in GovernorResults(g, level)
  PROVE  /\ r.gov \in Governor /\ r.wrote \subseteq Pid /\ r.failed \subseteq Pid
         /\ Holds(g, level, r) \/ Succeeds(g, level, r) \/ Fails(g, r)
<1> DEFINE after == [g EXCEPT !.applied = EffectiveLevel(level), !.since = 0]
           idle == g.pid = NoPid \/ level = g.applied \/ g.since < Dwell
<1>1. /\ after \in Governor
      /\ after.pid = g.pid /\ after.applied = EffectiveLevel(level) /\ after.since = 0
  <2>1. EffectiveLevel(level) \in QosLevel /\ 0 \in 0 .. Dwell
    BY Levels, ActuatorAssumption
  <2>2. after \in Governor
    BY <2>1 DEF Governor
  <2>3. after.pid = g.pid /\ after.applied = EffectiveLevel(level) /\ after.since = 0
    BY DEF Governor
  <2> QED
    BY <2>2, <2>3
<1>2. g.pid # NoPid => g.pid \in Pid
  BY DEF Governor
<1>3. \/ r = [gov |-> g, wrote |-> {}, failed |-> {}] /\ idle
      \/ r = [gov |-> after, wrote |-> {g.pid}, failed |-> {}] /\ ~idle
      \/ ~idle /\ \E w \in SUBSET {g.pid} : r = [gov |-> g, wrote |-> w, failed |-> {g.pid}]
  BY DEF GovernorResults
<1> HIDE DEF after
<1>4. CASE r = [gov |-> g, wrote |-> {}, failed |-> {}] /\ idle
  BY <1>4 DEF Holds
<1>5. CASE r = [gov |-> after, wrote |-> {g.pid}, failed |-> {}] /\ ~idle
  BY <1>1, <1>2, <1>5 DEF Succeeds
<1>6. CASE ~idle /\ \E w \in SUBSET {g.pid} : r = [gov |-> g, wrote |-> w, failed |-> {g.pid}]
  BY <1>2, <1>6 DEF Fails
<1> QED
  BY <1>3, <1>4, <1>5, <1>6

LEMMA Selected == \A ram \in Rams : \A s \in Selections(ram) : s \in Seq(Pid) /\ Chosen(s) \subseteq Pid
<1> TAKE ram \in Rams
<1> TAKE s \in Selections(ram)
<1>1. PICK n \in 0 .. MaxTargets(ram) : s \in [1 .. n -> Pid]
  BY DEF Selections
<1>2. n \in Nat
  OBVIOUS
<1> QED
  BY <1>1, <1>2 DEF Chosen

LEMMA Meshed ==
  ASSUME NEW m \in Mesh, NEW level \in QosLevel, NEW s \in Seq(Pid), Chosen(s) \subseteq Pid,
         NEW r \in MeshResults(m, level, s)
  PROVE  r.mesh \in Mesh /\ r.wrote \subseteq Pid /\ r.refused \subseteq Pid
<1>1. 0 \in 0 .. Dwell
  BY ActuatorAssumption
<1>2. CASE r = [mesh |-> m, wrote |-> {}, refused |-> {}]
  BY <1>2
<1>3. CASE \E w \in SUBSET Chosen(s) :
             r = [mesh |-> [applied |-> level, pids |-> s, since |-> 0],
                  wrote |-> w, refused |-> Chosen(s) \ w]
  BY <1>1, <1>3 DEF Mesh
<1> QED
  BY <1>2, <1>3 DEF MeshResults

LEMMA Carried == TypeOK => CurrentGovernor \in Governor /\ CurrentMesh \in Mesh
<1> SUFFICES ASSUME TypeOK PROVE CurrentGovernor \in Governor /\ CurrentMesh \in Mesh
  OBVIOUS
<1>1. gov \in Governor /\ mesh_controller \in Mesh /\ scope \in Scope
  BY DEF TypeOK, ControlOK
<1>2. Older(gov.since) \in 0 .. Dwell /\ Older(mesh_controller.since) \in 0 .. Dwell
  BY <1>1, Ages DEF Governor, Mesh
<1>3. NewMesh \in Mesh
  BY ActuatorAssumption DEF NewMesh, Mesh, QosLevel
<1>4. CurrentGovernor \in Governor
  <2>1. [gov EXCEPT !.since = Older(@)] \in Governor
    BY <1>1, <1>2 DEF Governor
  <2> QED
    BY <1>1, <2>1, Targets, Governors DEF CurrentGovernor
<1>5. CurrentMesh \in Mesh
  <2>1. [mesh_controller EXCEPT !.since = Older(@)] \in Mesh
    BY <1>1, <1>2 DEF Mesh
  <2> QED
    BY <1>3, <2>1 DEF CurrentMesh
<1> QED
  BY <1>4, <1>5

--------------------------------------------------------------------------------
(* Type correctness. *)

LEMMA Awaited ==
  ASSUME NEW class \in Class, NEW whom, TypeOK, Await(class, whom)
  PROVE  waiting' \in [Pid -> Wait]
<1>1. Content \in Wait /\ 0 \in 0 .. Dwell
  BY ActuatorAssumption DEF Content, Wait
<1>2. \A p \in Pid : waiting[p].time \in 0 .. Dwell
  BY DEF TypeOK, HistoryOK, Wait
<1>3. \A p \in Pid : [class |-> class,
                      time  |-> IF waiting[p].class = class THEN Older(waiting[p].time) ELSE 0] \in Wait
  BY <1>1, <1>2, Ages DEF Wait
<1> QED
  BY <1>1, <1>3 DEF Await

LEMMA Observed ==
  ASSUME NEW temp \in Temps, TypeOK, Observe(temp)
  PROVE  hot' \in BOOLEAN /\ forgot' \in BOOLEAN /\ left' \in 0 .. FullCapacity
<1>1. hot' \in BOOLEAN
  BY DEF Observe
<1>2. forgot' \in BOOLEAN
  BY DEF Observe
<1>3. left' \in 0 .. FullCapacity
  BY ControllerAssumption DEF Observe, TypeOK, HistoryOK
<1> QED
  BY <1>1, <1>2, <1>3

\* Each of the three ways an iteration goes leaves actuators, classes and history typed.
Actuated ==
  /\ gov' \in Governor /\ mesh_controller' \in Mesh /\ qos' \in [Pid -> Class]
  /\ waiting' \in [Pid -> Wait] /\ mistaken' \in BOOLEAN /\ faulty' \subseteq Pid

LEMMA ProcessGoverned ==
  ASSUME TypeOK, controller' \in Controller, GovernProcess
  PROVE  Actuated
<1> DEFINE level == controller'.level
<1>1. level \in QosLevel
  BY DEF Controller
<1>2. PICK r \in GovernorResults(CurrentGovernor, level) :
        /\ gov' = r.gov
        /\ qos' = [p \in Pid |-> IF p \in r.wrote THEN ClassOf(EffectiveLevel(level)) ELSE qos[p]]
        /\ mistaken' = IF r.wrote = {}
                       THEN IF target_changed THEN scope # NoPid /\ qos[scope] # "Normal" ELSE mistaken
                       ELSE r.failed # {}
        /\ faulty' = r.failed
  BY DEF GovernProcess
<1>3. r.gov \in Governor /\ r.wrote \subseteq Pid /\ r.failed \subseteq Pid
  BY <1>1, Carried, Governed
<1>4. qos' \in [Pid -> Class]
  <2>1. ClassOf(EffectiveLevel(level)) \in Class
    BY <1>1, Levels
  <2>2. qos \in [Pid -> Class]
    BY DEF TypeOK
  <2> QED
    BY <1>2, <2>1, <2>2
<1>5. waiting' \in [Pid -> Wait]
  <2>1. ClassOf(EffectiveLevel(level)) \in Class
    BY <1>1, Levels
  <2> QED
    BY <2>1, Awaited DEF GovernProcess
<1>6. mistaken' \in BOOLEAN
  BY <1>2 DEF TypeOK, HistoryOK
<1>7. mesh_controller' \in Mesh
  BY Carried DEF GovernProcess
<1> QED
  BY <1>2, <1>3, <1>4, <1>5, <1>6, <1>7 DEF Actuated

LEMMA HostGoverned ==
  ASSUME TypeOK, controller' \in Controller, NEW ram \in Rams, GovernHost(ram)
  PROVE  Actuated
<1> DEFINE level == PreferMeshQos(controller'.level, ram)
<1>1. level \in QosLevel
  BY DEF Controller, PreferMeshQos, QosLevel
<1>2. PICK s \in Selections(ram) : \E r \in MeshResults(CurrentMesh, level, s) :
        /\ mesh_controller' = r.mesh
        /\ qos' = [p \in Pid |-> IF p \in r.wrote THEN ClassOf(level) ELSE qos[p]]
        /\ faulty' = ((IF last_mesh_mode THEN faulty ELSE {}) \ r.wrote)
                     \cup {p \in r.refused : qos[p] # ClassOf(level)}
        /\ mistaken' = FALSE
        /\ Await(ClassOf(level), Chosen(s))
  BY DEF GovernHost
<1>3. PICK r \in MeshResults(CurrentMesh, level, s) :
        /\ mesh_controller' = r.mesh
        /\ qos' = [p \in Pid |-> IF p \in r.wrote THEN ClassOf(level) ELSE qos[p]]
        /\ faulty' = ((IF last_mesh_mode THEN faulty ELSE {}) \ r.wrote)
                     \cup {p \in r.refused : qos[p] # ClassOf(level)}
        /\ mistaken' = FALSE
        /\ Await(ClassOf(level), Chosen(s))
  BY <1>2
<1>4. ClassOf(level) \in Class
  BY <1>1, Levels
<1>5. r.mesh \in Mesh /\ r.wrote \subseteq Pid /\ r.refused \subseteq Pid
  BY <1>1, Selected, Carried, Meshed
<1>6. qos' \in [Pid -> Class]
  BY <1>3, <1>4 DEF TypeOK
<1>7. waiting' \in [Pid -> Wait]
  BY <1>3, <1>4, Awaited
<1>8. faulty' \subseteq Pid
  BY <1>3, <1>5 DEF TypeOK, HistoryOK
<1>9. gov' \in Governor
  BY Carried DEF GovernHost
<1> QED
  BY <1>3, <1>5, <1>6, <1>7, <1>8, <1>9 DEF Actuated

LEMMA HostLeft == TypeOK /\ LeaveHost => Actuated
<1> SUFFICES ASSUME TypeOK, LeaveHost PROVE Actuated
  OBVIOUS
<1>1. Content \in Wait
  BY ActuatorAssumption DEF Content, Wait
<1>2. gov' \in Governor /\ mesh_controller' \in Mesh
  BY Carried DEF LeaveHost
<1>3. waiting' \in [Pid -> Wait] /\ mistaken' \in BOOLEAN /\ faulty' \subseteq Pid
  BY <1>1 DEF LeaveHost, TypeOK, HistoryOK
<1> QED
  BY <1>2, <1>3 DEF LeaveHost, Actuated, TypeOK

\* What every proof about an iteration starts from.
LEMMA Iterated ==
  ASSUME TypeOK, NEW temp \in Temps, NEW ram \in Rams, NEW active \in BOOLEAN, NEW mode \in Modes,
         Iterate(temp, ram, active, mode)
  PROVE  /\ \E capacity \in NextCapacity(CurrentController.capacity) :
              controller' = ControllerStep(CurrentController, temp, ram, active, mode, capacity)
         /\ controller' \in Controller
         /\ Actuated
<1>1. PICK capacity \in NextCapacity(CurrentController.capacity) :
        controller' = ControllerStep(CurrentController, temp, ram, active, mode, capacity)
  BY DEF Iterate
<1>2. controller' \in Controller
  BY <1>1, Continues, Steps
<1>3. Actuated
  BY <1>2, ProcessGoverned, HostGoverned, HostLeft DEF Iterate
<1> QED
  BY <1>1, <1>2, <1>3

LEMMA InitialTypes == Init => TypeOK
<1> SUFFICES ASSUME Init PROVE TypeOK
  OBVIOUS
<1>1. scope \in Scope /\ scope \in Pid \cup {NoPid} /\ MonitorOnly(scope) \in BOOLEAN
  BY DEF Init, Scope, MonitorOnly
<1>2. controller \in Controller /\ gov \in Governor
  BY <1>1, Starts, Governors DEF Init
<1>3. mesh_controller \in Mesh
  BY ActuatorAssumption DEF Init, NewMesh, Mesh, QosLevel
<1>4. Content \in Wait
  BY ActuatorAssumption DEF Content, Wait
<1>5. HistoryOK
  <2>1. waiting \in [Pid -> Wait]
    BY <1>4 DEF Init
  <2>2. left \in 0 .. FullCapacity
    BY ControllerAssumption DEF Init
  <2> QED
    BY <2>1, <2>2 DEF Init, HistoryOK
<1> QED
  BY <1>1, <1>2, <1>3, <1>5 DEF Init, TypeOK, ControlOK, Class

LEMMA StepTypes == TypeOK /\ [Next]_vars => TypeOK'
<1> SUFFICES ASSUME TypeOK, [Next]_vars PROVE TypeOK'
  OBVIOUS
<1> USE DEF TypeOK, ControlOK, HistoryOK
<1>1. ASSUME NEW s \in Scope, Retarget(s) PROVE TypeOK'
  BY <1>1 DEF Retarget, loop, hist
<1>2. CASE OpenEpoch
  BY <1>2 DEF OpenEpoch, loop, hist
<1>3. ASSUME NEW temp \in Temps, NEW ram \in Rams, NEW active \in BOOLEAN, NEW mode \in Modes,
             Iterate(temp, ram, active, mode)
      PROVE  TypeOK'
  <2>1. controller' \in Controller /\ Actuated
    BY <1>3, Iterated
  <2>2. hot' \in BOOLEAN /\ forgot' \in BOOLEAN /\ left' \in 0 .. FullCapacity
    BY <1>3, Observed DEF Iterate
  <2>3. scope' \in Scope /\ target_changed' \in BOOLEAN /\ epoch_changed' \in BOOLEAN
    BY <1>3 DEF Iterate
  <2>4. last_mesh_mode' \in BOOLEAN
    BY <1>3 DEF Iterate
  <2> QED
    BY <2>1, <2>2, <2>3, <2>4 DEF Actuated
<1>4. CASE UNCHANGED vars
  BY <1>4 DEF vars, requests, loop, hist
<1> QED
  BY <1>1, <1>2, <1>3, <1>4 DEF Next

\* Type correctness: every variable of the loop, of the requests and of the history
\* keeps its type; the capacity stays within its range (controller.rs:100-130).
THEOREM TypeCorrect == Spec => []TypeOK
  BY InitialTypes, StepTypes, PTL DEF Spec

--------------------------------------------------------------------------------
(* Heat. *)

\* While the machine is hot and nothing was forgotten, the latch is set and the last
\* level was protection, or governance was not active.
Latched ==
  (hot /\ ~forgot) => controller.latched /\ controller.level \in {"MonitorOnly", "ThermalProtect"}

\* One iteration that ends hot, with nothing forgotten, has latched.
LEMMA LatchHolds ==
  ASSUME TypeOK, Latched, NEW temp \in Temps, NEW ram \in Rams, NEW active \in BOOLEAN,
         NEW mode \in Modes, Iterate(temp, ram, active, mode), hot', ~forgot'
  PROVE  controller'.latched /\ controller'.level = IF active THEN "ThermalProtect" ELSE "MonitorOnly"
<1>1. PICK capacity \in NextCapacity(CurrentController.capacity) :
        controller' = ControllerStep(CurrentController, temp, ram, active, mode, capacity)
  BY Iterated
<1>2. Observe(temp)
  BY DEF Iterate
<1>3. ~(temp # NoReading /\ temp <= Release)
  BY <1>2 DEF Observe
<1>4. CurrentController.latched \/ (temp # NoReading /\ temp >= Guard)
  <2>1. CASE temp # NoReading /\ temp >= Guard
    BY <2>1
  <2>2. CASE ~(temp # NoReading /\ temp >= Guard)
    <3>1. hot
      BY <1>2, <2>2 DEF Observe
    <3>2. ~forgot /\ ~target_changed /\ ~epoch_changed
      BY <1>2, <2>2, <3>1 DEF Observe
    <3>3. CurrentController = controller
      BY <3>2 DEF CurrentController
    <3> QED
      BY <3>1, <3>2, <3>3 DEF Latched
  <2> QED
    BY <2>1, <2>2
<1>5. Latch(CurrentController.latched, temp)
  BY <1>3, <1>4 DEF Latch
<1>6. controller'.latched
  BY <1>1, <1>5 DEF ControllerStep
<1>7. controller'.level = RequestedQos(CurrentController.level, TRUE, capacity, active, ram, mode)
  <2>1. Latch(CurrentController.latched, temp) = TRUE
    BY <1>5 DEF Latch
  <2> QED
    BY <1>1, <2>1 DEF ControllerStep
<1> QED
  BY <1>6, <1>7 DEF RequestedQos

\* A process is written to with the class of the level that is asked for.
LEMMA Writes ==
  ASSUME TypeOK, NEW temp \in Temps, NEW ram \in Rams, NEW active \in BOOLEAN,
         NEW mode \in Modes, Iterate(temp, ram, active, mode), controller'.level = "ThermalProtect"
  PROVE  \A p \in Pid : qos'[p] \in {qos[p], "Below"}
<1>0. qos \in [Pid -> Class]
  BY DEF TypeOK
<1>1. CASE GovernProcess
  <2>1. PICK wrote :
          qos' = [p \in Pid |->
                    IF p \in wrote THEN ClassOf(EffectiveLevel("ThermalProtect")) ELSE qos[p]]
    BY <1>1 DEF GovernProcess
  <2> QED
    BY <2>1 DEF EffectiveLevel, ClassOf
<1>2. CASE GovernHost(ram)
  <2>1. PreferMeshQos(controller'.level, ram) = "ThermalProtect"
    BY DEF PreferMeshQos
  <2>2. PICK wrote : qos' = [p \in Pid |-> IF p \in wrote THEN ClassOf("ThermalProtect") ELSE qos[p]]
    BY <1>2, <2>1 DEF GovernHost
  <2> QED
    BY <2>2 DEF ClassOf
<1>3. CASE LeaveHost
  BY <1>3 DEF LeaveHost
<1> QED
  BY <1>1, <1>2, <1>3 DEF Iterate

Protects ==
  (hot' /\ ~forgot' /\ controller'.level # "MonitorOnly") =>
    /\ controller'.level = "ThermalProtect"
    /\ \A p \in Pid : qos'[p] \in {qos[p], "Below"}

LEMMA LatchedStep == TypeOK /\ Latched /\ [Next]_vars => Latched' /\ Protects
<1> SUFFICES ASSUME TypeOK, Latched, [Next]_vars PROVE Latched' /\ Protects
  OBVIOUS
<1>1. ASSUME NEW s \in Scope, Retarget(s) PROVE Latched' /\ Protects
  BY <1>1 DEF Retarget, loop, hist, Latched, Protects, TypeOK
<1>2. CASE OpenEpoch
  BY <1>2 DEF OpenEpoch, loop, hist, Latched, Protects, TypeOK
<1>3. ASSUME NEW temp \in Temps, NEW ram \in Rams, NEW active \in BOOLEAN, NEW mode \in Modes,
             Iterate(temp, ram, active, mode)
      PROVE  Latched' /\ Protects
  BY <1>3, LatchHolds, Writes DEF Latched, Protects
<1>4. CASE UNCHANGED vars
  BY <1>4 DEF vars, loop, hist, Latched, Protects, TypeOK
<1> QED
  BY <1>1, <1>2, <1>3, <1>4 DEF Next

\* Heat is answered until it is over, whatever order guard and release are in
\* (controller.rs:132-155, governor.rs:258-270).
THEOREM Protection == Spec => HotIsProtected
<1>1. Init => Latched
  BY DEF Init, Latched
<1>2. TypeOK /\ Latched /\ [Next]_vars => Latched'
  BY LatchedStep
<1>3. TypeOK /\ Latched /\ [Next]_vars
      => [(hot' /\ ~forgot' /\ controller'.level # "MonitorOnly") =>
            /\ controller'.level = "ThermalProtect"
            /\ \A p \in Pid : qos'[p] \in {qos[p], "Below"}]_vars
  BY LatchedStep DEF Protects
<1> QED
  BY <1>1, <1>2, <1>3, TypeCorrect, PTL DEF Spec, HotIsProtected

--------------------------------------------------------------------------------
(* Eco. *)

\* After Eco was left, the capacity is no further below the exit threshold than the
\* samples since then could carry it.
Recovered == left < FullCapacity => controller.capacity + left * Slew >= EcoExit

\* Eco is left for Normal at the exit threshold or above.
LEMMA Leaves ==
  ASSUME NEW level \in {"Eco", "ThermalProtect"}, NEW capacity \in Int, NEW latched \in BOOLEAN,
         NEW active \in BOOLEAN, NEW ram, NEW mode,
         RequestedQos(level, latched, capacity, active, ram, mode) = "Normal"
  PROVE  capacity >= EcoExit
<1>1. RamAssist(ram) \in BOOLEAN
  BY DEF RamAssist
<1>2. SelectQos(level, capacity, mode) = "Normal"
  BY <1>1 DEF RequestedQos
<1>3. capacity < EcoExit => SelectQos(level, capacity, mode) = "Eco"
  BY DEF SelectQos
<1> QED
  BY <1>2, <1>3, ControllerAssumption

\* An iteration without a new epoch or target moves the capacity by the slew limit.
LEMMA Moves ==
  ASSUME TypeOK, NEW temp \in Temps, NEW ram \in Rams, NEW active \in BOOLEAN,
         NEW mode \in Modes, Iterate(temp, ram, active, mode), ~target_changed, ~epoch_changed
  PROVE  /\ controller.capacity \in Nat /\ controller'.capacity \in Nat
         /\ controller'.capacity + Slew >= controller.capacity
         /\ (controller.level \in {"Eco", "ThermalProtect"} /\ controller'.level = "Normal")
              => controller'.capacity >= EcoExit
<1>1. CurrentController = controller
  BY DEF CurrentController
<1>2. PICK capacity \in NextCapacity(controller.capacity) :
        controller' = ControllerStep(controller, temp, ram, active, mode, capacity)
  BY <1>1, Iterated
<1>3. capacity \in 0 .. FullCapacity /\ controller.capacity - capacity <= Slew
  BY <1>2 DEF NextCapacity
<1>4. controller.capacity \in 0 .. FullCapacity
  BY DEF TypeOK, ControlOK, Controller
<1>5. controller'.capacity = capacity
  BY <1>2 DEF ControllerStep
<1>6. ASSUME controller.level \in {"Eco", "ThermalProtect"}, controller'.level = "Normal"
      PROVE  capacity >= EcoExit
  <2>1. Latch(controller.latched, temp) \in BOOLEAN
    BY DEF Latch
  <2>2. RequestedQos(controller.level, Latch(controller.latched, temp), capacity, active, ram, mode)
          = "Normal"
    BY <1>2, <1>6 DEF ControllerStep
  <2> QED
    BY <1>3, <1>6, <2>1, <2>2, Leaves
<1> QED
  BY <1>3, <1>4, <1>5, <1>6, ControllerAssumption

Reenters ==
  (/\ controller.level \notin {"Eco", "ThermalProtect"}
   /\ controller'.level = "Eco" /\ controller'.capacity <= EcoEnter
   /\ ~target_changed /\ ~epoch_changed /\ left < FullCapacity)
  => (left + 1) * Slew >= EcoExit - EcoEnter

LEMMA RecoveredStep == TypeOK /\ Recovered /\ [Next]_vars => Recovered' /\ Reenters
<1> SUFFICES ASSUME TypeOK, Recovered, [Next]_vars PROVE Recovered' /\ Reenters
  OBVIOUS
<1>1. ASSUME NEW s \in Scope, Retarget(s) PROVE Recovered' /\ Reenters
  BY <1>1 DEF Retarget, loop, hist, Recovered, Reenters
<1>2. CASE OpenEpoch
  BY <1>2 DEF OpenEpoch, loop, hist, Recovered, Reenters
<1>3. ASSUME NEW temp \in Temps, NEW ram \in Rams, NEW active \in BOOLEAN, NEW mode \in Modes,
             Iterate(temp, ram, active, mode)
      PROVE  Recovered' /\ Reenters
  <2>1. Observe(temp)
    BY <1>3 DEF Iterate
  <2>2. CASE target_changed \/ epoch_changed
    <3>1. left' = FullCapacity
      BY <2>1, <2>2 DEF Observe
    <3> QED
      BY <2>2, <3>1, ControllerAssumption DEF Recovered, Reenters
  <2>3. CASE ~target_changed /\ ~epoch_changed
    <3>1. /\ controller.capacity \in Nat /\ controller'.capacity \in Nat
          /\ controller'.capacity + Slew >= controller.capacity
          /\ (controller.level \in {"Eco", "ThermalProtect"} /\ controller'.level = "Normal")
               => controller'.capacity >= EcoExit
      BY <1>3, <2>3, Moves
    <3>2. left' = IF controller.level \in {"Eco", "ThermalProtect"} /\ controller'.level = "Normal" THEN 0
                  ELSE IF left < FullCapacity THEN left + 1 ELSE FullCapacity
      BY <2>1, <2>3 DEF Observe, CurrentController
    <3>3. left \in Nat /\ Slew \in Nat /\ FullCapacity \in Nat /\ EcoEnter \in Int /\ EcoExit \in Int
      BY ControllerAssumption DEF TypeOK, HistoryOK
    <3>4. (left + 1) * Slew = left * Slew + Slew /\ 0 * Slew = 0 /\ left * Slew \in Nat
      BY <3>3
    <3>5. left < FullCapacity => controller'.capacity + (left + 1) * Slew >= EcoExit
      <4> DEFINE fall == left * Slew
      <4>1. fall \in Nat /\ (left + 1) * Slew = fall + Slew
        BY <3>4
      <4>2. left < FullCapacity => controller.capacity + fall >= EcoExit
        BY DEF Recovered
      <4> HIDE DEF fall
      <4> QED
        BY <3>1, <3>3, <4>1, <4>2
    <3>6. Recovered'
      <4>1. CASE left' = 0 /\ controller'.capacity >= EcoExit
        BY <3>1, <3>3, <3>4, <4>1 DEF Recovered
      <4>2. CASE left < FullCapacity /\ left' = left + 1
        BY <3>5, <4>2 DEF Recovered
      <4>3. CASE left' = FullCapacity
        BY <3>3, <4>3 DEF Recovered
      <4> QED
        BY <3>1, <3>2, <4>1, <4>2, <4>3
    <3>7. Reenters
      <4> DEFINE fall == (left + 1) * Slew
      <4>1. fall \in Int
        BY <3>3
      <4>2. left < FullCapacity => controller'.capacity + fall >= EcoExit
        BY <3>5
      <4> HIDE DEF fall
      <4>3. (left < FullCapacity /\ controller'.capacity <= EcoEnter) => fall >= EcoExit - EcoEnter
        BY <3>1, <3>3, <4>1, <4>2
      <4> QED
        BY <4>3 DEF Reenters, fall
    <3> QED
      BY <3>6, <3>7
  <2> QED
    BY <2>2, <2>3
<1>4. CASE UNCHANGED vars
  BY <1>4 DEF vars, loop, hist, Recovered, Reenters
<1> QED
  BY <1>1, <1>2, <1>3, <1>4 DEF Next

\* Eco is not entered and left in turns, whatever order the thresholds are in
\* (controller.rs:126-129, 216-246).
THEOREM Hysteresis == Spec => EcoReentryIsSlow
<1>1. Init => Recovered
  BY ControllerAssumption DEF Init, Recovered
<1>2. TypeOK /\ Recovered /\ [Next]_vars => Recovered'
  BY RecoveredStep
<1>3. TypeOK /\ Recovered /\ [Next]_vars
      => [(/\ controller.level \notin {"Eco", "ThermalProtect"}
           /\ controller'.level = "Eco" /\ controller'.capacity <= EcoEnter
           /\ ~target_changed /\ ~epoch_changed /\ left < FullCapacity)
          => (left + 1) * Slew >= EcoExit - EcoEnter]_vars
  BY RecoveredStep DEF Reenters
<1> QED
  BY <1>1, <1>2, <1>3, TypeCorrect, PTL DEF Spec, EcoReentryIsSlow

--------------------------------------------------------------------------------
(* What is asked for arrives. *)

\* Without a request since the last iteration, the loop's actuators are those of the scope.
Bound == ~target_changed => gov.pid = TargetOf(scope) /\ last_mesh_mode = (scope = Host)

\* The governor knows its process, unless it is mistaken.
Knows ==
  /\ gov.applied = "Responsive" => AllowAboveNormal
  /\ gov.pid \in Pid =>
       qos[gov.pid] = ClassOf(gov.applied) \/ mistaken

\* The mesh knows the processes it wrote to last, but for those that refused.
Reached ==
  last_mesh_mode =>
    \A p \in Chosen(mesh_controller.pids) : qos[p] = ClassOf(mesh_controller.applied) \/ p \in faulty

\* Nobody has waited longer than the actuator in charge has dwelt.
Waits ==
  \A p \in Pid :
    /\ waiting[p].time < Dwell
    /\ waiting[p].time <= IF last_mesh_mode THEN mesh_controller.since ELSE gov.since

Prompt == Bound /\ Knows /\ Reached /\ Waits

\* Whoever is not waiting after an iteration has waited for no time.
LEMMA Contented ==
  \A p \in Pid : waiting'[p] = Content =>
    waiting'[p].time = 0 /\ waiting'[p].time < Dwell
  BY ActuatorAssumption DEF Content

\* One more iteration of age, for whoever waits and for what it waits for.
LEMMA AgesTogether ==
  ASSUME NEW t \in Nat, NEW since \in 0 .. Dwell, t < Dwell, t <= since, Older(since) < Dwell
  PROVE  /\ Older(t) < Dwell /\ Older(t) <= Older(since)
         /\ 0 <= Older(since)
  BY ActuatorAssumption DEF Older

\* A process governed by itself: it has its class, or refused it, or waits for the dwell.
LEMMA PromptProcess ==
  ASSUME TypeOK, Prompt, controller' \in Controller, GovernProcess, scope # Host,
         last_mesh_mode' = FALSE, target_changed' = FALSE, scope' = scope
  PROVE  Prompt'
<1> DEFINE level == controller'.level
           g == CurrentGovernor
           e == EffectiveLevel(level)
           found == IF target_changed THEN scope # NoPid /\ qos[scope] # "Normal" ELSE mistaken
<1>1. level \in QosLevel /\ e \in QosLevel /\ g \in Governor /\ scope \in Pid \cup {NoPid}
  BY Levels, Carried DEF Controller, TypeOK, Scope
<1>2. PICK r \in GovernorResults(g, level) :
        /\ gov' = r.gov
        /\ qos' = [p \in Pid |-> IF p \in r.wrote THEN ClassOf(e) ELSE qos[p]]
        /\ mistaken' = IF r.wrote = {} THEN found ELSE r.failed # {}
        /\ faulty' = r.failed
  BY DEF GovernProcess
<1>3. Holds(g, level, r) \/ Succeeds(g, level, r) \/ Fails(g, r)
  BY <1>1, <1>2, Governed
<1>4. waiting' =
        [p \in Pid |->
           IF p # gov'.pid \/ (mistaken' /\ level = gov'.applied)
              \/ qos'[p] = ClassOf(e) \/ p \in faulty'
           THEN Content
           ELSE [class |-> ClassOf(e),
                 time  |-> IF waiting[p].class = ClassOf(e) THEN Older(waiting[p].time) ELSE 0]]
  BY DEF GovernProcess, Await, Deceived
\* The governor of this iteration, before it acts.
<1>5. /\ g.pid = scope
      /\ g.applied = "Responsive" => AllowAboveNormal
      /\ g.pid \in Pid => qos[g.pid] = ClassOf(g.applied) \/ found
      /\ g.since < Dwell => ~target_changed /\ g.since = Older(gov.since)
  <2>0. TargetOf(scope) = scope
    BY DEF TargetOf
  <2>1. CASE target_changed
    <3>1. g = NewGovernor(scope)
      BY <2>0, <2>1 DEF CurrentGovernor
    <3>2. ClassOf("Normal") = "Normal" /\ NoPid \notin Pid
      BY ActuatorAssumption DEF ClassOf
    <3> HIDE DEF g
    <3>3. g.pid = scope /\ g.since = Dwell /\ g.applied = IF scope = NoPid THEN "MonitorOnly" ELSE "Normal"
      BY <3>1 DEF NewGovernor
    <3> QED
      BY <1>1, <2>1, <3>2, <3>3, ActuatorAssumption
  <2>2. CASE ~target_changed
    <3>1. g = [gov EXCEPT !.since = Older(@)]
      BY <2>2 DEF CurrentGovernor
    <3>2. gov \in Governor
      BY DEF TypeOK, ControlOK
    <3> HIDE DEF g
    <3>3. g.pid = gov.pid /\ g.applied = gov.applied /\ g.since = Older(gov.since)
      BY <3>1, <3>2 DEF Governor
    <3> QED
      BY <2>0, <2>2, <3>3 DEF Prompt, Bound, Knows
  <2> QED
    BY <2>1, <2>2
<1>6. NoPid \notin Pid /\ Dwell \in Nat \ {0}
  BY ActuatorAssumption
<1>7. e = "Responsive" => AllowAboveNormal
  BY DEF EffectiveLevel
<1>8. ASSUME NEW p \in Pid, waiting'[p] # Content
      PROVE  /\ p = gov'.pid /\ qos'[p] # ClassOf(e) /\ p \notin faulty'
             /\ ~(mistaken' /\ level = gov'.applied)
             /\ waiting'[p].time = IF waiting[p].class = ClassOf(e) THEN Older(waiting[p].time) ELSE 0
  BY <1>4, <1>8
<1>9. found \in BOOLEAN
  BY DEF TypeOK, HistoryOK
<1> HIDE DEF g, e, level, found
\* A write.
<1>10. CASE Succeeds(g, level, r)
  <2>1. /\ gov'.pid = g.pid /\ gov'.applied = e /\ gov'.since = 0 /\ g.pid \in Pid
        /\ r.wrote = {g.pid}
    BY <1>2, <1>10 DEF Succeeds, e
  <2>2. qos'[g.pid] = ClassOf(e)
    BY <1>2, <2>1
  <2>3. \A p \in Pid : waiting'[p] = Content
    BY <1>8, <2>1, <2>2
  <2>4. Bound' /\ Knows'
    BY <1>5, <1>7, <2>1, <2>2 DEF Bound, Knows, TargetOf
  <2>5. Waits'
    BY <1>6, <2>1, <2>3, Contented DEF Waits
  <2> QED
    BY <2>4, <2>5 DEF Prompt, Reached
\* A write that failed, half way or altogether.
<1>11. CASE Fails(g, r)
  <2>0. g.pid \in Pid /\ r.gov = g /\ r.wrote \subseteq {g.pid} /\ r.failed = {g.pid}
    BY <1>11 DEF Fails
  <2>1. gov' = g /\ faulty' = {g.pid}
    BY <1>2, <2>0
  <2>2. \A p \in Pid : waiting'[p] = Content
    BY <1>8, <2>1
  <2>3. Bound' /\ Knows'
    <3>1. CASE r.wrote = {}
      <4>1. mistaken' = found /\ qos'[g.pid] = qos[g.pid]
        BY <1>2, <2>0, <3>1
      <4> QED
        BY <1>5, <2>0, <2>1, <4>1 DEF Bound, Knows, TargetOf
    <3>2. CASE r.wrote # {}
      <4>1. mistaken'
        BY <1>2, <2>0, <3>2
      <4> QED
        BY <1>5, <2>1, <4>1 DEF Bound, Knows, TargetOf
    <3> QED
      BY <3>1, <3>2
  <2>4. Waits'
    <3>1. gov'.since \in Nat
      BY <1>1, <1>6, <2>1 DEF Governor
    <3> QED
      BY <1>6, <2>2, <3>1, Contented DEF Waits
  <2> QED
    BY <2>3, <2>4 DEF Prompt, Reached
\* Nothing to write, or too early.
<1>12. CASE Holds(g, level, r)
  <2>0. /\ r.gov = g /\ r.wrote = {} /\ r.failed = {}
        /\ g.pid = NoPid \/ level = g.applied \/ g.since < Dwell
    BY <1>12 DEF Holds
  <2>1. gov' = g /\ qos' = [p \in Pid |-> qos[p]] /\ faulty' = {} /\ mistaken' = found
    <3>1. qos' = [p \in Pid |-> qos[p]]
      BY <1>2, <2>0
    <3>2. mistaken' = found
      BY <1>2, <1>9, <2>0
    <3> QED
      BY <1>2, <2>0, <3>1, <3>2
  <2>2. Bound' /\ Knows'
    BY <1>5, <2>1 DEF Bound, Knows, TargetOf
  <2>3. ASSUME NEW p \in Pid, waiting'[p] # Content
        PROVE  waiting'[p].time < Dwell /\ waiting'[p].time <= gov'.since
    <3>1. p = g.pid /\ qos[p] # ClassOf(e) /\ ~(found /\ level = g.applied)
      BY <1>8, <2>1, <2>3
    <3>2. level # g.applied
      <4>1. SUFFICES ASSUME level = g.applied PROVE FALSE
        OBVIOUS
      <4>2. e = g.applied
        BY <1>5, <4>1 DEF EffectiveLevel, e
      <4> QED
        BY <1>5, <3>1, <4>1, <4>2
    <3>3. g.since < Dwell
      BY <1>6, <2>0, <3>1, <3>2
    <3>4. g.since = Older(gov.since) /\ ~target_changed
      BY <1>5, <3>3
    <3>5. ~last_mesh_mode
      BY <3>4 DEF Prompt, Bound
    <3>6. waiting[p].time \in Nat /\ waiting[p].time < Dwell /\ waiting[p].time <= gov.since
      BY <1>6, <3>5 DEF Prompt, Waits, TypeOK, HistoryOK, Wait
    <3>7. gov.since \in 0 .. Dwell
      BY DEF TypeOK, ControlOK, Governor
    <3>8. /\ Older(waiting[p].time) < Dwell /\ Older(waiting[p].time) <= g.since
          /\ 0 <= g.since
      BY <3>3, <3>4, <3>6, <3>7, AgesTogether
    <3> QED
      BY <1>6, <1>8, <2>1, <2>3, <3>8
  <2>4. Waits'
    <3>1. gov'.since \in Nat
      BY <1>1, <1>6, <2>1 DEF Governor
    <3> QED
      BY <1>6, <2>3, <3>1, Contented DEF Waits
  <2> QED
    BY <2>2, <2>4 DEF Prompt, Reached
<1> QED
  BY <1>3, <1>10, <1>11, <1>12

\* In mesh mode the governor has no process, whatever it was bound to before.
LEMMA HostGovernor ==
  ASSUME TypeOK, Prompt, scope = Host, gov' = CurrentGovernor,
         last_mesh_mode' = TRUE, scope' = scope
  PROVE  Bound' /\ Knows'
<1>1. TargetOf(Host) = NoPid /\ NoPid \notin Pid
  BY ActuatorAssumption DEF TargetOf
<1>2. CASE target_changed
  <2>1. gov'.pid = NoPid /\ gov'.applied = "MonitorOnly"
    BY <1>1, <1>2 DEF CurrentGovernor, NewGovernor
  <2> QED
    BY <1>1, <2>1 DEF Bound, Knows
<1>3. CASE ~target_changed
  <2>1. gov' = [gov EXCEPT !.since = Older(@)] /\ gov \in Governor
    BY <1>3 DEF CurrentGovernor, TypeOK, ControlOK
  <2>2. gov'.pid = NoPid /\ gov'.applied = gov.applied
    BY <1>1, <1>3, <2>1 DEF Governor, Prompt, Bound
  <2> QED
    BY <1>1, <2>2 DEF Prompt, Bound, Knows
<1> QED
  BY <1>2, <1>3

\* The mesh as an iteration starts with it: new, or one iteration older.
LEMMA MeshBefore ==
  ASSUME TypeOK, Prompt, scope = Host
  PROVE  /\ \A p \in Chosen(CurrentMesh.pids) :
              qos[p] = ClassOf(CurrentMesh.applied)
                \/ p \in IF last_mesh_mode THEN faulty ELSE {}
         /\ CurrentMesh.since < Dwell =>
              last_mesh_mode /\ CurrentMesh.since = Older(mesh_controller.since)
<1>1. Dwell \in Nat \ {0}
  BY ActuatorAssumption
<1>2. CASE ~last_mesh_mode
  <2>1. CurrentMesh = NewMesh
    BY <1>2 DEF CurrentMesh
  <2>2. Chosen(<<>>) = {}
    BY DEF Chosen
  <2> QED
    BY <1>1, <2>1, <2>2 DEF NewMesh
<1>3. CASE last_mesh_mode
  <2>1. CurrentMesh = [mesh_controller EXCEPT !.since = Older(@)] /\ mesh_controller \in Mesh
    BY <1>3 DEF CurrentMesh, TypeOK, ControlOK
  <2>2. /\ CurrentMesh.pids = mesh_controller.pids
        /\ CurrentMesh.applied = mesh_controller.applied
        /\ CurrentMesh.since = Older(mesh_controller.since)
    BY <2>1 DEF Mesh
  <2> QED
    BY <1>3, <2>2 DEF Prompt, Reached
<1> QED
  BY <1>2, <1>3 DEF TypeOK, ControlOK

\* The processes of the mesh, in the same three cases.
LEMMA PromptHost ==
  ASSUME TypeOK, Prompt, controller' \in Controller, NEW ram \in Rams, GovernHost(ram),
         scope = Host, last_mesh_mode' = TRUE, scope' = scope
  PROVE  Prompt'
<1> DEFINE level == PreferMeshQos(controller'.level, ram)
           m == CurrentMesh
           known == IF last_mesh_mode THEN faulty ELSE {}
<1>1. Bound' /\ Knows'
  BY HostGovernor DEF GovernHost
<1>2. PICK s \in Selections(ram) : \E r \in MeshResults(m, level, s) :
        /\ mesh_controller' = r.mesh
        /\ qos' = [p \in Pid |-> IF p \in r.wrote THEN ClassOf(level) ELSE qos[p]]
        /\ faulty' = (known \ r.wrote) \cup {p \in r.refused : qos[p] # ClassOf(level)}
        /\ mistaken' = FALSE
        /\ Await(ClassOf(level), Chosen(s))
  BY DEF GovernHost
<1>3. PICK r \in MeshResults(m, level, s) :
        /\ mesh_controller' = r.mesh
        /\ qos' = [p \in Pid |-> IF p \in r.wrote THEN ClassOf(level) ELSE qos[p]]
        /\ faulty' = (known \ r.wrote) \cup {p \in r.refused : qos[p] # ClassOf(level)}
        /\ mistaken' = FALSE
        /\ Await(ClassOf(level), Chosen(s))
  BY <1>2
<1>4. ASSUME NEW p \in Pid, waiting'[p] # Content
      PROVE  /\ p \in Chosen(s) /\ qos'[p] # ClassOf(level) /\ p \notin faulty'
             /\ waiting'[p].time = IF waiting[p].class = ClassOf(level) THEN Older(waiting[p].time) ELSE 0
  BY <1>3, <1>4 DEF Await
<1>5. /\ \A p \in Chosen(m.pids) : qos[p] = ClassOf(m.applied) \/ p \in known
      /\ m.since < Dwell => last_mesh_mode /\ m.since = Older(mesh_controller.since)
  BY MeshBefore
<1>6. Dwell \in Nat \ {0} /\ Chosen(s) \subseteq Pid /\ m \in Mesh
  BY ActuatorAssumption, Selected, Carried
<1>7. Chosen(<<>>) = {}
  BY DEF Chosen
<1>8. \/ MeshHolds(m, level, s) /\ r = [mesh |-> m, wrote |-> {}, refused |-> {}]
      \/ \E w \in SUBSET Chosen(s) :
           r = [mesh |-> [applied |-> level, pids |-> s, since |-> 0],
                wrote |-> w, refused |-> Chosen(s) \ w]
  BY DEF MeshResults
<1> HIDE DEF level, m, known
<1>9. CASE MeshHolds(m, level, s) /\ r = [mesh |-> m, wrote |-> {}, refused |-> {}]
  <2>1. mesh_controller' = m /\ faulty' = known /\ \A p \in Pid : qos'[p] = qos[p]
    <3>1. r.mesh = m /\ r.wrote = {} /\ r.refused = {}
      BY <1>9
    <3> QED
      BY <1>3, <3>1
  <2>2. s = <<>> \/ (s = m.pids /\ level = m.applied) \/ m.since < Dwell
    BY <1>9 DEF MeshHolds
  <2>3. Reached'
    <3>1. \A p \in Chosen(m.pids) : p \in Pid => qos'[p] = ClassOf(m.applied) \/ p \in faulty'
      BY <1>5, <2>1
    <3>2. Chosen(m.pids) \subseteq Pid
      <4>1. m.pids \in Seq(Pid)
        BY <1>6 DEF Mesh
      <4> QED
        BY <4>1 DEF Chosen
    <3> QED
      BY <2>1, <3>1, <3>2 DEF Reached
  <2>4. ASSUME NEW p \in Pid, waiting'[p] # Content
        PROVE  waiting'[p].time < Dwell /\ waiting'[p].time <= mesh_controller'.since
    <3>1. p \in Chosen(s) /\ qos[p] # ClassOf(level) /\ p \notin known
      BY <1>4, <2>1, <2>4
    <3>2. m.since < Dwell
      BY <1>5, <1>7, <2>2, <3>1
    <3>3. last_mesh_mode /\ m.since = Older(mesh_controller.since)
      BY <1>5, <3>2
    <3>4. waiting[p].time \in Nat /\ waiting[p].time < Dwell /\ waiting[p].time <= mesh_controller.since
      BY <1>6, <3>3 DEF Prompt, Waits, TypeOK, HistoryOK, Wait
    <3>5. mesh_controller.since \in 0 .. Dwell
      BY DEF TypeOK, ControlOK, Mesh
    <3>6. Older(waiting[p].time) < Dwell /\ Older(waiting[p].time) <= m.since /\ 0 <= m.since
      BY <3>2, <3>3, <3>4, <3>5, AgesTogether
    <3> QED
      BY <1>4, <1>6, <2>1, <2>4, <3>6
  <2>5. Waits'
    <3>1. mesh_controller'.since \in Nat
      BY <1>6, <2>1 DEF Mesh
    <3> QED
      BY <1>6, <2>4, <3>1, Contented DEF Waits
  <2> QED
    BY <1>1, <2>3, <2>5 DEF Prompt
<1>10. CASE \E w \in SUBSET Chosen(s) :
              r = [mesh |-> [applied |-> level, pids |-> s, since |-> 0],
                   wrote |-> w, refused |-> Chosen(s) \ w]
  <2>1. PICK w \in SUBSET Chosen(s) :
          r = [mesh |-> [applied |-> level, pids |-> s, since |-> 0],
               wrote |-> w, refused |-> Chosen(s) \ w]
    BY <1>10
  <2>2. /\ mesh_controller' = [applied |-> level, pids |-> s, since |-> 0]
        /\ r.wrote = w /\ r.refused = Chosen(s) \ w
    BY <1>3, <2>1
  <2>3. \A p \in Chosen(s) : qos'[p] = ClassOf(level) \/ p \in faulty'
    BY <1>3, <1>6, <2>2
  <2>4. \A p \in Pid : waiting'[p] = Content
    BY <1>4, <2>3
  <2>5. Reached'
    BY <2>2, <2>3 DEF Reached
  <2>6. Waits'
    BY <1>6, <2>2, <2>4, Contented DEF Waits
  <2> QED
    BY <1>1, <2>5, <2>6 DEF Prompt
<1> QED
  BY <1>8, <1>9, <1>10

\* Nobody is asked for anything.
LEMMA PromptIdle ==
  ASSUME TypeOK, Prompt, LeaveHost, scope = Host, last_mesh_mode' = TRUE, scope' = scope
  PROVE  Prompt'
<1>1. Bound' /\ Knows'
  BY HostGovernor DEF LeaveHost
<1>2. /\ mesh_controller' = CurrentMesh /\ qos' = qos
      /\ faulty' = IF last_mesh_mode THEN faulty ELSE {}
      /\ \A p \in Pid : waiting'[p] = Content
  BY DEF LeaveHost
<1>3. Reached'
  BY <1>2, MeshBefore DEF Reached
<1>4. mesh_controller'.since \in Nat
  BY <1>2, Carried, ActuatorAssumption DEF Mesh
<1>5. Waits'
  BY <1>2, <1>4, Contented, ActuatorAssumption DEF Waits
<1> QED
  BY <1>1, <1>3, <1>5 DEF Prompt

LEMMA PromptInit == Init => Prompt
<1> SUFFICES ASSUME Init PROVE Prompt
  OBVIOUS
<1>1. NoPid \notin Pid /\ Host \notin Pid \cup {NoPid} /\ Dwell \in Nat \ {0}
  BY ActuatorAssumption, ActuationAssumption
<1>2. /\ scope \in Pid \cup {NoPid} /\ ~last_mesh_mode
      /\ gov.pid = scope /\ gov.since = Dwell
      /\ gov.applied = IF scope = NoPid THEN "MonitorOnly" ELSE "Normal"
  BY DEF Init, NewGovernor
<1>3. Bound
  <2>1. scope # Host /\ last_mesh_mode = FALSE
    BY <1>1, <1>2 DEF Init
  <2>2. TargetOf(scope) = scope
    BY <2>1 DEF TargetOf
  <2> QED
    BY <1>2, <2>1, <2>2 DEF Bound
<1>4. Knows
  BY <1>1, <1>2 DEF Init, Knows, ClassOf
<1>5. Waits
  BY <1>1, <1>2 DEF Init, Waits, Content
<1> QED
  BY <1>2, <1>3, <1>4, <1>5 DEF Prompt, Reached

LEMMA PromptStep == TypeOK /\ Prompt /\ [Next]_vars => Prompt'
<1> SUFFICES ASSUME TypeOK, Prompt, [Next]_vars PROVE Prompt'
  OBVIOUS
<1> USE DEF Prompt, Bound, Knows, Reached, Waits
<1>1. ASSUME NEW s \in Scope, Retarget(s) PROVE Prompt'
  BY <1>1 DEF Retarget, loop, hist
<1>2. CASE OpenEpoch
  BY <1>2 DEF OpenEpoch, loop, hist
<1>3. ASSUME NEW temp \in Temps, NEW ram \in Rams, NEW active \in BOOLEAN, NEW mode \in Modes,
             Iterate(temp, ram, active, mode)
      PROVE  Prompt'
  <2> USE DEF Iterate
  <2>1. controller' \in Controller
    BY <1>3, Iterated
  <2>2. CASE scope # Host /\ GovernProcess
    BY <1>3, <2>1, <2>2, PromptProcess
  <2>3. CASE scope = Host /\ GovernHost(ram)
    BY <1>3, <2>1, <2>3, PromptHost
  <2>4. CASE scope = Host /\ LeaveHost
    BY <1>3, <2>4, PromptIdle
  <2> QED
    BY <1>3, <2>2, <2>3, <2>4
<1>4. CASE UNCHANGED vars
  BY <1>4 DEF vars, requests, loop, hist
<1> QED
  BY <1>1, <1>2, <1>3, <1>4 DEF Next

\* The dwell time defers a change and never loses it, whatever levels, selections,
\* failures and actuators follow each other (governor.rs:34-81, 304-408).
THEOREM Delivery == Spec => []AskedIsApplied
<1>1. Prompt => AskedIsApplied
  BY DEF Prompt, Waits, AskedIsApplied
<1> QED
  BY <1>1, PromptInit, PromptStep, TypeCorrect, PTL DEF Spec
================================================================================
