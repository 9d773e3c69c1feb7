---------------------------- MODULE PulseController ----------------------------
(***************************************************************************)
(* src/controller.rs: from a sample of the host to the QoS level that the  *)
(* control loop asks for.                                                  *)
(*                                                                         *)
(* The capacity (the code's field authority) is what the feedback on       *)
(* filtered stress leaves of the machine.  How stress moves it is          *)
(* floating-point arithmetic; what the choice of a level rests on is that  *)
(* it stays between 0 and 1 and moves by no more than a slew limit per     *)
(* sample.  Here it is a number of steps between 0 and FullCapacity.       *)
(***************************************************************************)
EXTENDS Integers

CONSTANTS
  Guard, Release,    \* thermal_guard_c, thermal_release_c
  NoReading,         \* the sample has no GPU temperature
  FullCapacity,      \* capacity 1.0
  StartCapacity,     \* capacity of a new controller, 0.70
  Slew,              \* the largest slew_per_sample that a tuning can set
  EcoEnter, EcoExit, ResponsiveEnter, ResponsiveExit,
  EcoRamEnter        \* eco_ram_enter_percent of the host's profile

QosLevel == {"MonitorOnly", "Eco", "Normal", "Responsive", "ThermalProtect"}
OperatingMode == {"Quiet", "Balanced", "Performance"}

\* No order of the thresholds is assumed: nothing checks a configuration file.
ASSUME ControllerAssumption ==
  /\ Guard \in Int /\ Release \in Int /\ NoReading \notin Int
  /\ FullCapacity \in Nat /\ StartCapacity \in 0 .. FullCapacity /\ Slew \in Nat
  /\ {EcoEnter, EcoExit, ResponsiveEnter, ResponsiveExit, EcoRamEnter} \subseteq Int

Controller == [capacity : 0 .. FullCapacity, level : QosLevel, latched : BOOLEAN]

Clamp(x, low, high) == IF x < low THEN low ELSE IF x > high THEN high ELSE x

\* PulseController::new for a target, or for none.
NewController(monitor_only) ==
  [capacity |-> StartCapacity,
   level    |-> IF monitor_only THEN "MonitorOnly" ELSE "Normal",
   latched  |-> FALSE]

\* A new epoch forgets the level, the capacity and the thermal latch.
ResetController(c, monitor_only) == NewController(monitor_only)

\* MUTANT of Latch: release is looked at first, and a missing reading releases.
LatchWithoutMemory(latched, temp) == temp # NoReading /\ temp >= Guard

\* Set by a reading at the guard, cleared by one at the release threshold, in
\* this order; without a reading it stays.
Latch(latched, temp) ==
  /\ latched \/ (temp # NoReading /\ temp >= Guard)
  /\ ~(temp # NoReading /\ temp <= Release)

\* MUTANT of SelectQos: one threshold for entering and leaving Eco.
SelectWithoutHysteresis(level, capacity, mode) ==
  IF capacity <= EcoEnter THEN "Eco" ELSE "Normal"

\* select_qos: a level that is held is left at another capacity than it is entered.
SelectQos(level, capacity, mode) ==
  LET fast == mode = "Performance" IN
  CASE level \in {"Eco", "ThermalProtect"} /\ capacity < EcoExit -> "Eco"
    [] level = "Responsive" /\ capacity > ResponsiveExit /\ fast -> "Responsive"
    [] level \in {"MonitorOnly", "Normal"} /\ capacity <= EcoEnter -> "Eco"
    [] level \in {"MonitorOnly", "Normal"} /\ capacity > EcoEnter
       /\ capacity >= ResponsiveEnter /\ fast -> "Responsive"
    [] OTHER -> "Normal"

\* set_eco_ram_enter_percent: from this much memory in use, Eco whatever the capacity.
RamAssist(ram) == ram >= Clamp(EcoRamEnter, 50, 99)

\* The level a step asks for. Protection comes before memory, memory before capacity.
RequestedQos(level, latched, capacity, active, ram, mode) ==
  CASE ~active                               -> "MonitorOnly"
    [] active /\ latched                     -> "ThermalProtect"
    [] active /\ ~latched /\ RamAssist(ram)  -> "Eco"
    [] active /\ ~latched /\ ~RamAssist(ram) -> SelectQos(level, capacity, mode)

\* MUTANT of NextCapacity: the clamp is forgotten.
UnboundedCapacity(capacity) == (capacity - Slew) .. (capacity + Slew)

\* The capacities one step may lead to.
NextCapacity(capacity) ==
  {x \in 0 .. FullCapacity : x - capacity <= Slew /\ capacity - x <= Slew}

\* PulseController::step, with the capacity that the feedback arrives at.
ControllerStep(c, temp, ram, active, mode, capacity) ==
  LET latched == Latch(c.latched, temp) IN
  [capacity |-> capacity,
   latched  |-> latched,
   level    |-> RequestedQos(c.level, latched, capacity, active, ram, mode)]
================================================================================
