------------------------------- MODULE Interlink -------------------------------
(***************************************************************************)
(* The governance path of PulseFlow: the HTTP handlers of src/server.rs    *)
(* that move the authority state, the control loop of src/main.rs that     *)
(* reads a snapshot of that state, samples the target, applies a QoS level *)
(* and writes faults back, the governor of src/governor.rs that the loop   *)
(* drives, and the operating system's processes, which exit and whose PIDs *)
(* are reused.                                                             *)
(*                                                                         *)
(* A handler holds the write lock of RuntimeState from its first read to   *)
(* its last write and is one action, except that connect and process       *)
(* discovery look at the operating system before they take the lock.  The  *)
(* loop takes the lock twice per iteration, and everything can happen in   *)
(* between: its iteration is four actions.                                 *)
(*                                                                         *)
(* Times are ages: the code compares instants only by their difference     *)
(* with one limit, so an age that stops growing past the limit loses       *)
(* nothing.  target_revision is only ever compared with the loop's copy    *)
(* of it: target_changed says that they differ.                            *)
(***************************************************************************)
EXTENDS Integers, FiniteSets, Authority

CONSTANTS
  Pid,            \* PIDs that discovery reports as controllable
  NoPid,
  Image,          \* what a process runs: executable name and hashed path
  NoImage,        \* no process has this PID
  Unhashed,       \* the identity given to a target named on the command line
  TTL,            \* ticks a receipt counts as fresh (300 000 ms in the code)
  Dwell,          \* ticks between two QoS changes (minimum_dwell_ms)
  AllowAboveNormal, \* allow_above_normal_priority of the configuration
  Supported,      \* platform_governor_supported(): built for Windows
  PartialWrites,  \* a QoS write may fail after it has changed the priority
  StartClasses,   \* priority classes processes give themselves
  Requests,       \* QoS levels the active controller asks for
  InFlight        \* bound: connects and discoveries under way at once

QosLevel == {"MonitorOnly", "Eco", "Normal", "Responsive", "ThermalProtect"}
Class == {"Below", "Normal", "Above"}

ASSUME ConstantsAssumption ==
  /\ NoPid \notin Pid
  /\ NoImage \notin Image /\ Unhashed \notin Image /\ Unhashed # NoImage
  /\ TTL \in Nat /\ Dwell \in Nat \ {0} /\ InFlight \in Nat \ {0}
  /\ AllowAboveNormal \in BOOLEAN /\ Supported \in BOOLEAN /\ PartialWrites \in BOOLEAN
  /\ StartClasses \subseteq Class
  /\ Requests \subseteq QosLevel \ {"MonitorOnly"}

VARIABLES
  \* RuntimeState, shared under its lock
  authority, last_valid, failed, target, identity, target_changed,
  discovered, governor_active, mesh, receipt, receipt_age, applied_qos,
  \* HTTP requests that have looked at the processes and not yet committed
  lookups, scans,
  \* the control loop
  pc, snap, gov,
  \* the operating system
  os, qos,
  \* history: the identity the last VERIFY confirmed, and how long ago
  verified, verified_age

link == <<authority, last_valid, failed, target, identity, target_changed,
          governor_active, mesh, receipt, receipt_age, applied_qos>>
http == <<discovered, lookups, scans>>
loop == <<pc, snap, gov>>
host == <<os, qos>>
hist == <<verified, verified_age>>
vars == <<link, http, loop, host, hist>>

NoIdentity == [pid |-> NoPid, image |-> NoImage]
Candidate  == [pid : Pid, image : Image]
Identity   == [pid : Pid, image : Image \cup {Unhashed}]

NoReceipt == [kind |-> "none", previous |-> "Observation", resulting |-> "Observation"]
ReceiptKind == {"CONNECT", "VERIFY", "ENABLE", "RESUME", "PAUSE", "DISCONNECT", "MESH_ENABLE"}
Receipt == [kind : ReceiptKind, previous : AuthorityState, resulting : AuthorityState]

Failure == {"none", "pid_identity_changed", "target_process_exited", "verification_expired"}

Snapshots == [target : Pid \cup {NoPid}, armed : BOOLEAN, mesh : BOOLEAN,
              fresh : BOOLEAN, alive : BOOLEAN, applied : QosLevel]
NoSnapshot == [target |-> NoPid, armed |-> FALSE, mesh |-> FALSE,
               fresh |-> FALSE, alive |-> TRUE, applied |-> "MonitorOnly"]

Governor  == [pid : Pid \cup {NoPid}, applied : QosLevel, since : 0 .. Dwell]

\* ProcessGovernor::new: it takes a target to be at Normal, and to be free to change.
NewGovernor(p) ==
  [pid |-> p, applied |-> IF p = NoPid THEN "MonitorOnly" ELSE "Normal", since |-> Dwell]

Running(p) == os[p] # NoImage
Fresh == receipt # NoReceipt /\ receipt_age <= TTL

--------------------------------------------------------------------------------
Init ==
  /\ os \in [Pid -> Image \cup {NoImage}]
  /\ qos \in [Pid -> StartClasses]
  /\ target \in Pid \cup {NoPid}
  /\ identity = IF target = NoPid THEN NoIdentity ELSE [pid |-> target, image |-> Unhashed]
  /\ authority = IF target = NoPid THEN "Observation" ELSE "Connected"
  /\ last_valid = authority
  /\ failed = "none"
  /\ target_changed = FALSE
  /\ discovered = {}
  /\ governor_active = FALSE
  /\ mesh = FALSE
  /\ receipt = NoReceipt
  /\ receipt_age = 0
  /\ applied_qos = "MonitorOnly"
  /\ lookups = {}
  /\ scans = {}
  /\ pc = "snapshot"
  /\ snap = NoSnapshot
  /\ gov = NewGovernor(target)
  /\ verified = NoIdentity
  /\ verified_age = 0

--------------------------------------------------------------------------------
(* What handlers share. *)

\* push_receipt: whatever it is about, the newest receipt becomes the
\* verification receipt, and its result the last valid state.
PushReceipt(kind, previous, resulting) ==
  /\ receipt' = [kind |-> kind, previous |-> previous, resulting |-> resulting]
  /\ receipt_age' = 0
  /\ last_valid' = resulting

\* begin_new_epoch, the part of it that governance sees: the published control
\* output starts over at its default.
BeginNewEpoch == applied_qos' = "MonitorOnly"

\* MUTANT of Retarget: target_revision is not advanced.
RetargetUnseen(p, id) == target' = p /\ identity' = id /\ UNCHANGED target_changed

\* The target fields, and the revision that tells the loop of the change.
Retarget(p, id) ==
  /\ target' = p
  /\ identity' = id
  /\ target_changed' = TRUE

KeepTarget == UNCHANGED <<target, identity, target_changed>>

\* The history starts over with the target.
Unverified == verified' = NoIdentity /\ verified_age' = 0

--------------------------------------------------------------------------------
(* Handlers. *)

\* GET /api/processes lists the processes ...
ListProcesses ==
  /\ Cardinality(scans) + Cardinality(lookups) < InFlight
  /\ scans' = scans \cup {{p \in Pid : Running(p)}}
  /\ UNCHANGED <<link, discovered, lookups, loop, host, hist>>

\* ... and then publishes what it saw.
PublishDiscovery(pids) ==
  /\ pids \in scans
  /\ scans' = scans \ {pids}
  /\ discovered' = pids
  /\ IF authority \in {"Observation", "Disconnected"} /\ pids # {}
       THEN authority' = "Discovered" /\ last_valid' = "Discovered"
       ELSE UNCHANGED <<authority, last_valid>>
  /\ KeepTarget
  /\ UNCHANGED <<failed, governor_active, mesh, receipt, receipt_age, applied_qos,
                 lookups, loop, host, hist>>

\* POST /api/interlink/connect finds the process ...
FindCandidate(p) ==
  /\ Cardinality(scans) + Cardinality(lookups) < InFlight
  /\ Running(p)
  /\ lookups' = lookups \cup {[pid |-> p, image |-> os[p]]}
  /\ UNCHANGED <<link, discovered, scans, loop, host, hist>>

\* MUTANT of ConnectAllowed: the authority state is not looked at.
ConnectAnytime(c) == c.pid \in discovered
\* MUTANT of ConnectAllowed: a faulted link may be connected again.
ConnectWhenFaulted(c) ==
  c.pid \in discovered /\ authority \in {"Discovered", "Disconnected", "Faulted"}

ConnectAllowed(c) == c.pid \in discovered /\ authority \in {"Discovered", "Disconnected"}

\* ... and then, under the lock, makes what it found the target.
Connect(c) ==
  /\ c \in lookups
  /\ lookups' = lookups \ {c}
  /\ ConnectAllowed(c)
  /\ Retarget(c.pid, c)
  /\ governor_active' = FALSE
  /\ authority' = Resulting("Connect")
  /\ failed' = "none"
  /\ BeginNewEpoch
  /\ PushReceipt("CONNECT", "Discovered", Resulting("Connect"))
  /\ Unverified
  /\ UNCHANGED <<mesh, discovered, scans, loop, host>>

ConnectRefused(c) ==
  /\ c \in lookups
  /\ ~ConnectAllowed(c)
  /\ lookups' = lookups \ {c}
  /\ UNCHANGED <<link, discovered, scans, loop, host, hist>>

\* POST /api/interlink/verify: the process that has the PID now is the one connected.
Verify ==
  /\ authority = "Connected"
  /\ identity # NoIdentity
  /\ os[identity.pid] = identity.image
  /\ authority' = Resulting("Verify")
  /\ failed' = "none"
  /\ PushReceipt("VERIFY", authority, Resulting("Verify"))
  /\ verified' = identity
  /\ verified_age' = 0
  /\ KeepTarget
  /\ UNCHANGED <<governor_active, mesh, applied_qos, http, loop, host>>

\* ... or another one is, and the link faults without a receipt.
VerifyMismatch ==
  /\ authority = "Connected"
  /\ identity # NoIdentity
  /\ Running(identity.pid)
  /\ os[identity.pid] # identity.image
  /\ authority' = "Faulted"
  /\ failed' = "pid_identity_changed"
  /\ KeepTarget
  /\ UNCHANGED <<last_valid, governor_active, mesh, receipt, receipt_age, applied_qos,
                 http, loop, host, hist>>

\* POST /api/interlink/baseline
Baseline ==
  /\ authority \in {"Verified", "Paused"}
  /\ governor_active' = FALSE
  /\ BeginNewEpoch
  /\ KeepTarget
  /\ UNCHANGED <<authority, last_valid, failed, mesh, receipt, receipt_age,
                 http, loop, host, hist>>

\* MUTANT of EnableAllowed: verification may be skipped.
EnableConnected == authority \in {"Connected", "Verified", "Paused"} /\ target # NoPid

EnableAllowed == authority \in {"Verified", "Paused"} /\ target # NoPid

\* POST /api/interlink/enable
Enable ==
  LET action == IF authority = "Paused" THEN "Resume" ELSE "Enable"
      kind   == IF authority = "Paused" THEN "RESUME" ELSE "ENABLE" IN
  /\ EnableAllowed
  /\ Supported
  /\ Running(target)
  /\ mesh' = FALSE
  /\ governor_active' = TRUE
  /\ authority' = Resulting(action)
  /\ BeginNewEpoch
  /\ PushReceipt(kind, authority, Resulting(action))
  /\ KeepTarget
  /\ UNCHANGED <<failed, http, loop, host, hist>>

\* POST /api/interlink/mesh: the whole host, from any state.
EnableMesh ==
  /\ Supported
  /\ mesh' = TRUE
  /\ Retarget(NoPid, NoIdentity)
  /\ governor_active' = TRUE
  /\ authority' = "Active"
  /\ failed' = "none"
  /\ BeginNewEpoch
  /\ PushReceipt("MESH_ENABLE", authority, "Active")
  /\ Unverified
  /\ UNCHANGED <<http, loop, host>>

\* POST /api/control with "start" ...
Start ==
  /\ authority = "Paused"
  /\ authority' = Resulting("Resume")
  /\ governor_active' = TRUE
  /\ PushReceipt("RESUME", authority, Resulting("Resume"))
  /\ KeepTarget
  /\ UNCHANGED <<failed, mesh, applied_qos, http, loop, host, hist>>

\* ... and with "pause".
Pause ==
  /\ authority = "Active"
  /\ governor_active' = FALSE
  /\ authority' = Resulting("Pause")
  /\ PushReceipt("PAUSE", authority, Resulting("Pause"))
  /\ KeepTarget
  /\ UNCHANGED <<failed, mesh, applied_qos, http, loop, host, hist>>

\* POST /api/interlink/disconnect
Disconnect ==
  /\ Accepts(authority, "Disconnect")
  /\ Retarget(NoPid, NoIdentity)
  /\ mesh' = FALSE
  /\ governor_active' = FALSE
  /\ authority' = Resulting("Disconnect")
  /\ failed' = "none"
  /\ BeginNewEpoch
  /\ PushReceipt("DISCONNECT", authority, Resulting("Disconnect"))
  /\ Unverified
  /\ UNCHANGED <<http, loop, host>>

\* The agent's tool enable_pulse_mesh does what EnableMesh does, without a receipt.
AgentEnableMesh ==
  /\ Supported
  /\ mesh' = TRUE
  /\ Retarget(NoPid, NoIdentity)
  /\ governor_active' = TRUE
  /\ authority' = "Active"
  /\ last_valid' = "Active"
  /\ failed' = "none"
  /\ BeginNewEpoch
  /\ Unverified
  /\ UNCHANGED <<receipt, receipt_age, http, loop, host>>

\* Its tool disconnect_governance returns to observation from any state, without a
\* receipt and within the epoch.
AgentDisconnect ==
  /\ Retarget(NoPid, NoIdentity)
  /\ mesh' = FALSE
  /\ governor_active' = FALSE
  /\ authority' = "Observation"
  /\ last_valid' = "Observation"
  /\ failed' = "none"
  /\ receipt' = NoReceipt
  /\ receipt_age' = 0
  /\ Unverified
  /\ UNCHANGED <<applied_qos, http, loop, host>>

\* The requests that open an epoch and leave authority alone: control reset,
\* session/new, and a change of mode, learning stage or tuning.
OpenEpoch ==
  /\ BeginNewEpoch
  /\ KeepTarget
  /\ UNCHANGED <<authority, last_valid, failed, governor_active, mesh,
                 receipt, receipt_age, http, loop, host, hist>>

--------------------------------------------------------------------------------
(* The control loop. *)

\* It copies the state under the read lock and, if the target changed,
\* starts over with a new governor.
Snapshot ==
  /\ pc = "snapshot"
  /\ snap' = [snap EXCEPT !.target = target, !.mesh = mesh, !.fresh = Fresh,
                          !.armed = governor_active /\ authority = "Active"]
  /\ gov' = IF target_changed THEN NewGovernor(target) ELSE gov
  /\ target_changed' = FALSE
  /\ pc' = "sample"
  /\ UNCHANGED <<authority, last_valid, failed, target, identity, governor_active, mesh,
                 receipt, receipt_age, applied_qos, http, host, hist>>

\* Whether a process has the target's PID; the executable is not compared.
Sample ==
  /\ pc = "sample"
  /\ snap' = [snap EXCEPT !.alive = IF snap.target = NoPid THEN TRUE ELSE Running(snap.target)]
  /\ pc' = "apply"
  /\ UNCHANGED <<link, http, gov, host, hist>>

EffectiveActive == snap.armed /\ (snap.mesh \/ (snap.alive /\ snap.fresh))

\* MUTANT of ClassOf: the level is written instead of its priority class.
LevelAsClass(level) == level

ClassOf(level) ==
  CASE level \in {"Eco", "ThermalProtect"} -> "Below"
    [] level = "Responsive"                -> "Above"
    [] OTHER                               -> "Normal"

\* MUTANT of GovernorHolds: falling back to monitoring writes nothing.
HoldsWhenMonitoring(level) ==
  gov.pid = NoPid \/ level \in {gov.applied, "MonitorOnly"} \/ gov.since < Dwell

\* ProcessGovernor::apply of a level the governor holds or may not leave yet.
GovernorHolds(level) == gov.pid = NoPid \/ level = gov.applied \/ gov.since < Dwell

\* Responsive is Normal unless the configuration allows it.
EffectiveLevel(level) ==
  IF level = "Responsive" /\ ~AllowAboveNormal THEN "Normal" ELSE level

HoldQos(level) ==
  /\ GovernorHolds(level)
  /\ snap' = [snap EXCEPT !.applied = gov.applied]
  /\ UNCHANGED <<gov, qos>>

WriteQos(level) ==
  LET e == EffectiveLevel(level) IN
  /\ ~GovernorHolds(level)
  /\ Supported /\ Running(gov.pid)
  /\ qos' = [qos EXCEPT ![gov.pid] = ClassOf(e)]
  /\ gov' = [gov EXCEPT !.applied = e, !.since = 0]
  /\ snap' = [snap EXCEPT !.applied = e]

\* The process is gone, access is denied, or the second of the two system calls
\* fails after the first has changed the priority.
FailQos(level) ==
  /\ ~GovernorHolds(level)
  /\ \/ UNCHANGED qos
     \/ /\ PartialWrites /\ Supported /\ Running(gov.pid)
        /\ qos' = [qos EXCEPT ![gov.pid] = ClassOf(EffectiveLevel(level))]
  /\ snap' = [snap EXCEPT !.applied = gov.applied]
  /\ UNCHANGED gov

GovernorApply(level) == HoldQos(level) \/ WriteQos(level) \/ FailQos(level)

\* MeshController::step, its choice of processes and its own dwell left open:
\* it writes the level to some of the running processes, or to none and
\* reports the level it wrote before.
MeshStep(level) ==
  /\ UNCHANGED gov
  /\ \/ \E chosen \in SUBSET {p \in Pid : Running(p)} :
          qos' = [p \in Pid |-> IF p \in chosen THEN ClassOf(level) ELSE qos[p]]
        /\ snap' = [snap EXCEPT !.applied = level]
     \/ \E held \in Requests \cup {"MonitorOnly"} : snap' = [snap EXCEPT !.applied = held]
        /\ UNCHANGED qos

Apply ==
  /\ pc = "apply"
  /\ IF ~EffectiveActive THEN GovernorApply("MonitorOnly")
     ELSE \E level \in Requests :
            IF snap.mesh THEN MeshStep(level) ELSE GovernorApply(level)
  /\ pc' = "write"
  /\ UNCHANGED <<link, http, os, hist>>

\* Under the write lock: today's authority is judged by this iteration's sample.
\* MUTANT of ProcessExited: the mesh condition is inverted.
ExitedInMesh == authority = "Active" /\ mesh /\ ~snap.alive
ProcessExited == authority = "Active" /\ ~mesh /\ ~snap.alive

\* MUTANT of VerificationExpired: the mesh condition is inverted.
ExpiredInMesh == authority = "Active" /\ mesh /\ snap.alive /\ ~snap.fresh
VerificationExpired == authority = "Active" /\ ~mesh /\ snap.alive /\ ~snap.fresh

\* MUTANT of StillArmed: only the exit of the process disarms.
ArmedWhenExpired == governor_active /\ snap.alive
\* A fault disarms the governor, and so does a sample without the process.
StillArmed == governor_active /\ ~VerificationExpired /\ snap.alive

WriteBack ==
  /\ pc = "write"
  /\ IF ProcessExited \/ VerificationExpired
       THEN /\ authority' = "Faulted"
            /\ last_valid' = IF ProcessExited THEN "Verified" ELSE "Connected"
            /\ failed' = IF ProcessExited THEN "target_process_exited"
                                          ELSE "verification_expired"
       ELSE UNCHANGED <<authority, last_valid, failed>>
  /\ governor_active' = StillArmed
  /\ applied_qos' = snap.applied
  /\ pc' = "snapshot"
  /\ snap' = NoSnapshot
  /\ KeepTarget
  /\ UNCHANGED <<mesh, receipt, receipt_age, http, gov, host, hist>>

--------------------------------------------------------------------------------
(* The environment. *)

ProcessExit(p) ==
  /\ Running(p)
  /\ os' = [os EXCEPT ![p] = NoImage]
  /\ qos' = [qos EXCEPT ![p] = "Normal"]
  /\ UNCHANGED <<link, http, loop, hist>>

\* A process starts; its PID may have been another's.
ProcessStart(p) ==
  /\ ~Running(p)
  /\ \E i \in Image : os' = [os EXCEPT ![p] = i]
  /\ \E c \in StartClasses : qos' = [qos EXCEPT ![p] = c]
  /\ UNCHANGED <<link, http, loop, hist>>

Older(age, limit) == IF age < limit THEN age + 1 ELSE limit

Tick ==
  /\ receipt_age' = IF receipt = NoReceipt THEN 0 ELSE Older(receipt_age, TTL + 1)
  /\ verified_age' = IF verified = NoIdentity THEN 0 ELSE Older(verified_age, TTL + 1)
  /\ gov' = [gov EXCEPT !.since = Older(gov.since, Dwell)]
  /\ UNCHANGED <<authority, last_valid, failed, target, identity, target_changed,
                 governor_active, mesh, receipt, applied_qos, http, pc, snap, host, verified>>

--------------------------------------------------------------------------------
Handler ==
  \/ ListProcesses \/ (\E pids \in SUBSET Pid : PublishDiscovery(pids))
  \/ (\E p \in Pid : FindCandidate(p))
  \/ (\E c \in Candidate : Connect(c) \/ ConnectRefused(c))
  \/ Verify \/ VerifyMismatch \/ Baseline \/ Enable \/ EnableMesh
  \/ Start \/ Pause \/ Disconnect \/ AgentEnableMesh \/ AgentDisconnect \/ OpenEpoch

Loop == Snapshot \/ Sample \/ Apply \/ WriteBack

Environment == Tick \/ \E p \in Pid : ProcessExit(p) \/ ProcessStart(p)

Next == Handler \/ Loop \/ Environment

Spec == Init /\ [][Next]_vars

(* The loop's thread and time never stop, and the operating system does not     *)
(* refuse for ever to change the priority of a process; operators are free to   *)
(* do nothing, and processes to live on.                                        *)
WriteSucceeds == pc = "apply" /\ ~snap.mesh /\ Apply /\ \E level \in QosLevel : WriteQos(level)
FairSpec == Spec /\ WF_vars(Loop) /\ WF_vars(Tick) /\ SF_vars(WriteSucceeds)

--------------------------------------------------------------------------------
(* Safety. *)

\* Every variable has its type.
LinkOK ==
  /\ authority \in AuthorityState /\ last_valid \in AuthorityState
  /\ failed \in Failure
  /\ target \in Pid \cup {NoPid}
  /\ identity \in Identity \cup {NoIdentity}
  /\ target_changed \in BOOLEAN /\ governor_active \in BOOLEAN /\ mesh \in BOOLEAN
  /\ receipt \in Receipt \cup {NoReceipt}
  /\ receipt_age \in 0 .. TTL + 1
  /\ applied_qos \in QosLevel
HttpOK == discovered \subseteq Pid /\ lookups \subseteq Candidate /\ scans \subseteq SUBSET Pid
LoopOK ==
  /\ pc \in {"snapshot", "sample", "apply", "write"}
  /\ snap \in Snapshots
  /\ gov \in Governor
HostOK == os \in [Pid -> Image \cup {NoImage}] /\ qos \in [Pid -> Class]
HistOK == verified \in Identity \cup {NoIdentity} /\ verified_age \in 0 .. TTL + 1

TypeOK == LinkOK /\ HttpOK /\ LoopOK /\ HostOK /\ HistOK

\* The governor is armed only while authority is Active: whichever handler or
\* fault takes authority away disarms it in the same critical section.
ArmedOnlyWhileActive == governor_active => authority = "Active"

\* Authority over the host and over one process exclude each other: in mesh mode
\* there is no target, and the state is Active or Paused; without it, a state
\* above discovery is about exactly one target, and the others are about none.
OneScope ==
  /\ mesh => target = NoPid /\ authority \in {"Active", "Paused"}
  /\ ~mesh => ((target # NoPid) <=>
                authority \in {"Connected", "Verified", "Active", "Paused", "Faulted"})
  /\ identity.pid = target

\* A target that may be governed is the one the last VERIFY receipt confirmed,
\* PID and executable, since it was connected: no order of connects, mesh
\* grants, disconnects and faults carries a verification over to another target.
GovernedTargetWasVerified ==
  authority \in {"Verified", "Active", "Paused"} /\ ~mesh => verified = identity

\* The loop's governor follows the target with a delay that target_changed makes
\* good: between the snapshot and the write-back it stays bound to the process of
\* the snapshot, in mesh mode it is bound to none, so that one iteration never
\* modulates both, and an armed snapshot of one process is of the verified one.
\* (With the invariants above and the types this is inductive.)
GovernorFollowsTarget ==
  /\ target_changed \/ gov.pid = target
  /\ pc # "snapshot" =>
       /\ gov.pid = snap.target
       /\ snap.mesh => snap.target = NoPid
       /\ snap.armed /\ ~snap.mesh =>
            snap.target # NoPid /\ (target_changed \/ verified.pid = snap.target)

\* The table of allowed actions shown with a state names exactly the actions that
\* transition() accepts in it, in every state the handlers reach.
ContractMatchesTransitions ==
  AllowedActions[authority] = {a \in AuthorityAction : Accepts(authority, a)}

--------------------------------------------------------------------------------
(* What the handlers implement: the ladder, as steep as the code makes it.  A    *)
(* disconnected link may be connected without discovering anew, the whole host   *)
(* may be governed from any state, and the agent may drop any link.              *)
LadderAsBuilt == INSTANCE AuthorityLadder
  WITH state <- authority, subject <- target, verified <- verified # NoIdentity,
       ConnectFrom <- {"Discovered", "Disconnected"}, HostGrantFrom <- AuthorityState,
       DropFrom <- AuthorityState

\* Connects, faults, pauses and mesh grants of all interleavings climb that ladder:
\* no rung is skipped and the subject changes only where the ladder changes it.
FollowsLadder == LadderAsBuilt!Spec

--------------------------------------------------------------------------------
(* Liveness, under FairSpec. *)

\* If the process governed exits, the Active claim goes, unless the operator takes
\* it away first or another process gets the PID.
ExitedTargetLosesActive ==
  \A p \in Pid :
    authority = "Active" /\ target = p /\ ~Running(p)
      ~> authority # "Active" \/ target # p \/ Running(p)

\* If no receipt is fresh any more, the Active claim goes, unless a new one comes.
StaleReceiptLosesActive ==
  authority = "Active" /\ ~mesh /\ ~Fresh ~> authority # "Active" \/ mesh \/ Fresh

\* A target lowered while it was governed gets its priority back when it is paused
\* for good, although the change may first be deferred by the dwell time.
PausedTargetIsReleased ==
  \A p \in Pid :
    authority = "Paused" /\ target = p /\ qos[p] = "Below"
      ~> authority # "Paused" \/ qos[p] # "Below"

================================================================================
