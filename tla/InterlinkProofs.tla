---------------------------- MODULE InterlinkProofs ----------------------------
(***************************************************************************)
(* Theorems about Interlink, for every set of processes and executables,   *)
(* every lifetime of a receipt and every dwell time.                       *)
(***************************************************************************)
EXTENDS Interlink, TLAPS

USE ConstantsAssumption

--------------------------------------------------------------------------------
(* Facts about the constants and the helpers of the handlers.                    *)

LEMMA Constants ==
  /\ Candidate \subseteq Identity
  /\ \A c \in Identity : c.pid \in Pid
  /\ NoIdentity \notin Identity /\ NoIdentity.pid = NoPid
  /\ 0 \in 0 .. TTL + 1
  BY DEF Identity, Candidate, NoIdentity

LEMMA Names ==
  /\ {"Active", "Faulted", "Discovered", "Connected", "Verified"} \subseteq AuthorityState
  /\ Resulting("Connect") = "Connected" /\ Resulting("Verify") = "Verified"
  /\ Resulting("Enable") = "Active" /\ Resulting("Resume") = "Active"
  /\ Resulting("Pause") = "Paused" /\ Resulting("Disconnect") = "Disconnected"
  /\ {"Paused", "Disconnected", "Observation"} \subseteq AuthorityState
  /\ "MonitorOnly" \in QosLevel
  /\ {"none", "pid_identity_changed", "target_process_exited", "verification_expired"}
       \subseteq Failure
  /\ {"CONNECT", "VERIFY", "ENABLE", "RESUME", "PAUSE", "DISCONNECT", "MESH_ENABLE"}
       \subseteq ReceiptKind
  BY DEF AuthorityState, QosLevel, Failure, ReceiptKind, Resulting

\* What push_receipt stores has the type of what it replaces.
LEMMA Pushed ==
  \A k \in ReceiptKind, a, b \in AuthorityState :
    PushReceipt(k, a, b) => /\ receipt' \in Receipt \cup {NoReceipt}
                            /\ receipt_age' \in 0 .. TTL + 1
                            /\ last_valid' \in AuthorityState
  BY DEF PushReceipt, Receipt

LEMMA Governors == \A p \in Pid \cup {NoPid} : NewGovernor(p) \in Governor
<1>1. {"MonitorOnly", "Normal"} \subseteq QosLevel /\ Dwell \in 0 .. Dwell
  BY DEF QosLevel
<1> QED
  BY <1>1 DEF NewGovernor, Governor

LEMMA Levels ==
  \A l \in QosLevel : ClassOf(l) \in Class /\ EffectiveLevel(l) \in QosLevel
  BY DEF ClassOf, EffectiveLevel, Class, QosLevel

\* The governor leaves a type-correct snapshot, governor and host behind.
LEMMA Governed ==
  ASSUME TypeOK, UNCHANGED os
  PROVE  \A l \in QosLevel :
           GovernorApply(l) => snap' \in Snapshots /\ gov' \in Governor /\ HostOK'
<1> TAKE l \in QosLevel
<1> DEFINE e == EffectiveLevel(l)
<1>1. e \in QosLevel /\ ClassOf(e) \in Class
  BY Levels
<1>2. snap \in Snapshots /\ gov \in Governor /\ HostOK /\ gov.applied \in QosLevel
  BY DEF TypeOK, LoopOK, Governor
<1>3. CASE HoldQos(l)
  <2>1. snap' \in Snapshots
    BY <1>2, <1>3 DEF HoldQos, Snapshots
  <2> QED
    BY <1>2, <1>3, <2>1 DEF HoldQos, HostOK
<1>4. CASE WriteQos(l)
  <2> HIDE DEF e
  <2>0. /\ qos' = [qos EXCEPT ![gov.pid] = ClassOf(e)]
        /\ gov' = [gov EXCEPT !.applied = e, !.since = 0]
        /\ snap' = [snap EXCEPT !.applied = e]
    BY <1>4 DEF WriteQos, e
  <2>1. snap' \in Snapshots
    BY <1>1, <1>2, <2>0 DEF Snapshots
  <2>2. gov' \in Governor
    <3>1. 0 \in 0 .. Dwell
      OBVIOUS
    <3> QED
      BY <1>1, <1>2, <2>0, <3>1 DEF Governor
  <2>3. HostOK'
    BY <1>1, <1>2, <2>0 DEF HostOK
  <2> QED
    BY <2>1, <2>2, <2>3
<1>5. CASE FailQos(l)
  <2> HIDE DEF e
  <2>1. snap' \in Snapshots
    BY <1>2, <1>5 DEF FailQos, Snapshots
  <2>2. qos' = qos \/ qos' = [qos EXCEPT ![gov.pid] = ClassOf(e)]
    BY <1>5 DEF FailQos, e
  <2>3. HostOK'
    BY <1>1, <1>2, <2>2 DEF HostOK
  <2> QED
    BY <1>2, <1>5, <2>1, <2>3 DEF FailQos
<1> QED
  BY <1>3, <1>4, <1>5 DEF GovernorApply

\* ... and so does the mesh controller.
LEMMA Meshed ==
  ASSUME TypeOK, UNCHANGED os
  PROVE  \A l \in QosLevel :
           MeshStep(l) => snap' \in Snapshots /\ gov' \in Governor /\ HostOK'
<1> SUFFICES ASSUME NEW l \in QosLevel, MeshStep(l)
             PROVE  snap' \in Snapshots /\ gov' \in Governor /\ HostOK'
  OBVIOUS
<1>1. gov' \in Governor
  BY DEF MeshStep, TypeOK, LoopOK
<1>2. snap' \in Snapshots
  <2>1. PICK held \in QosLevel : snap' = [snap EXCEPT !.applied = held]
    BY Names DEF MeshStep
  <2> QED
    BY <2>1 DEF TypeOK, LoopOK, Snapshots
<1>3. HostOK'
  <2>1. CASE UNCHANGED qos
    BY <2>1 DEF TypeOK, HostOK
  <2>2. ASSUME NEW chosen \in SUBSET {p \in Pid : Running(p)},
               qos' = [p \in Pid |-> IF p \in chosen THEN ClassOf(l) ELSE qos[p]]
        PROVE  HostOK'
    <3>1. ClassOf(l) \in Class
      BY Levels
    <3> QED
      BY <2>2, <3>1 DEF TypeOK, HostOK
  <2> QED
    BY <2>1, <2>2 DEF MeshStep
<1> QED
  BY <1>1, <1>2, <1>3

\* What a step leaves alone keeps its type.
LEMMA Frame ==
  ASSUME TypeOK
  PROVE  /\ UNCHANGED link => LinkOK'
         /\ UNCHANGED http => HttpOK'
         /\ UNCHANGED loop => LoopOK'
         /\ UNCHANGED host => HostOK'
         /\ UNCHANGED hist => HistOK'
  <1>1. UNCHANGED link => LinkOK'
    BY DEF TypeOK, LinkOK, link
  <1>2. UNCHANGED http => HttpOK'
    BY DEF TypeOK, HttpOK, http
  <1>3. UNCHANGED loop => LoopOK'
    BY DEF TypeOK, LoopOK, loop
  <1>4. UNCHANGED host => HostOK'
    BY DEF TypeOK, HostOK, host
  <1>5. UNCHANGED hist => HistOK'
    BY DEF TypeOK, HistOK, hist
  <1> QED
    BY <1>1, <1>2, <1>3, <1>4, <1>5

--------------------------------------------------------------------------------
\* Every variable keeps its type, in every interleaving of handlers, loop and
\* operating system.
THEOREM TypeCorrect == Spec => []TypeOK
<1>1. Init => TypeOK
  <2> SUFFICES ASSUME Init PROVE TypeOK
    OBVIOUS
  <2>1. LinkOK
    <3>1. identity \in Identity \cup {NoIdentity}
      BY DEF Init, Identity
    <3>2. authority \in AuthorityState /\ last_valid \in AuthorityState
      BY Names DEF Init, AuthorityState
    <3> QED
      BY <3>1, <3>2, Names, Constants DEF Init, LinkOK
  <2>2. HttpOK
    BY DEF Init, HttpOK
  <2>3. LoopOK
    BY DEF Init, LoopOK, Snapshots, NoSnapshot, Governor, NewGovernor, QosLevel
  <2>4. HostOK /\ HistOK
    BY Constants DEF Init, HostOK, HistOK, Class
  <2> QED
    BY <2>1, <2>2, <2>3, <2>4 DEF TypeOK
<1>2. TypeOK /\ [Next]_vars => TypeOK'
  <2> SUFFICES ASSUME TypeOK, [Next]_vars PROVE TypeOK'
    OBVIOUS
  <2>1. ASSUME ListProcesses PROVE TypeOK'
    <3>1. HttpOK'
      BY <2>1, Constants, Names DEF TypeOK, HttpOK, ListProcesses, Candidate
    <3> QED
      BY <3>1, <2>1, Frame DEF TypeOK, ListProcesses
  <2>2. ASSUME NEW pids \in SUBSET Pid, PublishDiscovery(pids) PROVE TypeOK'
    <3>1. LinkOK'
      BY <2>2, Constants, Names DEF TypeOK, LinkOK, PublishDiscovery, KeepTarget
    <3>2. HttpOK'
      BY <2>2, Constants, Names DEF TypeOK, HttpOK, PublishDiscovery, Candidate
    <3> QED
      BY <3>1, <3>2, <2>2, Frame DEF TypeOK, PublishDiscovery
  <2>3. ASSUME NEW p \in Pid, FindCandidate(p) PROVE TypeOK'
    <3>1. HttpOK'
      BY <2>3, Constants, Names DEF TypeOK, HttpOK, FindCandidate, Candidate, Running, HostOK
    <3> QED
      BY <3>1, <2>3, Frame DEF TypeOK, FindCandidate
  <2>4. ASSUME NEW c \in Candidate, Connect(c) PROVE TypeOK'
    <3>1. /\ receipt' \in Receipt \cup {NoReceipt} /\ receipt_age' \in 0 .. TTL + 1
          /\ last_valid' \in AuthorityState
      BY <2>4, Pushed, Names DEF TypeOK, LinkOK, Connect
    <3>2. LinkOK'
      BY <2>4, <3>1, Constants, Names DEF TypeOK, LinkOK, Connect, BeginNewEpoch, Retarget
    <3>3. HttpOK'
      BY <2>4, Constants, Names DEF TypeOK, HttpOK, Connect, Candidate
    <3>4. HistOK'
      BY <2>4, Constants, Names DEF TypeOK, HistOK, Connect, Unverified
    <3> QED
      BY <3>2, <3>3, <3>4, <2>4, Frame DEF TypeOK, Connect
  <2>5. ASSUME NEW c \in Candidate, ConnectRefused(c) PROVE TypeOK'
    <3>1. HttpOK'
      BY <2>5, Constants, Names DEF TypeOK, HttpOK, ConnectRefused, Candidate
    <3> QED
      BY <3>1, <2>5, Frame DEF TypeOK, ConnectRefused
  <2>6. ASSUME Verify PROVE TypeOK'
    <3>1. /\ receipt' \in Receipt \cup {NoReceipt} /\ receipt_age' \in 0 .. TTL + 1
          /\ last_valid' \in AuthorityState
      BY <2>6, Pushed, Names DEF TypeOK, LinkOK, Verify
    <3>2. LinkOK'
      BY <2>6, <3>1, Constants, Names DEF TypeOK, LinkOK, Verify, KeepTarget
    <3>3. HistOK'
      BY <2>6, Constants, Names DEF TypeOK, HistOK, Verify, Unverified, LinkOK
    <3> QED
      BY <3>2, <3>3, <2>6, Frame DEF TypeOK, Verify
  <2>7. ASSUME VerifyMismatch PROVE TypeOK'
    <3>1. LinkOK'
      BY <2>7, Constants, Names DEF TypeOK, LinkOK, VerifyMismatch, KeepTarget
    <3> QED
      BY <3>1, <2>7, Frame DEF TypeOK, VerifyMismatch
  <2>8. ASSUME Baseline PROVE TypeOK'
    <3>1. LinkOK'
      BY <2>8, Constants, Names DEF TypeOK, LinkOK, Baseline, BeginNewEpoch, KeepTarget
    <3> QED
      BY <3>1, <2>8, Frame DEF TypeOK, Baseline
  <2>9. ASSUME Enable PROVE TypeOK'
    <3>1. /\ receipt' \in Receipt \cup {NoReceipt} /\ receipt_age' \in 0 .. TTL + 1
          /\ last_valid' \in AuthorityState
      BY <2>9, Pushed, Names DEF TypeOK, LinkOK, Enable
    <3>2. LinkOK'
      BY <2>9, <3>1, Constants, Names DEF TypeOK, LinkOK, Enable, EnableAllowed, BeginNewEpoch, KeepTarget
    <3> QED
      BY <3>2, <2>9, Frame DEF TypeOK, Enable
  <2>10. ASSUME EnableMesh PROVE TypeOK'
    <3>1. /\ receipt' \in Receipt \cup {NoReceipt} /\ receipt_age' \in 0 .. TTL + 1
          /\ last_valid' \in AuthorityState
      BY <2>10, Pushed, Names DEF TypeOK, LinkOK, EnableMesh
    <3>2. LinkOK'
      BY <2>10, <3>1, Constants, Names DEF TypeOK, LinkOK, EnableMesh, BeginNewEpoch, Retarget
    <3>3. HistOK'
      BY <2>10, Constants, Names DEF TypeOK, HistOK, EnableMesh, Unverified
    <3> QED
      BY <3>2, <3>3, <2>10, Frame DEF TypeOK, EnableMesh
  <2>11. ASSUME Start PROVE TypeOK'
    <3>1. /\ receipt' \in Receipt \cup {NoReceipt} /\ receipt_age' \in 0 .. TTL + 1
          /\ last_valid' \in AuthorityState
      BY <2>11, Pushed, Names DEF TypeOK, LinkOK, Start
    <3>2. LinkOK'
      BY <2>11, <3>1, Constants, Names DEF TypeOK, LinkOK, Start, KeepTarget
    <3> QED
      BY <3>2, <2>11, Frame DEF TypeOK, Start
  <2>12. ASSUME Pause PROVE TypeOK'
    <3>1. /\ receipt' \in Receipt \cup {NoReceipt} /\ receipt_age' \in 0 .. TTL + 1
          /\ last_valid' \in AuthorityState
      BY <2>12, Pushed, Names DEF TypeOK, LinkOK, Pause
    <3>2. LinkOK'
      BY <2>12, <3>1, Constants, Names DEF TypeOK, LinkOK, Pause, KeepTarget
    <3> QED
      BY <3>2, <2>12, Frame DEF TypeOK, Pause
  <2>13. ASSUME Disconnect PROVE TypeOK'
    <3>1. /\ receipt' \in Receipt \cup {NoReceipt} /\ receipt_age' \in 0 .. TTL + 1
          /\ last_valid' \in AuthorityState
      BY <2>13, Pushed, Names DEF TypeOK, LinkOK, Disconnect
    <3>2. LinkOK'
      BY <2>13, <3>1, Constants, Names DEF TypeOK, LinkOK, Disconnect, BeginNewEpoch, Retarget
    <3>3. HistOK'
      BY <2>13, Constants, Names DEF TypeOK, HistOK, Disconnect, Unverified
    <3> QED
      BY <3>2, <3>3, <2>13, Frame DEF TypeOK, Disconnect
  <2>14. ASSUME AgentEnableMesh PROVE TypeOK'
    <3>1. LinkOK'
      BY <2>14, Constants, Names DEF TypeOK, LinkOK, AgentEnableMesh, BeginNewEpoch, Retarget
    <3>2. HistOK'
      BY <2>14, Constants, Names DEF TypeOK, HistOK, AgentEnableMesh, Unverified
    <3> QED
      BY <3>1, <3>2, <2>14, Frame DEF TypeOK, AgentEnableMesh
  <2>15. ASSUME AgentDisconnect PROVE TypeOK'
    <3>1. LinkOK'
      BY <2>15, Constants, Names DEF TypeOK, LinkOK, AgentDisconnect, Retarget
    <3>2. HistOK'
      BY <2>15, Constants, Names DEF TypeOK, HistOK, AgentDisconnect, Unverified
    <3> QED
      BY <3>1, <3>2, <2>15, Frame DEF TypeOK, AgentDisconnect
  <2>16. ASSUME OpenEpoch PROVE TypeOK'
    <3>1. LinkOK'
      BY <2>16, Constants, Names DEF TypeOK, LinkOK, OpenEpoch, BeginNewEpoch, KeepTarget
    <3> QED
      BY <3>1, <2>16, Frame DEF TypeOK, OpenEpoch
  <2>17. ASSUME Snapshot PROVE TypeOK'
    <3>1. LinkOK'
      BY <2>17, Constants, Names DEF TypeOK, LinkOK, Snapshot
    <3>2. snap' \in Snapshots
      <4>1. Fresh \in BOOLEAN /\ mesh \in BOOLEAN /\ target \in Pid \cup {NoPid}
        BY DEF TypeOK, LinkOK, Fresh
      <4>2. (governor_active /\ authority = "Active") \in BOOLEAN
        BY DEF TypeOK, LinkOK
      <4> QED
        BY <2>17, <4>1, <4>2 DEF TypeOK, LoopOK, Snapshot, Snapshots
    <3>3. gov' \in Governor
      BY <2>17, Governors DEF TypeOK, LinkOK, LoopOK, Snapshot
    <3>4. LoopOK'
      BY <2>17, <3>2, <3>3 DEF LoopOK, Snapshot
    <3> QED
      BY <3>1, <3>4, <2>17, Frame DEF TypeOK, Snapshot
  <2>18. ASSUME Sample PROVE TypeOK'
    <3> DEFINE alive == IF snap.target = NoPid THEN TRUE ELSE Running(snap.target)
    <3>1. alive \in BOOLEAN
      BY DEF Running
    <3>2. snap' \in Snapshots
      <4>1. snap' = [snap EXCEPT !.alive = alive]
        BY <2>18 DEF Sample
      <4> HIDE DEF alive
      <4> QED
        BY <3>1, <4>1 DEF TypeOK, LoopOK, Snapshots
    <3>3. LoopOK'
      BY <2>18, <3>2 DEF TypeOK, LoopOK, Sample
    <3> QED
      BY <3>3, <2>18, Frame DEF TypeOK, Sample
  <2>19. ASSUME Apply PROVE TypeOK'
    <3>1. PICK level \in QosLevel : GovernorApply(level) \/ MeshStep(level)
      BY <2>19, Names DEF Apply
    <3>2. snap' \in Snapshots /\ gov' \in Governor /\ HostOK'
      <4>1. CASE GovernorApply(level)
        BY <2>19, <4>1, Governed DEF Apply
      <4>2. CASE MeshStep(level)
        BY <2>19, <4>2, Meshed DEF Apply
      <4> QED
        BY <3>1, <4>1, <4>2
    <3>3. LoopOK'
      BY <2>19, <3>2 DEF LoopOK, Apply
    <3> QED
      BY <3>2, <3>3, <2>19, Frame DEF TypeOK, Apply
  <2>20. ASSUME WriteBack PROVE TypeOK'
    <3>1. LinkOK'
      BY <2>20, Constants, Names DEF TypeOK, LinkOK, WriteBack, KeepTarget, LoopOK, Snapshots, StillArmed
    <3>2. LoopOK'
      BY <2>20, Constants, Names DEF TypeOK, LoopOK, WriteBack, Snapshots, NoSnapshot, Governor
    <3> QED
      BY <3>1, <3>2, <2>20, Frame DEF TypeOK, WriteBack
  <2>21. ASSUME Tick PROVE TypeOK'
    <3>1. LinkOK'
      BY <2>21, Constants, Names DEF TypeOK, LinkOK, Tick, Older
    <3>2. LoopOK'
      BY <2>21, Constants, Names DEF TypeOK, LoopOK, Tick, Snapshots, NoSnapshot, Governor, Older
    <3>3. HistOK'
      BY <2>21, Constants, Names DEF TypeOK, HistOK, Tick, Unverified, Older
    <3> QED
      BY <3>1, <3>2, <3>3, <2>21, Frame DEF TypeOK, Tick
  <2>22. ASSUME NEW p \in Pid, ProcessExit(p) PROVE TypeOK'
    <3>1. HostOK'
      BY <2>22, Constants, Names DEF TypeOK, HostOK, ProcessExit, Class
    <3> QED
      BY <3>1, <2>22, Frame DEF TypeOK, ProcessExit
  <2>23. ASSUME NEW p \in Pid, ProcessStart(p) PROVE TypeOK'
    <3>1. HostOK'
      BY <2>23, Constants, Names DEF TypeOK, HostOK, ProcessStart, Class
    <3> QED
      BY <3>1, <2>23, Frame DEF TypeOK, ProcessStart
  <2>24. CASE UNCHANGED vars
    BY <2>24, Frame DEF vars, TypeOK
  <2> QED
    BY <2>1, <2>2, <2>3, <2>4, <2>5, <2>6, <2>7, <2>8, <2>9, <2>10, <2>11,
       <2>12, <2>13, <2>16, <2>17, <2>18, <2>19, <2>20, <2>21, <2>22, <2>23, <2>24,
       <2>14, <2>15 DEF Next, Handler, Loop, Environment
<1> QED
  BY <1>1, <1>2, PTL DEF Spec

================================================================================
