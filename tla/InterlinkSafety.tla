---------------------------- MODULE InterlinkSafety ----------------------------
(***************************************************************************)
(* The safety invariants of Interlink hold for every value of its          *)
(* constants, and the governance path implements the authority ladder.     *)
(***************************************************************************)
EXTENDS InterlinkProofs

USE ConstantsAssumption

Scoped == ArmedOnlyWhileActive /\ OneScope /\ GovernedTargetWasVerified
Safe   == Scoped /\ GovernorFollowsTarget

\* The loop's bindings are what they were.
SameScope == gov'.pid = gov.pid /\ snap'.target = snap.target
             /\ snap'.mesh = snap.mesh /\ snap'.armed = snap.armed

LEMMA Facts ==
  ASSUME TypeOK
  PROVE  /\ target \in Pid \cup {NoPid} /\ NoPid \notin Pid
         /\ authority \in AuthorityState /\ identity.pid \in Pid \cup {NoPid}
         /\ identity = NoIdentity <=> identity.pid = NoPid
         /\ verified = NoIdentity <=> verified.pid = NoPid
         /\ NoIdentity.pid = NoPid
<1>1. identity \in Identity \cup {NoIdentity} /\ verified \in Identity \cup {NoIdentity}
  BY DEF TypeOK, LinkOK, HistOK
<1>2. target \in Pid \cup {NoPid} /\ authority \in AuthorityState
  BY DEF TypeOK, LinkOK
<1>3. \A i \in Identity \cup {NoIdentity} :
        i.pid \in Pid \cup {NoPid} /\ (i = NoIdentity <=> i.pid = NoPid)
  BY Constants
<1> QED
  BY <1>1, <1>2, <1>3, Constants

LEMMA Undisturbed ==
  ASSUME Safe
  PROVE  /\ UNCHANGED <<authority, governor_active, mesh, target, identity, verified>> => Scoped'
         /\ UNCHANGED <<target, target_changed, verified, pc, gov, snap>> => GovernorFollowsTarget'
         /\ UNCHANGED <<authority, governor_active, mesh, target, identity, target_changed,
                        verified, pc, gov, snap>> => Safe'
<1>1. UNCHANGED <<authority, governor_active, mesh, target, identity, verified>> => Scoped'
  BY DEF Safe, Scoped, ArmedOnlyWhileActive, OneScope, GovernedTargetWasVerified
<1>2. UNCHANGED <<target, target_changed, verified, pc, gov, snap>> => GovernorFollowsTarget'
  BY DEF Safe, GovernorFollowsTarget
<1> QED
  BY <1>1, <1>2 DEF Safe

\* A change of target that the loop is told of leaves it bound to its snapshot.
LEMMA Retargeted ==
  Safe /\ target_changed' = TRUE /\ UNCHANGED loop => GovernorFollowsTarget'
  BY DEF Safe, GovernorFollowsTarget, loop

\* Inside an iteration the loop may change everything but its bindings.
LEMMA Rebound ==
  ASSUME Safe, SameScope, pc # "snapshot" \/ pc' = pc,
         UNCHANGED <<target, target_changed, verified>>
  PROVE  GovernorFollowsTarget'
  BY DEF Safe, GovernorFollowsTarget, SameScope

--------------------------------------------------------------------------------
LEMMA SafeInitially == Init => Safe
<1> SUFFICES ASSUME Init PROVE Safe
  OBVIOUS
<1>1. identity.pid = target
  BY DEF Init, NoIdentity
<1>2. Scoped
  BY <1>1 DEF Init, Scoped, ArmedOnlyWhileActive, OneScope, GovernedTargetWasVerified
<1>3. GovernorFollowsTarget
  BY DEF Init, GovernorFollowsTarget, NewGovernor
<1> QED
  BY <1>2, <1>3 DEF Safe

LEMMA SafeStep ==
  ASSUME TypeOK, Safe, [Next]_vars
  PROVE  Safe'
<1>1. ASSUME ListProcesses PROVE Safe'
  BY <1>1, Undisturbed DEF ListProcesses, link, loop, hist
<1>2. ASSUME NEW pids \in SUBSET Pid, PublishDiscovery(pids) PROVE Safe'
  <2>1. Scoped'
    <3>1. UNCHANGED <<governor_active, mesh, target, identity, verified>>
      BY <1>2 DEF PublishDiscovery, KeepTarget, hist
    <3>2. CASE UNCHANGED authority
      BY <3>1, <3>2, Undisturbed
    <3>3. CASE authority \in {"Observation", "Disconnected"} /\ authority' = "Discovered"
      BY <3>1, <3>3 DEF Safe, Scoped, ArmedOnlyWhileActive, OneScope, GovernedTargetWasVerified
    <3> QED
      BY <1>2, <3>2, <3>3 DEF PublishDiscovery
  <2>2. GovernorFollowsTarget'
    BY <1>2, Undisturbed DEF PublishDiscovery, KeepTarget, loop, hist
  <2> QED
    BY <2>1, <2>2 DEF Safe
<1>3. ASSUME NEW p \in Pid, FindCandidate(p) PROVE Safe'
  BY <1>3, Undisturbed DEF FindCandidate, link, loop, hist
<1>4. ASSUME NEW c \in Candidate, Connect(c) PROVE Safe'
  <2>1. Scoped'
    <3>1. target' = c.pid /\ identity' = c /\ c.pid \in Pid
      BY <1>4, Constants DEF Connect, Retarget
    <3>2. authority' = "Connected" /\ governor_active' = FALSE /\ mesh' = mesh
          /\ authority \in {"Discovered", "Disconnected"}
      BY <1>4, Names DEF Connect, ConnectAllowed
    <3>3. ~mesh
      BY <3>2 DEF Safe, Scoped, OneScope
    <3> QED
      BY <3>1, <3>2, <3>3 DEF Scoped, ArmedOnlyWhileActive, OneScope, GovernedTargetWasVerified
  <2>2. GovernorFollowsTarget'
    BY <1>4, Retargeted DEF Connect, Retarget
  <2> QED
    BY <2>1, <2>2 DEF Safe
<1>5. ASSUME NEW c \in Candidate, ConnectRefused(c) PROVE Safe'
  BY <1>5, Undisturbed DEF ConnectRefused, link, loop, hist
<1>6. ASSUME Verify PROVE Safe'
  <2>1. Scoped'
    BY <1>6, Facts, Names, Constants DEF Verify, Safe, Scoped, hist, KeepTarget,
       ArmedOnlyWhileActive, OneScope, GovernedTargetWasVerified
  <2>2. GovernorFollowsTarget'
    BY <1>6, Facts DEF Verify, Safe, Scoped, KeepTarget, loop, OneScope, GovernorFollowsTarget
  <2> QED
    BY <2>1, <2>2 DEF Safe
<1>7. ASSUME VerifyMismatch PROVE Safe'
  <2>1. Scoped'
    BY <1>7, Facts, Names, Constants DEF VerifyMismatch, Safe, Scoped, hist, KeepTarget,
       ArmedOnlyWhileActive, OneScope, GovernedTargetWasVerified
  <2>2. GovernorFollowsTarget'
    BY <1>7, Undisturbed DEF VerifyMismatch, KeepTarget, loop, hist
  <2> QED
    BY <2>1, <2>2 DEF Safe
<1>8. ASSUME Baseline PROVE Safe'
  <2>1. Scoped'
    BY <1>8, Facts, Names, Constants DEF Baseline, Safe, Scoped, hist, KeepTarget,
       ArmedOnlyWhileActive, OneScope, GovernedTargetWasVerified
  <2>2. GovernorFollowsTarget'
    BY <1>8, Undisturbed DEF Baseline, KeepTarget, loop, hist
  <2> QED
    BY <2>1, <2>2 DEF Safe
<1>9. ASSUME Enable PROVE Safe'
  <2>1. Scoped'
    BY <1>9, Facts, Names, Constants DEF Enable, Safe, Scoped, hist, KeepTarget,
       EnableAllowed, ArmedOnlyWhileActive, OneScope, GovernedTargetWasVerified
  <2>2. GovernorFollowsTarget'
    BY <1>9, Undisturbed DEF Enable, KeepTarget, loop, hist
  <2> QED
    BY <2>1, <2>2 DEF Safe
<1>10. ASSUME EnableMesh PROVE Safe'
  <2>1. Scoped'
    BY <1>10, Facts, Names, Constants DEF EnableMesh, Safe, Scoped, hist, Retarget,
       Unverified, ArmedOnlyWhileActive, OneScope, GovernedTargetWasVerified
  <2>2. GovernorFollowsTarget'
    BY <1>10, Retargeted DEF EnableMesh, Retarget
  <2> QED
    BY <2>1, <2>2 DEF Safe
<1>11. ASSUME Start PROVE Safe'
  <2>1. Scoped'
    BY <1>11, Facts, Names, Constants DEF Start, Safe, Scoped, hist, KeepTarget,
       ArmedOnlyWhileActive, OneScope, GovernedTargetWasVerified
  <2>2. GovernorFollowsTarget'
    BY <1>11, Undisturbed DEF Start, KeepTarget, loop, hist
  <2> QED
    BY <2>1, <2>2 DEF Safe
<1>12. ASSUME Pause PROVE Safe'
  <2>1. Scoped'
    BY <1>12, Facts, Names, Constants DEF Pause, Safe, Scoped, hist, KeepTarget,
       ArmedOnlyWhileActive, OneScope, GovernedTargetWasVerified
  <2>2. GovernorFollowsTarget'
    BY <1>12, Undisturbed DEF Pause, KeepTarget, loop, hist
  <2> QED
    BY <2>1, <2>2 DEF Safe
<1>13. ASSUME Disconnect PROVE Safe'
  <2>1. Scoped'
    BY <1>13, Facts, Names, Constants DEF Disconnect, Safe, Scoped, hist, Retarget,
       Unverified, ArmedOnlyWhileActive, OneScope, GovernedTargetWasVerified
  <2>2. GovernorFollowsTarget'
    BY <1>13, Retargeted DEF Disconnect, Retarget
  <2> QED
    BY <2>1, <2>2 DEF Safe
<1>14. ASSUME AgentEnableMesh PROVE Safe'
  <2>1. Scoped'
    BY <1>14, Facts, Names, Constants DEF AgentEnableMesh, Safe, Scoped, hist, Retarget,
       Unverified, ArmedOnlyWhileActive, OneScope, GovernedTargetWasVerified
  <2>2. GovernorFollowsTarget'
    BY <1>14, Retargeted DEF AgentEnableMesh, Retarget
  <2> QED
    BY <2>1, <2>2 DEF Safe
<1>15. ASSUME AgentDisconnect PROVE Safe'
  <2>1. Scoped'
    BY <1>15, Facts, Names, Constants DEF AgentDisconnect, Safe, Scoped, hist, Retarget,
       Unverified, ArmedOnlyWhileActive, OneScope, GovernedTargetWasVerified
  <2>2. GovernorFollowsTarget'
    BY <1>15, Retargeted DEF AgentDisconnect, Retarget
  <2> QED
    BY <2>1, <2>2 DEF Safe
<1>16. ASSUME OpenEpoch PROVE Safe'
  <2>1. Scoped'
    BY <1>16, Facts, Names, Constants DEF OpenEpoch, Safe, Scoped, hist, KeepTarget,
       ArmedOnlyWhileActive, OneScope, GovernedTargetWasVerified
  <2>2. GovernorFollowsTarget'
    BY <1>16, Undisturbed DEF OpenEpoch, KeepTarget, loop, hist
  <2> QED
    BY <2>1, <2>2 DEF Safe
<1>17. ASSUME Snapshot PROVE Safe'
  <2>1. Scoped'
    BY <1>17, Undisturbed DEF Snapshot, hist
  <2>2. gov'.pid = target
    BY <1>17 DEF Snapshot, Safe, GovernorFollowsTarget, NewGovernor
  <2>3. snap'.target = target /\ snap'.mesh = mesh
        /\ snap'.armed = (governor_active /\ authority = "Active")
    BY <1>17 DEF Snapshot, TypeOK, LoopOK, Snapshots
  <2>4. GovernorFollowsTarget'
    BY <1>17, <2>2, <2>3, Facts DEF Snapshot, hist, Safe, Scoped, OneScope,
       GovernedTargetWasVerified,
       GovernorFollowsTarget
  <2> QED
    BY <2>1, <2>4 DEF Safe
<1>18. ASSUME Sample PROVE Safe'
  <2>1. Scoped'
    BY <1>18, Undisturbed DEF Sample, link, hist
  <2>2. SameScope
    BY <1>18 DEF Sample, SameScope, TypeOK, LoopOK, Snapshots
  <2>3. GovernorFollowsTarget'
    BY <1>18, <2>2, Rebound DEF Sample, link, hist
  <2> QED
    BY <2>1, <2>3 DEF Safe
<1>19. ASSUME Apply PROVE Safe'
  <2>1. Scoped'
    BY <1>19, Undisturbed DEF Apply, link, hist
  <2>2. SameScope
    <3>1. PICK level : GovernorApply(level) \/ MeshStep(level)
      BY <1>19 DEF Apply
    <3> QED
      BY <3>1 DEF GovernorApply, HoldQos, WriteQos, FailQos, MeshStep, SameScope,
         TypeOK, LoopOK, Snapshots, Governor
  <2>3. GovernorFollowsTarget'
    BY <1>19, <2>2, Rebound DEF Apply, link, hist
  <2> QED
    BY <2>1, <2>3 DEF Safe
<1>20. ASSUME WriteBack PROVE Safe'
  <2>1. Scoped'
    BY <1>20, Facts DEF WriteBack, Safe, Scoped, hist, KeepTarget, ArmedOnlyWhileActive, OneScope,
       GovernedTargetWasVerified, ProcessExited, VerificationExpired, StillArmed
  <2>2. GovernorFollowsTarget'
    BY <1>20 DEF WriteBack, KeepTarget, hist, Safe, GovernorFollowsTarget
  <2> QED
    BY <2>1, <2>2 DEF Safe
<1>21. ASSUME Tick PROVE Safe'
  <2>1. Scoped'
    BY <1>21, Undisturbed DEF Tick
  <2>2. SameScope
    BY <1>21 DEF Tick, SameScope, TypeOK, LoopOK, Governor
  <2>3. GovernorFollowsTarget'
    BY <1>21, <2>2, Rebound DEF Tick
  <2> QED
    BY <2>1, <2>3 DEF Safe
<1>22. ASSUME NEW p \in Pid, ProcessExit(p) \/ ProcessStart(p) PROVE Safe'
  BY <1>22, Undisturbed DEF ProcessExit, ProcessStart, link, loop, hist
<1>23. CASE UNCHANGED vars
  BY <1>23, Undisturbed DEF vars, link, loop, hist
<1> QED
  BY <1>1, <1>2, <1>3, <1>4, <1>5, <1>6, <1>7, <1>8, <1>9, <1>10, <1>11, <1>12,
     <1>13, <1>16, <1>17, <1>18, <1>19, <1>20, <1>21, <1>22, <1>23, <1>14, <1>15
     DEF Next, Handler, Loop, Environment

\* The governor is armed only while authority is Active, authority is over the
\* host or over one process, a governed process is the one the last verification
\* confirmed, and the control loop's governor is bound accordingly.
THEOREM Safety ==
  Spec => [](ArmedOnlyWhileActive /\ OneScope /\ GovernedTargetWasVerified
             /\ GovernorFollowsTarget)
<1>1. Safe <=> ArmedOnlyWhileActive /\ OneScope /\ GovernedTargetWasVerified /\ GovernorFollowsTarget
  BY DEF Safe, Scoped
<1>2. TypeOK /\ Safe /\ [Next]_vars => Safe'
  BY SafeStep
<1> QED
  BY <1>1, <1>2, SafeInitially, TypeCorrect, PTL DEF Spec

--------------------------------------------------------------------------------
(* The ladder: every step of Interlink is a step of it or leaves it alone. *)

Ladder == LadderAsBuilt!ladder

\* Between states with the types and the invariants, the ladder's view of the
\* link is: no target exactly when nothing is connected or the host is governed,
\* and a target that may be governed is verified.
LEMMA Climbed ==
  ASSUME TypeOK, Safe
  PROVE  /\ target \in Pid \cup {NoPid}
         /\ identity.pid = target
         /\ identity # NoIdentity => target # NoPid
         /\ authority \in {"Verified", "Paused"} /\ target # NoPid => verified # NoIdentity
         /\ authority = "Verified" => target # NoPid
         /\ authority = "Active" /\ ~mesh => target # NoPid
<1>1. OneScope /\ GovernedTargetWasVerified
  BY DEF Safe, Scoped
<1> QED
  BY <1>1, Facts DEF OneScope, GovernedTargetWasVerified

\* What neither authority, nor the target, nor its verification notices is a stutter.
LEMMA Stutter == UNCHANGED <<authority, target, verified>> => UNCHANGED Ladder
  BY DEF Ladder, LadderAsBuilt!ladder

LEMMA LadderStep ==
  ASSUME TypeOK, Safe, [Next]_vars
  PROVE  LadderAsBuilt!Next \/ UNCHANGED Ladder
<1>1. ASSUME NEW pids \in SUBSET Pid, PublishDiscovery(pids)
      PROVE  LadderAsBuilt!Next \/ UNCHANGED Ladder
  <2>1. UNCHANGED <<target, verified>>
    BY <1>1 DEF PublishDiscovery, KeepTarget, hist
  <2>2. CASE UNCHANGED authority
    BY <2>1, <2>2, Stutter
  <2>3. CASE authority \in {"Observation", "Disconnected"} /\ authority' = "Discovered"
    BY <2>1, <2>3 DEF LadderAsBuilt!Next, LadderAsBuilt!Discover
  <2> QED
    BY <1>1, <2>2, <2>3 DEF PublishDiscovery
<1>2. ASSUME NEW c \in Candidate, Connect(c)
      PROVE  LadderAsBuilt!Next \/ UNCHANGED Ladder
  <2>1. c.pid \in Pid
    BY Constants
  <2>2. LadderAsBuilt!Connect(c.pid)
    BY <1>2, Names DEF Connect, ConnectAllowed, Retarget, Unverified, LadderAsBuilt!Connect
  <2> QED
    BY <2>1, <2>2 DEF LadderAsBuilt!Next
<1>3. ASSUME Verify PROVE LadderAsBuilt!Next \/ UNCHANGED Ladder
  BY <1>3, Names DEF Verify, KeepTarget, LadderAsBuilt!Next, LadderAsBuilt!Verify
<1>4. ASSUME VerifyMismatch PROVE LadderAsBuilt!Next \/ UNCHANGED Ladder
  BY <1>4, Climbed DEF VerifyMismatch, KeepTarget, hist, LadderAsBuilt!Next, LadderAsBuilt!Fault
<1>5. ASSUME Enable PROVE LadderAsBuilt!Next \/ UNCHANGED Ladder
  BY <1>5, Climbed, Names DEF Enable, EnableAllowed, KeepTarget, hist,
     LadderAsBuilt!Next, LadderAsBuilt!Grant
<1>6. ASSUME EnableMesh PROVE LadderAsBuilt!Next \/ UNCHANGED Ladder
  BY <1>6, Facts DEF EnableMesh, Retarget, Unverified, LadderAsBuilt!Next, LadderAsBuilt!GrantHost
<1>7. ASSUME Start PROVE LadderAsBuilt!Next \/ UNCHANGED Ladder
  BY <1>7, Climbed, Names DEF Start, KeepTarget, hist, LadderAsBuilt!Next, LadderAsBuilt!Grant
<1>8. ASSUME Pause PROVE LadderAsBuilt!Next \/ UNCHANGED Ladder
  BY <1>8, Names DEF Pause, KeepTarget, hist, LadderAsBuilt!Next, LadderAsBuilt!Pause
<1>9. ASSUME Disconnect PROVE LadderAsBuilt!Next \/ UNCHANGED Ladder
  <2>1. authority \in LadderAsBuilt!Sources["Disconnect"]
    BY <1>9 DEF Disconnect, Accepts, Sources, LadderAsBuilt!Sources, AuthorityAction,
       LadderAsBuilt!AuthorityAction
  <2> QED
    BY <1>9, <2>1, Names DEF Disconnect, Retarget, Unverified,
       LadderAsBuilt!Next, LadderAsBuilt!Disconnect
<1>10. ASSUME AgentEnableMesh PROVE LadderAsBuilt!Next \/ UNCHANGED Ladder
  BY <1>10, Facts DEF AgentEnableMesh, Retarget, Unverified, LadderAsBuilt!Next,
     LadderAsBuilt!GrantHost
<1>11. ASSUME AgentDisconnect PROVE LadderAsBuilt!Next \/ UNCHANGED Ladder
  BY <1>11, Facts DEF AgentDisconnect, Retarget, Unverified, LadderAsBuilt!Next,
     LadderAsBuilt!Drop
<1>12. ASSUME WriteBack PROVE LadderAsBuilt!Next \/ UNCHANGED Ladder
  <2>1. UNCHANGED <<target, verified>>
    BY <1>12 DEF WriteBack, KeepTarget, hist
  <2>2. CASE ProcessExited \/ VerificationExpired
    BY <1>12, <2>1, <2>2, Climbed DEF WriteBack, ProcessExited, VerificationExpired,
       LadderAsBuilt!Next, LadderAsBuilt!Fault
  <2>3. CASE ~(ProcessExited \/ VerificationExpired)
    BY <1>12, <2>1, <2>3, Stutter DEF WriteBack
  <2> QED
    BY <2>2, <2>3
<1>13. CASE UNCHANGED <<authority, target, verified>>
  BY <1>13, Stutter
<1>14. ASSUME \/ ListProcesses \/ Baseline \/ OpenEpoch
              \/ \E p \in Pid : FindCandidate(p) \/ ProcessExit(p) \/ ProcessStart(p)
              \/ \E c \in Candidate : ConnectRefused(c)
       PROVE  UNCHANGED <<authority, target, verified>>
  BY <1>14 DEF ListProcesses, Baseline, OpenEpoch, FindCandidate, ProcessExit, ProcessStart,
     ConnectRefused, KeepTarget, link, hist
<1>15. ASSUME Snapshot \/ Sample \/ Apply \/ Tick \/ UNCHANGED vars
       PROVE  UNCHANGED <<authority, target, verified>>
  BY <1>15 DEF Snapshot, Sample, Apply, Tick, vars, link, hist
<1> QED
  BY <1>1, <1>2, <1>3, <1>4, <1>5, <1>6, <1>7, <1>8, <1>9, <1>12, <1>13, <1>14, <1>15,
     <1>10, <1>11
     DEF Next, Handler, Loop, Environment

\* Every behaviour of the handlers, the loop and the operating system together is a
\* behaviour of the ladder: no rung is skipped but those the code lets skip.
THEOREM Refinement == Spec => FollowsLadder
<1>1. Init => LadderAsBuilt!Init
  BY DEF Init, LadderAsBuilt!Init
<1>2. TypeOK /\ Safe /\ [Next]_vars => [LadderAsBuilt!Next]_(LadderAsBuilt!ladder)
  BY LadderStep DEF Ladder
<1>3. TypeOK /\ Safe /\ [Next]_vars => Safe'
  BY SafeStep
<1> QED
  BY <1>1, <1>2, <1>3, SafeInitially, TypeCorrect, PTL DEF Spec, FollowsLadder, LadderAsBuilt!Spec

--------------------------------------------------------------------------------
(* The contract that is shown beside a state. *)

\* The table of authority_contract() and the match of transition() agree.
LEMMA ContractIsKept ==
  ASSUME NEW s \in AuthorityState
  PROVE  AllowedActions[s] = {a \in AuthorityAction : Accepts(s, a)}
<1>1. \A a \in AuthorityAction : a \in AllowedActions[s] <=> s \in Sources[a]
  BY DEF AuthorityState, AuthorityAction, AllowedActions, Sources
<1>2. AllowedActions[s] \subseteq AuthorityAction
  BY DEF AuthorityState, AuthorityAction, AllowedActions
<1> QED
  BY <1>1, <1>2 DEF Accepts

\* The actions shown with the state are those that transition() accepts in it
\* (authority.rs:93-205), in every state the handlers reach.
THEOREM ContractIsShown == Spec => []ContractMatchesTransitions
<1>1. TypeOK => ContractMatchesTransitions
  BY ContractIsKept DEF TypeOK, LinkOK, ContractMatchesTransitions
<1> QED
  BY <1>1, TypeCorrect, PTL

================================================================================
