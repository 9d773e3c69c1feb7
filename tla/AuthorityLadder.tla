---------------------------- MODULE AuthorityLadder ----------------------------
(***************************************************************************)
(* What the authority ladder promises, with nothing of how the program     *)
(* keeps it: a state, and the process the authority is about.  A process   *)
(* becomes the subject when it is connected and stays it until the link is *)
(* cut; it can be governed only after a verification that followed its own *)
(* connection; a fault ends governance and keeps the subject.              *)
(*                                                                         *)
(* Three constants say how steep the ladder is.  The one the documents     *)
(* describe has ConnectFrom = {"Discovered"}, HostGrantFrom = {} and       *)
(* DropFrom = {}.                                                          *)
(***************************************************************************)
EXTENDS Authority

CONSTANTS
  Pid,            \* processes
  NoPid,          \* no process
  ConnectFrom,    \* states from which a process may be connected
  HostGrantFrom,  \* states from which the whole host may be governed at once
  DropFrom        \* states from which authority may return to mere observation

VARIABLES
  state,      \* the authority state
  subject,    \* the process it is about
  verified    \* that process has been verified since it was connected

ladder == <<state, subject, verified>>

Init ==
  /\ subject \in Pid \cup {NoPid}
  /\ state = IF subject = NoPid THEN "Observation" ELSE "Connected"
  /\ verified = FALSE

Discover ==
  /\ state \in {"Observation", "Disconnected"}
  /\ state' = "Discovered"
  /\ UNCHANGED <<subject, verified>>

Connect(p) ==
  /\ state \in ConnectFrom
  /\ state' = "Connected"
  /\ subject' = p
  /\ verified' = FALSE

Verify ==
  /\ state = "Connected"
  /\ state' = "Verified"
  /\ verified' = TRUE
  /\ UNCHANGED subject

\* Governance of the verified subject, or again of the host.
Grant ==
  /\ state \in {"Verified", "Paused"}
  /\ verified \/ subject = NoPid
  /\ state' = "Active"
  /\ UNCHANGED <<subject, verified>>

GrantHost ==
  /\ state \in HostGrantFrom
  /\ state' = "Active"
  /\ subject' = NoPid
  /\ verified' = FALSE

Pause ==
  /\ state = "Active"
  /\ state' = "Paused"
  /\ UNCHANGED <<subject, verified>>

\* Only the governance of a process can fault, or its verification.
Fault ==
  /\ state \in {"Connected", "Active"}
  /\ subject # NoPid
  /\ state' = "Faulted"
  /\ UNCHANGED <<subject, verified>>

Disconnect ==
  /\ state \in Sources["Disconnect"]
  /\ state' = "Disconnected"
  /\ subject' = NoPid
  /\ verified' = FALSE

Drop ==
  /\ state \in DropFrom
  /\ state' = "Observation"
  /\ subject' = NoPid
  /\ verified' = FALSE

Next ==
  \/ Discover \/ Verify \/ Grant \/ GrantHost \/ Pause \/ Fault \/ Disconnect \/ Drop
  \/ \E p \in Pid : Connect(p)

Spec == Init /\ [][Next]_ladder

================================================================================
