------------------------------- MODULE Authority -------------------------------
(***************************************************************************)
(* The authority contract of src/authority.rs: the states a link between   *)
(* PulseFlow and a process can be in, the actions on it, the transition    *)
(* function every handler consults, and the table of allowed actions that  *)
(* the runtime serialises next to the state.                               *)
(***************************************************************************)

AuthorityState ==
  {"Observation", "Discovered", "Connected", "Verified",
   "Active", "Paused", "Faulted", "Disconnected"}

AuthorityAction ==
  {"Discover", "Connect", "Verify", "Enable", "Pause", "Resume",
   "Disconnect", "Fault", "Recover"}

(* The states from which transition() accepts an action. *)
Sources ==
  [a \in AuthorityAction |->
     CASE a = "Discover"   -> {"Observation", "Disconnected", "Discovered"}
       [] a = "Connect"    -> {"Discovered"}
       [] a = "Verify"     -> {"Connected"}
       [] a = "Enable"     -> {"Verified"}
       [] a = "Pause"      -> {"Active"}
       [] a = "Resume"     -> {"Paused"}
       [] a = "Disconnect" -> {"Connected", "Verified", "Active", "Paused", "Faulted"}
       [] a = "Fault"      -> AuthorityState \ {"Faulted"}
       [] a = "Recover"    -> {"Faulted"}]

\* MUTANT of Accepts: a disconnected link may be connected, as the handler lets it.
AcceptsReconnect(s, a) == s \in Sources[a] \/ (s = "Disconnected" /\ a = "Connect")

Accepts(s, a) == s \in Sources[a]

(* Where an accepted action leads: the source state never matters. *)
Resulting(a) ==
  CASE a = "Discover"            -> "Discovered"
    [] a = "Connect"             -> "Connected"
    [] a = "Verify"              -> "Verified"
    [] a \in {"Enable", "Resume"} -> "Active"
    [] a = "Pause"               -> "Paused"
    [] a = "Disconnect"          -> "Disconnected"
    [] a = "Fault"               -> "Faulted"
    [] a = "Recover"             -> "Observation"

(* The allowed_actions column of authority_contract(). *)
AllowedActions ==
  [s \in AuthorityState |->
     CASE s \in {"Observation", "Disconnected"} -> {"Discover", "Fault"}
       [] s = "Discovered" -> {"Discover", "Connect", "Fault"}
       [] s = "Connected"  -> {"Verify", "Disconnect", "Fault"}
       [] s = "Verified"   -> {"Enable", "Disconnect", "Fault"}
       [] s = "Active"     -> {"Pause", "Disconnect", "Fault"}
       [] s = "Paused"     -> {"Resume", "Disconnect", "Fault"}
       [] s = "Faulted"    -> {"Recover", "Disconnect"}]

================================================================================
