-------------------------------- MODULE MCChat --------------------------------
(* A small instance of AgentChat for TLC. *)
EXTENDS AgentChat
================================================================================
