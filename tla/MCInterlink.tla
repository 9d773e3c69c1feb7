----------------------------- MODULE MCInterlink -----------------------------
(* Small instances of Interlink for TLC. *)
EXTENDS Interlink, TLC

\* PIDs are interchangeable: no action or property tells one from another.
PidSymmetry == Permutations(Pid)
================================================================================
