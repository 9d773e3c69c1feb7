------------------------------ MODULE MCActuation ------------------------------
(* Small instances of Actuation for TLC. *)
EXTENDS Actuation, TLC

\* Processes are interchangeable: no action or property tells one from another.
PidSymmetry == Permutations(Pid)

\* Half the budget of the code's 4, 5, 6 and 8 targets and less, so that two
\* processes compete for one place when memory is not short.
SmallBudgets == <<1, 1, 2, 2>>
================================================================================
