------------------------------- MODULE MCSecrets -------------------------------
(* A small instance of AgentSecrets for TLC. *)
EXTENDS AgentSecrets, TLC

CONSTANTS free, router, custom, openai, local

PatcherSymmetry == Permutations(Patcher)

\* The panel names provider and active provider; other clients may name either or none.
SomePatches ==
  {[active |-> p, provider |-> p, key |-> k] : p \in {free, custom}, k \in {"given", "absent"}}
    \cup {[active |-> openai, provider |-> None, key |-> "given"],
          [active |-> None, provider |-> None, key |-> "given"],
          [active |-> None, provider |-> router, key |-> "empty"]}
================================================================================
