---------------------------- MODULE InterlinkClaims ----------------------------
(***************************************************************************)
(* What the repository's documents say of the governance path, where the   *)
(* code does something else: a formula that states one sentence of a       *)
(* document, and that a behaviour of Interlink violates.                   *)
(***************************************************************************)
EXTENDS Interlink, TLC

PidSymmetry == Permutations(Pid)

\* docs/AUTHORITY_STATE_MODEL.md, "PID/executable mismatch ... stops new modulation":
\* a sample lets the loop modulate only if it sees the connected executable.
SampleSeesTheExecutable ==
  [][pc = "sample" /\ pc' = "apply" /\ EffectiveActive' /\ ~snap.mesh /\ ~target_changed
       => os[identity.pid] = identity.image]_vars
================================================================================
