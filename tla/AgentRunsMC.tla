----------------------------- MODULE AgentRunsMC -----------------------------
(* Small instances of AgentRuns: the run ids and operators are model values. *)
EXTENDS AgentRuns
=============================================================================
