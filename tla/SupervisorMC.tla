----------------------------- MODULE SupervisorMC -----------------------------
(* Who may issue which command, for the small instances of Supervisor. *)
EXTENDS Supervisor

CONSTANTS operator, watch

\* Two processes that do everything.
Everyone == [c \in {operator, watch} |-> {"start", "stop", "check", "status"}]
=============================================================================
