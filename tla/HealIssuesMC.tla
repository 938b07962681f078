----------------------------- MODULE HealIssuesMC -----------------------------
(* The first commit fails both gates, the second one of them. *)
EXTENDS HealIssues, TLC

CONSTANTS c1, c2, lint, test
OneOrNone == {{}, {lint}}
RedGates == c1 :> {lint, test} @@ c2 :> {test}
=============================================================================
