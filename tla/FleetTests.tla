------------------------------- MODULE FleetTests -------------------------------
(***************************************************************************)
(* test-fleet: `just test` in every repository of the fleet, one row each, *)
(* and an exit code.  A fleet is short of repositories when a root could   *)
(* not be scanned or a configured project was not admitted.                *)
(***************************************************************************)
EXTENDS Naturals, FiniteSets

CONSTANTS
  Repos,    \* repositories on disk
  MaxFailed \* bound: tests a suite counts as failed

VARIABLES
  repo,      \* what each repository is
  admitted,  \* the ones discover admitted
  scanned,   \* every scan root could be read
  listed,    \* the ones the fleet file lists by path
  asked,     \* --project: a set of at most one repository
  rows,      \* each row's status, and what the run counted
  rc         \* the exit code, 3 until there is one

given == <<repo, admitted, scanned, listed, asked>>
vars  == <<given, rows, rc>>

FleetTestsAssumption == Repos # {} /\ MaxFailed \in Nat \ {0}

Pending == 3   \* no exit code of the command

\* just --summary, then just test: what it printed last, and how it ended.
Summaries == {"timed out", "could not start", "exited 1", "no test recipe", "test"}
Runs == [ended : {"timed out", "could not start", "exited 0", "exited 1"}, counted : {{}} \cup {{n} : n \in 0..MaxFailed}]
\* Nothing is counted of a suite that could not start.
RunsThatAre == {run \in Runs : run.ended = "could not start" => run.counted = {}}
RepoKinds == [governed : BOOLEAN, justfile : {TRUE}, summary : {"test"}, run : RunsThatAre]
             \cup [governed : BOOLEAN, justfile : {TRUE}, summary : Summaries \ {"test"},
                   run : {[ended |-> "could not start", counted |-> {}]}]
             \cup [governed : BOOLEAN, justfile : {FALSE}, summary : {"no test recipe"},
                   run : {[ended |-> "could not start", counted |-> {}]}]

-----------------------------------------------------------------------------
\* Mutant: a repository without a gate is skipped, governed or not.
SkipNoGate(r) == "skip"
NoGate(r) == IF repo[r].governed THEN "fail" ELSE "skip"

\* _preflight: "run" when the tests are to be run.
Preflight(r) ==
  CASE ~repo[r].justfile \/ repo[r].summary = "no test recipe" -> NoGate(r)
    [] repo[r].justfile /\ repo[r].summary = "test" -> "run"
    [] repo[r].justfile /\ repo[r].summary \in {"timed out", "could not start", "exited 1"} -> "fail"

Verdict(run) == IF run.ended = "exited 0" /\ \A n \in run.counted : n = 0 THEN "pass" ELSE "fail"
RunRepo(r)   == IF Preflight(r) = "run" THEN Verdict(repo[r].run) ELSE Preflight(r)

Selected == IF asked = {} THEN admitted ELSE asked \cap admitted
Unscanned == ~scanned
Dropped   == listed \ admitted
FleetTestExit == IF \E r \in DOMAIN rows : rows[r] = "fail" THEN 1 ELSE 0

-----------------------------------------------------------------------------
Init ==
  /\ repo \in [Repos -> RepoKinds] /\ scanned \in BOOLEAN
  /\ admitted \in SUBSET Repos /\ listed \in SUBSET Repos
  /\ asked \in {{}} \cup {{r} : r \in Repos}
  /\ rows = [r \in {} |-> ""] /\ rc = Pending

\* Nobody to run: an unknown project, or a fleet of none.
NothingSelected == rc = Pending /\ Selected = {} /\ rc' = 2 /\ UNCHANGED <<given, rows>>

RunOne(r) == /\ rc = Pending /\ r \in Selected \ DOMAIN rows
             /\ rows' = [q \in DOMAIN rows \cup {r} |-> IF q = r THEN RunRepo(r) ELSE rows[q]]
             /\ UNCHANGED <<given, rc>>

Finish == /\ rc = Pending /\ Selected # {} /\ DOMAIN rows = Selected
          /\ rc' = IF FleetTestExit = 1 \/ (asked = {} /\ (Unscanned \/ Dropped # {})) THEN 1 ELSE 0
          /\ UNCHANGED <<given, rows>>

Next == NothingSelected \/ Finish \/ \E r \in Repos : RunOne(r)
Spec == Init /\ [][Next]_vars

-----------------------------------------------------------------------------
TypeOK == /\ admitted \subseteq Repos /\ listed \subseteq Repos /\ scanned \in BOOLEAN
          /\ rows \in UNION {[S -> {"pass", "fail", "skip"}] : S \in SUBSET Repos} /\ rc \in {0, 1, 2, 3}

\* Exit 0 says that every governed repository it was asked about, the configured and the
\* unscanned ones included, ran its tests and counted no failure: an empty fleet is not a
\* green one, and a gap elsewhere does not fail the one that was named (testfleet.py,
\* __main__ _cmd_test_fleet, #320 and #323).
Green(r) == repo[r].justfile /\ repo[r].summary = "test" /\ repo[r].run.ended = "exited 0"
            /\ repo[r].run.counted \subseteq {0}
RedIsNeverGreen ==
  /\ rc = 0 => /\ \E r \in admitted : asked \subseteq {r}
               /\ asked \subseteq admitted
               /\ asked = {} => scanned /\ listed \subseteq admitted
               /\ \A r \in IF asked = {} THEN admitted \cup listed ELSE asked :
                    Green(r) \/ (~repo[r].governed /\ rows[r] = "skip")
  /\ rc = 1 => \/ \E r \in Selected : ~Green(r)
               \/ asked = {} /\ (~scanned \/ ~(listed \subseteq admitted))
=============================================================================
