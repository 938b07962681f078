------------------------------ MODULE Operations ------------------------------
(***************************************************************************)
(* The operations that share no state with each other, each a scene of one *)
(* model: Init chooses the scene, its module runs, and the state of the    *)
(* others stands still.                                                    *)
(***************************************************************************)
EXTENDS Naturals, FiniteSets

CONSTANTS Operators, Ci, MaxRuns, Shell, Children, Audits, Findings, Projects, MaxShifts,
          ProjectOf, Files, Pyproject, Contents, Commits, Trunk, Snapshot, Mode, MaxChanges
VARIABLES scene,
  kind, runs, cmd,
  proc, exit, at, call, late, result, ticks, stranger, parent,
  issues, baseline, audit, told, lost, shifts,
  upstream, fetched, head, onMain, linked, session, tree, hidden, ignored, tool,
  step, mode, problems, compared, rc, changes, moved

D == INSTANCE Deploys
C == INSTANCE Commands
G == INSTANCE Digest
I == INSTANCE Install

ASSUME OperationsAssumption == /\ D!DeploysAssumption /\ C!CommandsAssumption
                               /\ G!DigestAssumption /\ I!InstallAssumption

deployVars  == <<kind, runs, cmd>>
commandVars == <<proc, exit, at, call, late, result, ticks, stranger, parent>>
digestVars  == <<issues, baseline, audit, told, lost, shifts>>
installVars == <<upstream, fetched, head, onMain, linked, session, tree, hidden, ignored, tool,
                 step, mode, problems, compared, rc, changes, moved>>
vars == <<scene, deployVars, commandVars, digestVars, installVars>>

DeployStill  == kind = "no target" /\ runs = <<>> /\ cmd = [o \in Operators |-> D!Idle]
CommandStill == /\ proc = [p \in C!Procs |-> C!None] /\ exit = "none" /\ at = "done"
                /\ call = "run_command" /\ late = FALSE /\ result = "" /\ ticks = "compared"
                /\ stranger = "none" /\ parent = TRUE
DigestStill  == G!Init
InstallStill == I!Init /\ linked = FALSE /\ session = FALSE /\ fetched = 0

Init ==
  /\ scene \in {"deploy", "command", "digest", "install"}
  /\ IF scene = "deploy" THEN D!Init ELSE DeployStill
  /\ IF scene = "command" THEN C!Init ELSE CommandStill
  /\ IF scene = "digest" THEN G!Init ELSE DigestStill
  /\ IF scene = "install" THEN I!Init ELSE InstallStill

Deploy  == scene = "deploy"  /\ D!Next /\ UNCHANGED <<scene, commandVars, digestVars, installVars>>
Command == scene = "command" /\ C!Next /\ UNCHANGED <<scene, deployVars, digestVars, installVars>>
Digest  == scene = "digest"  /\ G!Next /\ UNCHANGED <<scene, deployVars, commandVars, installVars>>
Install == scene = "install" /\ I!Next /\ UNCHANGED <<scene, deployVars, commandVars, digestVars>>
Next == Deploy \/ Command \/ Digest \/ Install
Spec == Init /\ [][Next]_vars /\ D!Fairness /\ C!Fairness

TypeOK == D!TypeOK /\ C!TypeOK /\ G!TypeOK /\ I!TypeOK
\* A deploy's exit code says what became of its own run (Deploys, adapters/cloud.py).
DeployVerdictIsTrue == D!DeployVerdictIsTrue
\* A command's result and the end of a group are what they say (Commands, runner.py, procs.py).
ResultsAreTrue == C!ResultsAreTrue
\* Only an audit of projects changes the digest's baseline, and nothing in it went untold
\* (Digest, digest.py).
DigestsAreTrue == G!DigestsAreTrue
\* The dry run, the apply and the check of an install exit 0 only when it is so (Install,
\* install_tool.py).
ExitsAreTrue == I!ExitsAreTrue
\* Every wait for a deploy ends, and every bounded command and every stop returns (Deploys,
\* wait_for_deploy; Commands, runner.py, procs.py).
WaitsEnd == D!WaitsEnd /\ C!CallsReturn
=============================================================================
