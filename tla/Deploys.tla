-------------------------------- MODULE Deploys --------------------------------
(***************************************************************************)
(* Deploy control: adapters/cloud.py (trigger_deploy, latest_run_id,       *)
(* wait_for_deploy) under __main__._cmd_deploy.  Several operators deploy  *)
(* one project at once, its own CI starts runs of the same workflow, runs  *)
(* appear in the forge's listing some time after they exist, and every gh  *)
(* call can fail, a dispatch also after it took effect.                    *)
(*                                                                         *)
(* A run's id is its place in runs.                                        *)
(***************************************************************************)
EXTENDS Integers, Sequences, FiniteSetsExt

CONSTANTS
  Operators,   \* invocations of the deploy command
  Ci,          \* whoever else starts the workflow
  MaxRuns      \* bound: runs of the workflow

DeploysAssumption == Ci \notin Operators /\ MaxRuns \in Nat \ {0}

Kinds == {"no target", "no workflow", "gitlab", "github"}

VARIABLES
  kind,   \* what the project's descriptor and tree say of deploying it
  runs,   \* the forge's runs of the workflow: who started one, whether it is listed, its state
  cmd     \* the command of each operator

vars == <<kind, runs, cmd>>

Idle == [at |-> "idle", apply |-> FALSE, wait |-> FALSE, floor |-> -1, blind |-> FALSE,
         before |-> {}, status |-> "", late |-> FALSE, saw |-> FALSE, reached |-> FALSE,
         state |-> "", rc |-> 0]

RunIds == 1..MaxRuns
TypeOK ==
  /\ kind \in Kinds
  /\ runs \in Seq([by : Operators \cup {Ci}, listed : BOOLEAN,
                   state : {"running", "success", "failure"}]) /\ Len(runs) <= MaxRuns
  /\ \A o \in Operators :
       /\ cmd[o].at \in {"idle", "mark", "dispatch", "poll", "exit", "done"}
       /\ cmd[o].floor \in RunIds \cup {-1} /\ cmd[o].rc \in 0..2 /\ cmd[o].before \subseteq RunIds

Init == kind \in Kinds /\ runs \in {<<>>, <<[by |-> Ci, listed |-> TRUE, state |-> "success"]>>}
        /\ cmd = [o \in Operators |-> Idle]

Listed == {i \in DOMAIN runs : runs[i].listed}
Become(o, command) == cmd' = [cmd EXCEPT ![o] = command]

-----------------------------------------------------------------------------
(* The command. *)

\* _cmd_deploy refuses a wait it cannot honour before anything is dispatched.
Begin(o) ==
  /\ cmd[o].at = "idle"
  /\ \E apply \in BOOLEAN : \E wait \in {FALSE, apply} :
       LET refused == wait /\ kind = "gitlab" IN
       Become(o, [cmd[o] EXCEPT !.apply = apply, !.wait = wait,
                                !.at = IF refused THEN "done" ELSE IF wait THEN "mark" ELSE "dispatch",
                                !.rc = IF refused THEN 2 ELSE 0])
  /\ UNCHANGED <<kind, runs>>

\* latest_run_id: no answer and no runs both mean no floor.
Mark(o) ==
  /\ cmd[o].at = "mark"
  /\ \E ok \in BOOLEAN :
       Become(o, [cmd[o] EXCEPT !.at = "dispatch", !.blind = ~ok, !.before = Listed,
                                !.floor = IF ok /\ Listed # {} THEN Max(Listed) ELSE -1])
  /\ UNCHANGED <<kind, runs>>

\* trigger_deploy, in the order of its returns.
Preflight(o) == CASE kind = "no target" -> "skipped" [] kind = "no workflow" -> "no-workflow"
                  [] ~cmd[o].apply -> "planned" [] OTHER -> ""
Dispatch(o) ==
  /\ cmd[o].at = "dispatch"
  /\ \/ /\ Preflight(o) # "" /\ UNCHANGED runs
        /\ Become(o, [cmd[o] EXCEPT !.at = "exit", !.status = Preflight(o)])
     \/ /\ Preflight(o) = ""
        /\ \E ok, landed \in BOOLEAN :
             /\ ok => landed
             /\ landed => Len(runs) < MaxRuns
             /\ Become(o, [cmd[o] EXCEPT !.status = IF ok THEN "dispatched" ELSE "failed",
                                         !.at = IF ok /\ cmd[o].wait THEN "poll" ELSE "exit"])
             /\ runs' = IF landed THEN Append(runs, [by |-> o, listed |-> FALSE, state |-> "running"])
                                  ELSE runs
  /\ UNCHANGED kind

\* Mutant: the newest run is ours.
NewestRun(o) == Listed

OurRun(o) == {i \in Listed : i > cmd[o].floor}

Classify(i) == CASE runs[i].state = "running" -> "" [] runs[i].state = "success" -> "succeeded"
                 [] OTHER -> "failed"

WaitDeadline(o, saw, reached) == CASE saw -> "timed-out" [] reached -> "unconfirmed" [] OTHER -> "unknown"

\* Mutant: the deadline counts only once the run was seen.
DeadlineOnceSeen(o, saw) == cmd[o].late /\ saw

DeadlinePassed(o, saw) == cmd[o].late

\* One round of wait_for_deploy: the deadline is looked at only after a poll.
Poll(o) ==
  /\ cmd[o].at = "poll"
  /\ \E ok \in BOOLEAN :
       LET mine    == IF ok THEN OurRun(o) ELSE {}
           verdict == IF mine = {} THEN "" ELSE Classify(Max(mine))
           saw     == cmd[o].saw \/ mine # {}
           reached == cmd[o].reached \/ ok
           settled(state) == [cmd[o] EXCEPT !.at = "exit", !.state = state]
       IN  Become(o, IF verdict # "" THEN settled(verdict)
                     ELSE IF DeadlinePassed(o, saw) THEN settled(WaitDeadline(o, saw, reached))
                     ELSE [cmd[o] EXCEPT !.saw = saw, !.reached = reached])
  /\ UNCHANGED <<kind, runs>>

DeployExitCode(o) ==
  IF \/ cmd[o].status = "failed"
     \/ cmd[o].apply /\ cmd[o].status # "dispatched"
     \/ cmd[o].state \notin {"", "succeeded"}
  THEN 1 ELSE 0
Exit(o) == /\ cmd[o].at = "exit"
           /\ Become(o, [cmd[o] EXCEPT !.at = "done", !.rc = DeployExitCode(o)])
           /\ UNCHANGED <<kind, runs>>

-----------------------------------------------------------------------------
(* The clock and the forge. *)

Deadline(o) == /\ cmd[o].at = "poll" /\ ~cmd[o].late
               /\ Become(o, [cmd[o] EXCEPT !.late = TRUE]) /\ UNCHANGED <<kind, runs>>
CiStarts == /\ Len(runs) < MaxRuns /\ runs' = Append(runs, [by |-> Ci, listed |-> FALSE, state |-> "running"])
            /\ UNCHANGED <<kind, cmd>>
Lists == /\ \E i \in DOMAIN runs \ Listed : runs' = [runs EXCEPT ![i].listed = TRUE]
         /\ UNCHANGED <<kind, cmd>>
\* A run that ends before it is listed looks to every poll as one that ends after.
Completes == /\ \E i \in Listed : \E s \in {"success", "failure"} :
                  runs[i].state = "running" /\ runs' = [runs EXCEPT ![i].state = s]
             /\ UNCHANGED <<kind, cmd>>

Operator(o) == Begin(o) \/ Mark(o) \/ Dispatch(o) \/ Poll(o) \/ Exit(o) \/ Deadline(o)
Next == (\E o \in Operators : Operator(o)) \/ CiStarts \/ Lists \/ Completes
Fairness == \A o \in Operators : WF_vars(Poll(o)) /\ WF_vars(Deadline(o))
Spec == Init /\ [][Next]_vars /\ Fairness

-----------------------------------------------------------------------------
\* "Rejects a wait we cannot honor BEFORE dispatching", "a verdict we do not understand
\* must not be allowed to read as success", "following [an older run] would report a
\* previous deploy's verdict as this one's": a refused, planned or skipped deploy started
\* no run; an applied one that exits 0 did; and one that waited exits 0 only on a run that
\* succeeded, was not there before the dispatch if the mark could be read, and is its own
\* unless somebody else's run came after the mark too.
Own(o) == {i \in DOMAIN runs : runs[i].by = o}
After(o) == DOMAIN runs \ cmd[o].before
VerdictIsTrue(o) ==
  cmd[o].at = "done" =>
    /\ ~cmd[o].apply \/ cmd[o].rc = 2 => Own(o) = {}
    /\ cmd[o].apply /\ cmd[o].rc = 0 => Own(o) # {}
    /\ cmd[o].wait /\ cmd[o].rc = 0 =>
         \E i \in Listed : /\ runs[i].state = "success"
                           /\ cmd[o].blind \/ i \in After(o)
                           /\ After(o) = Own(o) /\ ~cmd[o].blind => i \in Own(o)
DeployVerdictIsTrue == \A o \in Operators : VerdictIsTrue(o)

\* wait_for_deploy gives up at its deadline, whatever gh answers or fails to.
WaitsEnd == \A o \in Operators : cmd[o].at = "poll" ~> cmd[o].at # "poll"
=============================================================================
