--------------------------------- MODULE Probes ---------------------------------
(***************************************************************************)
(* What one project's remote surfaces say and what the commands ci and     *)
(* cloud-status make of it: forge.probe_ci over GitHub, GitLab or a        *)
(* declared status URL, and cloud.collect_cloud.  The world is a newest    *)
(* run, a count of open PRs and a service; how each platform words it is   *)
(* external; the result that is cached, and read offline from then on, is  *)
(* judged against the world.                                               *)
(***************************************************************************)
EXTENDS Naturals, Sequences

CONSTANT MrCountCap   \* bound: stands for MR_COUNT_CAP

VARIABLES
  verb,     \* ci or cloud-status, then done
  source,   \* whose CI it is, and in which words it answers
  field,    \* ci.status_field
  run,      \* the newest run
  open,     \* the open PRs
  service,  \* the declared target and what its platform says
  health,   \* what the health URL answers, "" when there is none
  reach,    \* the requests that get their answer
  ci, prs,  \* the ci result and the known count of PRs, if any
  cloud,    \* the cloud result
  rc        \* the exit code

given == <<source, field, run, open, service, health, reach>>
vars  == <<verb, given, ci, prs, cloud, rc>>

Runs    == {"none", "running", "good", "bad", "odd"}
Urls    == {"jenkins", "hub-shaped", "rest", "buildkite", "list"}
Sources == {"github", "gitlab"} \cup Urls

-----------------------------------------------------------------------------
(* The platforms, as the adapters use them. *)

Word == [running |-> "running", good |-> "success", bad |-> "failure", odd |-> "neutral"]
Outcome == IF run = "running" THEN "null" ELSE Word[run]

\* The newest run as the platform puts it; with no run yet there is nothing in it.
Payload ==
  IF run = "none" \/ source = "list" THEN [key \in {} |-> ""]
  ELSE CASE source = "jenkins" -> [result |-> Outcome]
         [] source \in {"github", "hub-shaped"} ->
              [status |-> IF run = "running" THEN "running" ELSE "completed", conclusion |-> Outcome]
         [] source \in {"gitlab", "rest"} -> [status |-> Word[run]]
         [] source = "buildkite" -> [state |-> Word[run]]
Has(key) == key \in DOMAIN Payload

Fly      == [target : {"fly"}, deployed : BOOLEAN, status : {"deployed", "suspended", "odd"}]
CloudRun == [target : {"cloud-run"}, ready : {"True", "False", "Unknown", "absent"}]
Services == Fly \cup CloudRun \cup [target : {"none", "k8s"}]

-----------------------------------------------------------------------------
(* adapters/github.py, gitlab.py and status_url.py *)

ParseCiConclusion ==
  IF ~Has("status") THEN "unknown"
  ELSE IF Payload.status # "completed" THEN "running"
  ELSE CASE Payload.conclusion = "success" -> "pass"
         [] Payload.conclusion = "failure" -> "fail"
         [] OTHER -> "unknown"

\* The first of the well-known keys that is there, or the declared one.
StatusKeys == <<"result", "conclusion", "status", "state">>
RawStatus ==
  LET keys  == IF field = "" THEN StatusKeys ELSE <<field>>
      found == {i \in DOMAIN keys : Has(keys[i])}
  IN  IF found = {} THEN "missing" ELSE Payload[keys[CHOOSE i \in found : \A j \in found : i <= j]]

\* Mutant: a run that ended has passed.
EndedIsPass(raw) ==
  CASE raw \in {"null", "running"}      -> "running"
    [] raw \in {"success", "completed"} -> "pass"
    [] raw = "failure"                  -> "fail"
    [] OTHER                            -> "unknown"

NormaliseStatus(raw) ==
  CASE raw \in {"null", "running"} -> "running"
    [] raw = "success"             -> "pass"
    [] raw = "failure"             -> "fail"
    [] OTHER                       -> "unknown"

\* A pipeline has no outcome but its status, in GitLab's words for the same four.
ParsePipelineStatus == IF Has("status") THEN NormaliseStatus(Payload.status) ELSE "unknown"

\* A command that failed tells nothing; GitLab counts one page of merge requests.
CollectGithub ==
  [ci  |-> IF "ci" \in reach THEN ParseCiConclusion ELSE "unknown",
   prs |-> IF "prs" \in reach THEN {open} ELSE {}]
MrCount == IF open > MrCountCap THEN MrCountCap ELSE open
CollectGitlab ==
  [ci  |-> IF "ci" \in reach THEN ParsePipelineStatus ELSE "unknown",
   prs |-> IF "prs" \in reach THEN {MrCount} ELSE {}]

\* A URL that is refused or does not answer and a body that is no JSON tell nothing,
\* and a build endpoint knows no PRs.
ProbeStatusUrl ==
  [ci |-> IF "ci" \in reach THEN NormaliseStatus(RawStatus) ELSE "unknown", prs |-> {}]

\* adapters/forge.py: the declared endpoint before the forge.
ProbeCi == CASE source \in Urls -> ProbeStatusUrl
             [] source = "gitlab" -> CollectGitlab
             [] OTHER -> CollectGithub

-----------------------------------------------------------------------------
(* adapters/cloud.py *)

ParseFlyStatus ==
  CASE service.deployed \/ service.status = "deployed" -> "deployed"
    [] ~service.deployed /\ service.status = "suspended" -> "stopped"
    [] OTHER -> "unknown"
ParseCloudRunStatus ==
  CASE service.ready = "True" -> "deployed" [] service.ready = "False" -> "stopped"
    [] OTHER -> "unknown"

\* The state a platform CLI gave, of the two platforms that have one.
State == CASE "cloud" \in reach /\ service.target = "fly" -> ParseFlyStatus
           [] "cloud" \in reach /\ service.target = "cloud-run" -> ParseCloudRunStatus
           [] OTHER -> "unknown"

ProbeHealth ==
  CASE health = ""                    -> ""
    [] health = "ok"                  -> "healthy"
    [] health = "error"               -> "unhealthy"
    [] health \in {"refused", "redirected away", "down"} -> "unknown"

CloudCell ==
  CASE service.target = "none" -> "none"
    [] service.target # "none" /\ (ProbeHealth = "unhealthy" \/ State = "stopped") -> "fail"
    [] OTHER -> IF State = "deployed" THEN "pass" ELSE "unknown"

-----------------------------------------------------------------------------
Init ==
  /\ verb \in {"ci", "cloud-status"}
  /\ IF verb = "ci"
     THEN /\ source \in Sources /\ run \in Runs /\ open \in 0..MrCountCap + 1
          /\ field \in {""} \cup (IF source \in Urls THEN {"status", "conclusion"} ELSE {})
          /\ service = [target |-> "none"] /\ health = "" /\ reach \in SUBSET {"ci", "prs"}
     ELSE /\ source = "github" /\ run = "none" /\ open = 0 /\ field = ""
          /\ service \in Services /\ reach \in SUBSET {"cloud"}
          /\ health \in IF service.target = "none" THEN {""}
                        ELSE {"", "ok", "error", "refused", "redirected away", "down"}
  /\ ci = "none" /\ prs = {} /\ cloud = "none" /\ rc = 0

\* _cmd_ci: probe, cache, exit 1 when CI failed.
Ci ==
  /\ verb = "ci" /\ verb' = "ci done"
  /\ ci' = ProbeCi.ci /\ prs' = ProbeCi.prs /\ rc' = IF ProbeCi.ci = "fail" THEN 1 ELSE 0
  /\ UNCHANGED <<given, cloud>>

\* _cmd_cloud_status; a project that deploys nowhere is not asked anything.
CloudStatus ==
  /\ verb = "cloud-status" /\ verb' = "cloud-status done"
  /\ cloud' = CloudCell
  /\ rc' = IF service.target # "none" /\ (ProbeHealth = "unhealthy" \/ State = "stopped")
           THEN 1 ELSE 0
  /\ UNCHANGED <<given, ci, prs>>

Next == Ci \/ CloudStatus
Spec == Init /\ [][Next]_vars

-----------------------------------------------------------------------------
TypeOK ==
  /\ verb \in {"ci", "ci done", "cloud-status", "cloud-status done"} /\ rc \in {0, 1}
  /\ source \in Sources /\ run \in Runs /\ service \in Services
  /\ ci \in {"none", "unknown", "running", "pass", "fail"} /\ prs \subseteq 0..MrCountCap + 1
  /\ cloud \in {"none", "unknown", "pass", "fail"}

\* The field a status URL is read at holds the run's outcome.
ReadsOutcome ==
  source \in Urls =>
    field \in {""} \cup CASE source = "hub-shaped" -> {"conclusion"} [] source = "rest" -> {"status"}
                         [] OTHER -> {}

\* "Reading status first reports a FAILED run as green" (status_url.py): whatever
\* the platform's words, a run's result is the run's, and running only while it runs;
\* it is unknown only when nobody answered, nothing ran, or the outcome is not one of
\* those words.  A count is the open PRs, or the page limit when there are more.  "Every
\* other read path: an unreachable forge is unknown, not a verdict" (cloud.py): a
\* deployment passes only when the platform said it is deployed and its endpoint did
\* not answer with an error, and the exit code says what the result says.
ProbesAreTrue ==
  /\ verb = "ci done" =>
       /\ ci = "pass" => run = "good"
       /\ ci = "fail" => run = "bad"
       /\ ci = "running" => run = "running"
       /\ ci = "unknown" => \/ "ci" \notin reach \/ run \in {"none", "odd"}
                            \/ source = "list" \/ ~ReadsOutcome
       /\ prs \subseteq {open} \/ (prs = {MrCountCap} /\ MrCountCap < open)
  /\ verb = "cloud-status done" =>
       /\ cloud = "pass" => "cloud" \in reach /\ health # "error"
                            /\ service.target \in {"fly", "cloud-run"}
       /\ cloud = "none" <=> service.target = "none"
       /\ health = "error" => cloud = "fail"
  /\ verb \in {"ci done", "cloud-status done"} => (rc = 1 <=> "fail" \in {ci, cloud})
=============================================================================
