------------------------------- MODULE Lifecycle -------------------------------
(***************************************************************************)
(* The GitHub workflow of .agents/hooks/dag_workflow.py: the guard that    *)
(* steers an agent's raw git and gh commands to the wrappers, and the      *)
(* verbs the wrappers call (check, push, promote, finish,                  *)
(* create-pr-nojira), with monitor_pr.sh, which finish hands the PR to.    *)
(* Sessions share one clone and one remote.  A verb asks git and gh one    *)
(* question after another, and between two of them people commit, amend,   *)
(* switch branches, push from elsewhere and merge.                         *)
(*                                                                         *)
(* A branch is the set of its commits; {} is a branch that does not exist. *)
(* A PR is known by its head branch.  A call that fails costs a fault.     *)
(***************************************************************************)
EXTENDS Naturals, FiniteSets, Sequences

CONSTANTS
  Sessions,
  Branches, Trunk,   \* the clone's branches; main/master among them
  IssueOf,           \* the branches whose name holds an issue reference
  Issues,            \* those whose issue exists
  Wrappers,          \* the scripts present in .agents/scripts
  Verbs,             \* the verbs the sessions use
  Unreviewed,        \* the decisions of a PR nobody reviewed: without an approval
                     \* policy there is none
  MaxRetries,        \* the retries of a push
  MaxCommits, MaxFaults, MaxCommands  \* bounds

ASSUME LifecycleAssumption ==
  /\ Trunk \in Branches /\ IssueOf \subseteq Branches /\ Issues \subseteq Branches
  /\ Verbs \subseteq {"check", "push", "promote", "finish", "create", "raw"}
  /\ Unreviewed \subseteq {"NONE", "REVIEW_REQUIRED"}
  /\ {MaxRetries, MaxCommits, MaxFaults, MaxCommands} \subseteq Nat

CONSTANT Detached  \* no branch is checked out

VARIABLES
  checkout,  \* the branch the clone has checked out, or Detached
  local,     \* the branches of the clone
  track,     \* its remote-tracking branches
  remote,    \* the branches of origin
  pr,        \* the PR of each branch
  rollup,    \* the check runs and commit statuses of each PR
  review,    \* its review decision
  at,        \* the step each session is at
  cmd,       \* its command
  commits, faults, commands

repo   == <<checkout, local, track, remote>>
forge  == <<pr, rollup, review>>
counts == <<commits, faults, commands>>
vars   == <<repo, forge, at, cmd, counts>>

GRAPH == [n \in {"issue.created", "branch.created", "branch.pushed", "pr.opened",
                 "ci.green", "review.approved", "pr.merged"} |->
  CASE n = "branch.pushed"   -> <<"branch.created">>
    [] n = "pr.opened"       -> <<"branch.pushed", "issue.created">>
    [] n \in {"ci.green", "review.approved"} -> <<"pr.opened">>
    [] n = "pr.merged"       -> <<"ci.green", "review.approved">>
    [] OTHER                 -> <<>>]
Nodes == DOMAIN GRAPH

\* One entry of statusCheckRollup: a CheckRun or a StatusContext (`state` only).
Run(status, conclusion) == [review |-> FALSE, status |-> status,
                            conclusion |-> conclusion, state |-> ""]
Context(state)          == [review |-> FALSE, status |-> "", conclusion |-> "", state |-> state]
Decision                == [Run("COMPLETED", "FAILURE") EXCEPT !.review = TRUE]
Passing == {Run("COMPLETED", "SUCCESS"), Context("SUCCESS"), Decision}
Rollups == {{}, Passing, Passing \cup {Run("IN_PROGRESS", "")}, Passing \cup {Context("FAILURE")}}

\* What a raw command's text may hold, of what bears on the PRs and the trunk.
Invocations == {"push trunk", "push", "merge", "ready", "upstream issue"}

NoCommand == [verb |-> "none", node |-> "", branch |-> Detached, expected |-> {}, tries |-> 0,
              force |-> FALSE, walk |-> <<>>, seen |-> {}, held |-> {}, text |-> <<>>,
              unheard |-> FALSE, rc |-> 0]

TypeOK ==
  /\ checkout \in Branches \cup {Detached}
  /\ \A ref \in {local, track, remote} : ref \in [Branches -> SUBSET (0..MaxCommits)]
  /\ pr \in [Branches -> {"none", "draft", "ready", "merged", "closed", "closed draft"}]
  /\ rollup \in [Branches -> Rollups]
  /\ review \in [Branches -> Unreviewed \cup {"APPROVED", "CHANGES_REQUESTED"}]
  /\ at \in [Sessions -> {"idle", "walk", "detect", "head", "current", "choose",
                          "resolve", "push", "verify", "view", "ready", "existing", "open",
                          "monitor", "review", "merge", "admin", "raw", "done"}]
  /\ \A s \in Sessions :
       /\ DOMAIN cmd[s] = DOMAIN NoCommand
       /\ cmd[s].verb \in {"none", "check", "push", "promote", "finish", "create", "raw"}
       /\ cmd[s].branch \in Branches \cup {Detached}
       /\ cmd[s].tries \in 0..MaxRetries /\ cmd[s].rc \in 0..2
       /\ cmd[s].seen \cup cmd[s].held \subseteq Nodes
       /\ cmd[s].text \in Seq(Invocations) /\ cmd[s].unheard \in BOOLEAN

\* A fresh clone, or one whose feature branch is pushed and has a draft PR.
Init ==
  /\ checkout \in Branches
  /\ local  = [b \in Branches |-> IF b \in {Trunk, checkout} THEN {0} ELSE {}]
  /\ \E pushed \in SUBSET ({checkout} \ {Trunk}) :
       /\ remote = [b \in Branches |-> IF b \in pushed \cup {Trunk} THEN {0} ELSE {}]
       /\ pr     = [b \in Branches |-> IF b \in pushed THEN "draft" ELSE "none"]
  /\ track = remote
  /\ rollup = [b \in Branches |-> {}]
  /\ \E d \in Unreviewed : review = [b \in Branches |-> d]
  /\ at  = [s \in Sessions |-> "idle"] /\ cmd = [s \in Sessions |-> NoCommand]
  /\ commits = 0 /\ faults = 0 /\ commands = 0

Quiet(ok) == IF ok THEN UNCHANGED faults ELSE faults < MaxFaults /\ faults' = faults + 1

-----------------------------------------------------------------------------
(* What a session does next. *)

Go(s, step)         == at' = [at EXCEPT ![s] = step] /\ UNCHANGED cmd
GoWith(s, step, c)  == at' = [at EXCEPT ![s] = step] /\ cmd' = [cmd EXCEPT ![s] = c]
Return(s, rc)       == GoWith(s, "done", [cmd[s] EXCEPT !.rc = rc])
Still == UNCHANGED <<commits, commands>>

Begin(s, step, c) ==
  /\ at[s] \in {"idle", "done"} /\ commands < MaxCommands
  /\ commands' = commands + 1
  /\ GoWith(s, step, c)
  /\ UNCHANGED <<repo, forge, commits, faults>>

\* cmd_check, cmd_push, cmd_promote and cmd_finish, with and without an argument,
\* and cmd_create_pr_nojira, for the current branch, a new one or the one it is given.
Check(s) == \E n \in Nodes :
  Begin(s, "walk", [NoCommand EXCEPT !.verb = "check", !.node = n, !.walk = <<n>>])
PushVerb(s) == \E b \in Branches \cup {checkout}, force \in BOOLEAN :
  Begin(s, "resolve", [NoCommand EXCEPT !.verb = "push", !.branch = b, !.force = force])
PromoteVerb(s) ==
  \/ \E b \in Branches : Begin(s, "view", [NoCommand EXCEPT !.verb = "promote", !.branch = b])
  \/ Begin(s, "detect", [NoCommand EXCEPT !.verb = "promote"])
FinishVerb(s) ==
  \/ \E b \in Branches : /\ pr[b] # "none"
                         /\ Begin(s, "head", [NoCommand EXCEPT !.verb = "finish", !.branch = b])
  \/ Begin(s, "detect", [NoCommand EXCEPT !.verb = "finish"])
CreateVerb(s) == \E b \in Branches \ {Trunk} :
  Begin(s, IF b = checkout THEN "resolve" ELSE "choose",
        [NoCommand EXCEPT !.verb = "create", !.branch = b])

-----------------------------------------------------------------------------
(* check: prereqs_satisfied, one check after another. *)

\* The failing entries, and those that have not said yet; review/decision is skipped.
Failing(e) == \/ e.conclusion \in {"FAILURE", "TIMED_OUT", "CANCELLED", "ERROR", "ACTION_REQUIRED"}
              \/ e.state \in {"FAILURE", "ERROR"}
Pending(e) == \/ e.status \in {"PENDING", "QUEUED", "IN_PROGRESS", "WAITING"}
              \/ e.state \in {"PENDING", "EXPECTED"}
              \/ e.conclusion = "" /\ e.status = "" /\ e.state = ""
CiGreen(entries) == \A e \in entries : ~e.review => ~Failing(e) /\ ~Pending(e)

Here == checkout # Detached

\* CHECKS: what each check says when git and gh answer.
Holds(n) ==
  CASE n = "issue.created"  -> Here /\ (checkout \in IssueOf => checkout \in Issues)
    [] n = "branch.created" -> Here /\ checkout # Trunk
    [] n = "branch.pushed"  -> Here /\ track[checkout] # {} /\ local[checkout] \subseteq track[checkout]
    [] OTHER -> Here /\
         CASE n = "pr.opened"       -> pr[checkout] \in {"draft", "ready"}
           [] n = "ci.green"        -> pr[checkout] # "none" /\ CiGreen(rollup[checkout])
           [] n = "review.approved" -> pr[checkout] # "none" /\ review[checkout] = "APPROVED"
           [] n = "pr.merged"       -> pr[checkout] = "merged"

\* Mutant: a prerequisite counts as seen before it is visited.
AfterVisitEarly(c, n) ==
  IF n \in c.seen THEN [c EXCEPT !.walk = Tail(@)]
  ELSE [c EXCEPT !.walk = GRAPH[n] \o Tail(@),
                 !.seen = @ \cup {n} \cup {GRAPH[n][i] : i \in DOMAIN GRAPH[n]}]

\* Visiting a node puts its prerequisites, each to be checked and then visited,
\* before what is left; a node already seen adds nothing.
AfterVisit(c, n) ==
  IF n \in c.seen THEN [c EXCEPT !.walk = Tail(@)]
  ELSE [c EXCEPT !.walk = GRAPH[n] \o Tail(@), !.seen = @ \cup {n}]

\* What a check answers; a call that fails is a no, but for a rev-list that cannot count.
Answers(n, ok) == IF ok THEN {Holds(n)}
                  ELSE IF n = "branch.pushed" /\ Here /\ track[checkout] # {} THEN BOOLEAN
                  ELSE {FALSE}

\* The head of the walk is the node to visit; all but the first are checked before.
\* The node's own check, at the end, only words the message.
Walk(s) ==
  LET c == cmd[s]  n == Head(c.walk) IN
  /\ at[s] = "walk"
  /\ IF c.walk = <<>> THEN Return(s, 0) /\ UNCHANGED faults
     ELSE IF c.seen = {} THEN GoWith(s, "walk", AfterVisit(c, n)) /\ UNCHANGED faults
     ELSE \E ok \in BOOLEAN : Quiet(ok) /\ \E yes \in Answers(n, ok) :
            IF yes THEN GoWith(s, "walk", AfterVisit([c EXCEPT !.held = @ \cup {n}], n))
                   ELSE Return(s, 2)
  /\ UNCHANGED <<repo, forge>> /\ Still

-----------------------------------------------------------------------------
(* push, on its own or as a part of finish and create. *)

\* cmd_push refuses the trunk and resolves the sha it will vouch for.
Resolve(s) ==
  LET b == cmd[s].branch IN
  /\ at[s] = "resolve"
  /\ \E ok \in BOOLEAN :
       /\ Quiet(ok)
       /\ IF b \in {Detached, Trunk} \/ ~ok THEN Return(s, 1)
          ELSE IF local[b] = {} THEN Return(s, 1)
          ELSE GoWith(s, "push", [cmd[s] EXCEPT !.expected = local[b]])
  /\ UNCHANGED <<repo, forge>> /\ Still

\* finish goes on to promote, create to look for a PR.
Pushed(s) == IF cmd[s].verb = "push" THEN Return(s, 0)
             ELSE Go(s, IF cmd[s].verb = "finish" THEN "view" ELSE "existing")

\* Mutant: the branch that happens to be checked out is pushed.
RefPushedCurrent(c) == IF Here THEN checkout ELSE c.branch

\* The branch is named in the command: a switch in between does not matter (PI-458).
RefPushed(c) == c.branch

Accepted(b, force) ==
  local[b] # {} /\ IF force THEN track[b] = remote[b] ELSE remote[b] \subseteq local[b]

\* git push: it lands and says so, lands and fails, does not land, or is rejected.
Push(s) ==
  LET b == RefPushed(cmd[s]) IN
  /\ at[s] = "push"
  /\ \E arrives, ok \in BOOLEAN :
       /\ arrives => Accepted(b, cmd[s].force)
       /\ ok => arrives
       /\ Quiet(ok \/ ~Accepted(b, cmd[s].force))
       /\ remote' = IF arrives THEN [remote EXCEPT ![b] = local[b]] ELSE remote
       /\ rollup' = IF arrives /\ remote[b] # local[b] THEN [rollup EXCEPT ![b] = {}] ELSE rollup
       /\ track'  = IF ok THEN [track EXCEPT ![b] = local[b]] ELSE track
       /\ IF ok THEN Pushed(s) ELSE Go(s, "verify")
  /\ UNCHANGED <<checkout, local, pr, review>> /\ Still

\* Mutant: any answer of ls-remote is taken for success.
RemoteHasBranch(c) == remote[c.branch] # {}

RemoteHasSha(c) == remote[c.branch] = c.expected

\* A push that failed may have landed; else it is tried again.
Verify(s) ==
  /\ at[s] = "verify"
  /\ \E ok \in BOOLEAN :
       /\ Quiet(ok)
       /\ IF ok /\ RemoteHasSha(cmd[s]) THEN Pushed(s)
          ELSE IF cmd[s].tries < MaxRetries
               THEN GoWith(s, "push", [cmd[s] EXCEPT !.tries = @ + 1])
               ELSE Return(s, 1)
  /\ UNCHANGED <<repo, forge>> /\ Still

-----------------------------------------------------------------------------
(* promote and finish. *)

\* _detect_pr_number: the PR of the branch checked out now.
Detect(s) ==
  /\ at[s] = "detect"
  /\ \E ok \in BOOLEAN :
       /\ Quiet(ok)
       /\ IF ok /\ Here /\ pr[checkout] # "none"
          THEN GoWith(s, IF cmd[s].verb = "finish" THEN "head" ELSE "view",
                      [cmd[s] EXCEPT !.branch = checkout])
          ELSE Return(s, 1)
  /\ UNCHANGED <<repo, forge>> /\ Still

\* The PR's head branch, and then whether that branch is checked out.
HeadOf(s) ==
  /\ at[s] = "head"
  /\ \E ok \in BOOLEAN : Quiet(ok) /\ IF ok THEN Go(s, "current") ELSE Return(s, 1)
  /\ UNCHANGED <<repo, forge>> /\ Still
Current(s) ==
  /\ at[s] = "current"
  /\ IF checkout = cmd[s].branch THEN Go(s, "resolve") ELSE Return(s, 1)
  /\ UNCHANGED <<repo, forge, faults>> /\ Still

\* isDraft is false: a PR closed as a draft still is one.
IsReady(b) == pr[b] \in {"ready", "merged", "closed"}

Promoted(s) == IF cmd[s].verb = "finish" THEN Go(s, "monitor") ELSE Return(s, 0)
View(s) ==
  LET b == cmd[s].branch IN
  /\ at[s] = "view"
  /\ \E ok \in BOOLEAN :
       /\ Quiet(ok)
       /\ IF ~ok \/ pr[b] = "none" THEN Return(s, 1)
          ELSE IF IsReady(b) THEN Promoted(s) ELSE Go(s, "ready")
  /\ UNCHANGED <<repo, forge>> /\ Still

\* gh pr ready: refused on a PR that was closed or merged in between.
Ready(s) ==
  LET b == cmd[s].branch IN
  /\ at[s] = "ready"
  /\ \/ /\ pr[b] \in {"draft", "ready"} /\ pr' = [pr EXCEPT ![b] = "ready"]
        /\ Promoted(s) /\ UNCHANGED faults
     \/ /\ Quiet(pr[b] \notin {"draft", "ready"}) /\ Return(s, 1) /\ UNCHANGED pr
  /\ UNCHANGED <<repo, rollup, review>> /\ Still

-----------------------------------------------------------------------------
(* monitor_pr.sh --merge: CI, the review gate, and the merge. *)

\* What a merge makes of origin; the branch goes with it, or its deletion fails.
Merged(b, goes) == [o \in Branches |->
  IF o = Trunk THEN remote[Trunk] \cup remote[b] ELSE IF o = b /\ goes THEN {} ELSE remote[o]]

\* gh pr merge of a PR that is ready, and what it and _cleanup_local_branch do in the
\* clone: delete the branch there too, and leave it for an updated trunk.
MergePr(b) == \E goes, tidy \in BOOLEAN :
  /\ pr[b] = "ready" /\ pr' = [pr EXCEPT ![b] = "merged"] /\ remote' = Merged(b, goes)
  /\ IF tidy /\ b # Trunk
     THEN LET leaves == checkout = b
              pulls  == leaves /\ local[Trunk] \subseteq remote'[Trunk] IN
          /\ checkout' = IF leaves THEN Trunk ELSE checkout
          /\ local' = [local EXCEPT ![b] = {}, ![Trunk] = IF pulls THEN remote'[Trunk] ELSE @]
          /\ track' = [track EXCEPT ![b] = {}, ![Trunk] = IF pulls THEN remote'[Trunk] ELSE @]
     ELSE UNCHANGED <<checkout, local, track>>

\* The checks of the head of this moment have registered and passed; or they have not
\* by CI_TIMEOUT, one failed, or the head is not the one pushed.
Monitor(s) ==
  LET b == cmd[s].branch IN
  /\ at[s] = "monitor"
  /\ \/ /\ CiGreen(rollup[b]) /\ \E e \in rollup[b] : ~e.review
        /\ Go(s, "review")
     \/ Return(s, 1)
  /\ UNCHANGED <<repo, forge, faults>> /\ Still

\* The review gate.  review_cycles = 0 turns it off; where no approval is asked for,
\* a review of the head or the last cycle settles it unless a thread is unresolved;
\* past the last cycle any other decision is overridden.
Review(s) ==
  LET d == review[cmd[s].branch] IN
  /\ at[s] = "review"
  /\ \E off, exhausted, settled, ok \in BOOLEAN :
       /\ Quiet(ok)
       /\ IF off \/ (ok /\ (d = "APPROVED" \/ (d = "NONE" /\ settled))) THEN Go(s, "merge")
          ELSE IF ok /\ d # "NONE" /\ exhausted THEN Go(s, "admin")
          ELSE Return(s, 2)
  /\ UNCHANGED <<repo, forge>> /\ Still

\* The merge, plain or with --admin.  A PR that is merged already is a success; a plain
\* merge that is not taken may leave auto-merge on.
Merge(s) ==
  LET b == cmd[s].branch IN
  /\ at[s] \in {"merge", "admin"}
  /\ \/ MergePr(b) /\ Return(s, 0)
     \/ /\ UNCHANGED <<repo, pr>>
        /\ \/ pr[b] # "merged" /\ Return(s, 1)
           \/ (pr[b] = "merged" \/ (at[s] = "merge" /\ pr[b] = "ready")) /\ Return(s, 0)
  /\ UNCHANGED <<rollup, review, faults>> /\ Still

-----------------------------------------------------------------------------
(* create-pr-nojira. *)

\* Switch to the branch or create it; a failed checkout goes unnoticed.
Choose(s) ==
  LET b == cmd[s].branch IN
  /\ at[s] = "choose"
  /\ \E ok \in BOOLEAN :
       /\ Quiet(ok)
       /\ checkout' = IF ok THEN b ELSE checkout
       /\ local' = IF ok /\ local[b] = {}
                   THEN [local EXCEPT ![b] = IF Here THEN local[checkout] ELSE {0}] ELSE local
  /\ Go(s, "resolve")
  /\ UNCHANGED <<track, remote, forge>> /\ Still

\* Only an open PR counts: a name may be used again after a merge.
Existing(s) ==
  /\ at[s] = "existing"
  /\ \E ok \in BOOLEAN :
       /\ Quiet(ok)
       /\ IF ok /\ pr[cmd[s].branch] \in {"draft", "ready"} THEN Return(s, 0) ELSE Go(s, "open")
  /\ UNCHANGED <<repo, forge>> /\ Still

\* gh pr create refuses a branch that is not on origin or has an open PR.
OpenPr(s) ==
  LET b == cmd[s].branch IN
  /\ at[s] = "open"
  /\ LET able == remote[b] # {} /\ pr[b] \notin {"draft", "ready"} IN
     \/ /\ able /\ pr' = [pr EXCEPT ![b] = "draft"]
        /\ \E d \in Unreviewed : review' = [review EXCEPT ![b] = d]
        /\ Return(s, 0) /\ UNCHANGED faults
     \/ Quiet(~able) /\ Return(s, 1) /\ UNCHANGED <<pr, review>>
  /\ UNCHANGED <<repo, rollup>> /\ Still

-----------------------------------------------------------------------------
(* The guard, and the raw commands it lets through. *)

\* COMMAND_RULES: what each rule matches, the node it names and the wrapper it
\* redirects to.  A raw command is the set of invocations its text holds.
Rule(invocations, node, wrapper) ==
  [matches |-> invocations, node |-> node, wrapper |-> wrapper]
COMMAND_RULES ==
  << Rule({"push trunk"}, "", ""),
     Rule({"merge"}, "pr.merged", "monitor_pr.sh"),
     Rule({"watch"}, "", "monitor_pr.sh"),
     Rule({"ready"}, "pr.opened", "promote_review.sh"),
     Rule({"open"}, "pr.opened", "start_issue.sh"),
     Rule({"issue", "upstream issue"}, "", "create_issue.sh"),
     Rule({"push trunk", "push"}, "branch.pushed", "push_branch.sh") >>

\* Mutant: an issue for another repository lets the whole text through.
AppliesUnlessUpstream(r, text) ==
  /\ r.matches \cap text # {}
  /\ "upstream issue" \notin text
  /\ r.wrapper \in Wrappers \cup {""}

\* gh issue create -R names a repository other than origin's.
IsUpstream(text) == "upstream issue" \in text

\* A rule applies unless it is about issues and the issue goes to another
\* repository, or its wrapper does not exist here.
Applies(r, text) ==
  /\ r.matches \cap text # {}
  /\ ~("issue" \in r.matches /\ IsUpstream(text))
  /\ r.wrapper \in Wrappers \cup {""}

\* The first rule that applies denies.  The hook fails open when it is killed at
\* its budget of 60 s; with 10 s a call, only a walk that passes pr.opened, or that
\* asks all there is to ask before it, is long enough.
Denied(text, slow) ==
  \E i \in DOMAIN COMMAND_RULES :
    /\ Applies(COMMAND_RULES[i], text)
    /\ \A j \in 1..(i - 1) : ~Applies(COMMAND_RULES[j], text)
    /\ COMMAND_RULES[i].node \in {"pr.opened", "pr.merged"} => ~slow

\* An agent's raw command, of up to two invocations: denied, nothing happens;
\* allowed, or let through by a hook that was killed, it runs.
Texts == {<<i>> : i \in Invocations} \cup (Invocations \X Invocations)
Raw(s) == \E text \in Texts, slow \in BOOLEAN :
  LET all == {text[i] : i \in DOMAIN text} IN
  /\ at[s] \in {"idle", "done"} /\ commands < MaxCommands
  /\ commands' = commands + 1
  /\ IF Denied(all, slow) THEN UNCHANGED <<at, cmd>>
     ELSE GoWith(s, "raw", [NoCommand EXCEPT !.verb = "raw", !.text = text,
                                             !.unheard = Denied(all, FALSE)])
  /\ Quiet(~slow)
  /\ UNCHANGED <<repo, forge, commits>>

\* What git and gh make of one invocation, when they can: the branch it is about is
\* the one checked out, or the trunk it names.
Target(i) == IF i = "push trunk" THEN Trunk ELSE checkout
Able(i) ==
  LET b == Target(i) IN
  \/ i = "upstream issue"
  \/ /\ b # Detached
     /\ \/ i \in {"push", "push trunk"} /\ Accepted(b, FALSE)
        \/ i = "merge" /\ pr[b] = "ready"
        \/ i = "ready" /\ pr[b] \in {"draft", "ready"}
RawPush(b) ==
  /\ remote' = [remote EXCEPT ![b] = local[b]] /\ track' = [track EXCEPT ![b] = local[b]]
  /\ rollup' = IF remote[b] # local[b] THEN [rollup EXCEPT ![b] = {}] ELSE rollup
  /\ UNCHANGED <<checkout, local, pr>>
Runs(i) ==
  \/ i \in {"push", "push trunk"} /\ RawPush(Target(i))
  \/ i = "merge" /\ MergePr(checkout) /\ UNCHANGED rollup
  \/ i = "ready" /\ pr' = [pr EXCEPT ![checkout] = "ready"] /\ UNCHANGED <<repo, rollup>>
  \/ i = "upstream issue" /\ UNCHANGED <<repo, pr, rollup>>

\* The next invocation; after one that fails the shell goes on (;) or stops (&&).
Invoke(s) ==
  LET c == cmd[s]  i == Head(c.text) IN
  /\ at[s] = "raw"
  /\ \E ok \in BOOLEAN, rest \in {Tail(c.text), <<>>} :
       /\ Quiet(ok \/ ~Able(i))
       /\ IF ok THEN Able(i) /\ Runs(i) /\ rest = Tail(c.text)
                ELSE UNCHANGED <<repo, pr, rollup>>
       /\ GoWith(s, IF rest = <<>> THEN "done" ELSE "raw",
                 [c EXCEPT !.text = rest, !.rc = IF ok THEN 0 ELSE 1])
  /\ UNCHANGED review /\ Still

-----------------------------------------------------------------------------
(* Everybody else. *)

People(action) == action /\ UNCHANGED <<at, cmd, faults, commands>>

\* A commit, or an amended one, on the branch checked out.
Commit == People(
  /\ Here /\ commits < MaxCommits /\ commits' = commits + 1
  /\ \E amend \in BOOLEAN :
       LET old == local[checkout]
           last == CHOOSE x \in old : \A y \in old : y <= x IN
       /\ amend => last # 0
       /\ local' = [local EXCEPT ![checkout] = (IF amend THEN old \ {last} ELSE old) \cup {commits'}]
  /\ UNCHANGED <<checkout, track, remote, forge>>)
Switch == People(
  /\ \E b \in {x \in Branches : local[x] # {}} \cup {Detached} : checkout' = b /\ b # checkout
  /\ UNCHANGED <<local, track, remote, forge, commits>>)
\* A push from another clone to a branch of origin that is not the trunk.
PushElsewhere == People(
  /\ commits < MaxCommits /\ commits' = commits + 1
  /\ \E b \in Branches \ {Trunk} :
       /\ remote[b] # {}
       /\ remote' = [remote EXCEPT ![b] = @ \cup {commits'}]
       /\ rollup' = [rollup EXCEPT ![b] = {}]
  /\ UNCHANGED <<checkout, local, track, pr, review>>)
\* CI and reviewers; somebody closes the PR, marks it ready or makes it a draft again.
Forge == People(
  /\ \E b \in Branches : pr[b] \in {"draft", "ready"} /\
       \/ \E r \in Rollups : r # rollup[b] /\ rollup' = [rollup EXCEPT ![b] = r] /\ UNCHANGED <<pr, review>>
       \/ /\ \E d \in {"APPROVED", "CHANGES_REQUESTED"} :
               d # review[b] /\ review' = [review EXCEPT ![b] = d]
          /\ UNCHANGED <<pr, rollup>>
       \/ /\ \/ pr' = [pr EXCEPT ![b] = IF @ = "draft" THEN "closed draft" ELSE "closed"]
             \/ pr' = [pr EXCEPT ![b] = IF @ = "draft" THEN "ready" ELSE "draft"]
          /\ UNCHANGED <<rollup, review>>
  /\ UNCHANGED <<repo, commits>>)
\* Somebody merges the PR, or the auto-merge a monitor left on does.
MergeElsewhere == People(
  /\ \E b \in Branches, goes \in BOOLEAN :
       pr[b] = "ready" /\ pr' = [pr EXCEPT ![b] = "merged"] /\ remote' = Merged(b, goes)
  /\ UNCHANGED <<checkout, local, track, rollup, review, commits>>)

Step(s) == \/ Walk(s) \/ Resolve(s) \/ Push(s) \/ Verify(s) \/ Detect(s) \/ HeadOf(s)
           \/ Current(s) \/ View(s) \/ Ready(s) \/ Monitor(s) \/ Review(s) \/ Merge(s)
           \/ Choose(s) \/ Existing(s) \/ OpenPr(s) \/ Invoke(s)
Use(s) == \/ "check" \in Verbs /\ Check(s)
          \/ "push" \in Verbs /\ PushVerb(s)
          \/ "promote" \in Verbs /\ PromoteVerb(s)
          \/ "finish" \in Verbs /\ FinishVerb(s)
          \/ "create" \in Verbs /\ CreateVerb(s)
          \/ "raw" \in Verbs /\ Raw(s)
Next == \/ \E s \in Sessions : Step(s) \/ Use(s)
        \/ Commit \/ Switch \/ PushElsewhere \/ Forge \/ MergeElsewhere
Spec == Init /\ [][Next]_vars

-----------------------------------------------------------------------------
(* What must hold. *)

\* "Handles transient GitHub 5xx" (cmd_push): push, alone or in finish and create,
\* goes on as pushed only when origin's branch is at the commit it resolved or at
\* the branch's tip of that moment, and it pushes no branch but the one it was
\* given, whoever commits, amends, pushes or switches branches meanwhile (PI-458).
PushIsTrue ==
  [][\A s \in Sessions : LET b == cmd[s].branch IN
       at[s] \in {"push", "verify"} /\ at'[s] # at[s] =>
         /\ \A o \in Branches \ {b} : remote'[o] = remote[o]
         /\ at'[s] \notin {"push", "verify"} /\ ~(at'[s] = "done" /\ cmd'[s].rc # 0)
              => remote'[b] \in {cmd[s].expected, local[b]}]_vars

\* "Direct pushes to main/master are blocked" (COMMAND_RULES, PI-202): where
\* push_branch.sh is installed, nothing a session runs moves origin's trunk but the
\* merge of a PR that was ready, by its own commits and no others.  What the guard
\* would have denied is the exception: the hook asks as many as seven questions of
\* 10 s, and killed at its budget it "FAILS OPEN" (_run), so `gh pr merge && git push`
\* may push.  And finish hands a PR to the monitor only after it stopped being a draft.
TrunkMovesByMerge ==
  [][/\ remote'[Trunk] # remote[Trunk] =>
          \/ \E b \in Branches : /\ pr[b] = "ready" /\ pr'[b] = "merged"
                                 /\ remote'[Trunk] = remote[Trunk] \cup remote[b]
          \/ \E s \in Sessions : at[s] = "raw" /\ cmd[s].unheard
     /\ \A s \in Sessions : at[s] # "monitor" /\ at'[s] = "monitor" => IsReady(cmd[s].branch)']_vars

\* The prerequisites of a node and theirs: the least set closed under GRAPH.
Direct(n)    == {GRAPH[n][i] : i \in DOMAIN GRAPH[n]}
Ancestors(n) == {a \in Nodes : \A S \in SUBSET Nodes :
                   Direct(n) \subseteq S /\ (\A m \in S : Direct(m) \subseteq S) => a \in S}

\* "Exit 0 if every prerequisite is satisfied": check allows a node only when each
\* of its ancestors was asked for by this command and said yes.
AllowedIsEarned ==
  \A s \in Sessions :
    at[s] = "done" /\ cmd[s].verb = "check" /\ cmd[s].rc = 0
      => Ancestors(cmd[s].node) \subseteq cmd[s].held
=============================================================================
