------------------------------- MODULE HealPass -------------------------------
(***************************************************************************)
(* Heal in fix mode.  heal.heal_project cuts a worktree, lets a paid agent *)
(* edit it, runs the failing gates again, commits, pushes and opens a      *)
(* draft PR; any step may fail.  Two kinds of caller run it: the fleet     *)
(* pass (heal.heal_fleet, from a timer or the operator), one project after *)
(* another up to a limit of paid attempts, and the dashboard's action      *)
(* threads (server.ActionTracker, run_heal), one per project.  They share  *)
(* the projects' clones, worktrees and branches, and know nothing of each  *)
(* other.                                                                  *)
(*                                                                         *)
(* A tree is the set of gates that fail in it.  A slot is one attempt: its *)
(* worktree, its branch and its PR.  Clones do not change in a behaviour:  *)
(* heal reads each of HEAD, working tree and cache once, and the initial   *)
(* worlds let the three differ as edits in between would make them.        *)
(***************************************************************************)
EXTENDS Naturals, FiniteSets, Sequences

CONSTANTS
  Projects, Tasks,  \* the fleet; HEALABLE_TASKS
  Order,            \* the fleet in the order of discovery
  Worlds,           \* the gates that fail at HEAD, in the clone and by the cache
  Declared,         \* heal.mode of each project's descriptor, "" if none
  RunMode,          \* --mode of the fleet pass
  Limit,            \* --limit: paid attempts of one pass
  Clicked,          \* the projects whose dashboard buttons are pressed
  Pass,             \* the fleet pass, as a caller of heal_project
  MaxSlots, MaxFaults  \* bounds: attempts at a time, failures of the host

ASSUME HealAssumption ==
  /\ \A w \in Worlds : {w.head, w.clone, w.cache} \subseteq [Projects -> SUBSET Tasks]
  /\ Order \in Seq(Projects) /\ Pass \notin Projects /\ Clicked \subseteq Projects
  /\ Declared \in [Projects -> {"", "fix", "notify"}] /\ RunMode \in {"fix", "notify"}
  /\ Projects # {} /\ IsFiniteSet(Projects) /\ Limit \in Nat /\ MaxSlots \in Nat /\ MaxFaults \in Nat

Callers == Clicked \cup {Pass}
Slots   == 1..MaxSlots
NoSlot  == 0

VARIABLES
  head,      \* the gates that fail at HEAD of each project's clone
  clone,     \* those that fail in its working tree, edits included
  cache,     \* those the checks cache says fail
  attempt,   \* each slot's worktree, branch and PR
  at,        \* the step each caller is at
  job,       \* the project it heals, the gates it heals, its slot and its cost
  queue,     \* the projects with failing gates it has left to consider
  targets,   \* the projects with a failing gate when the pass began
  result,    \* the pass' HealResult for each project
  deferred,  \* the projects it deferred
  launched,  \* what really happened: the agents the pass paid, metered or not
  server,    \* whether the dashboard is up
  action,    \* ActionTracker: the state of each project's action
  orphan,    \* an action whose thread could not be started
  faults

world  == <<head, clone, cache>>
pass   == <<queue, targets, result, deferred, launched>>
dash   == <<server, action, orphan>>
vars   == <<world, attempt, at, job, pass, dash, faults>>

HealSteps == {"heal", "cut", "agent", "verify", "commit", "push", "pr", "remove"}
Statuses  == {"none", "no_action", "notified", "worktree_failed", "agent_failed",
              "verify_failed", "branch_failed", "push_failed", "pr_failed", "fixed"}
PreAgentStatuses == {"no_action", "notified", "worktree_failed"}

Job     == [project : Projects, failing : SUBSET Tasks, slot : Slots \cup {NoSlot},
            metered : BOOLEAN]
Attempt == [dir : {"none", "there", "gone"}, old : BOOLEAN,
            project : Projects, tasks : SUBSET Tasks,
            fails : SUBSET Tasks, changed : BOOLEAN, branch : {"none", "local", "pushed"},
            pr : BOOLEAN]

TypeOK ==
  /\ {head, clone, cache} \subseteq [Projects -> SUBSET Tasks]
  /\ attempt \in [Slots -> Attempt]
  /\ at \in [Callers -> HealSteps \cup {"idle", "recheck", "collect", "next", "report"}]
  /\ at[Pass] \notin {"recheck", "collect"}
  /\ \A p \in Clicked : at[p] \notin {"next", "report"}
  /\ job \in [Callers -> Job]
  /\ queue \subseteq Projects /\ targets \in [Projects -> SUBSET Tasks]
  /\ result \in [Projects -> [status : Statuses, metered : BOOLEAN]]
  /\ deferred \subseteq Projects
  /\ launched \in [Projects -> {"no", "metered", "unmetered"}]
  /\ server \in BOOLEAN /\ action \in [Clicked -> {"none", "running", "done", "error"}]
  /\ orphan \in [Clicked -> BOOLEAN]
  /\ faults \in 0..MaxFaults

Unused(p) == [dir |-> "none", old |-> FALSE, project |-> p, tasks |-> {}, fails |-> {},
              changed |-> FALSE, branch |-> "none", pr |-> FALSE]
NoJob(p)  == [project |-> p, failing |-> {}, slot |-> NoSlot, metered |-> FALSE]
NoResult  == [status |-> "none", metered |-> FALSE]
Someone   == CHOOSE p \in Projects : TRUE

Init ==
  /\ \E w \in Worlds : head = w.head /\ clone = w.clone /\ cache = w.cache
  /\ attempt = [s \in Slots |-> Unused(Someone)]
  /\ at  = [c \in Callers |-> "idle"]
  /\ job = [c \in Callers |-> NoJob(Someone)]
  /\ queue = {} /\ targets = [p \in Projects |-> {}]
  /\ result   = [p \in Projects |-> NoResult]
  /\ deferred = {} /\ launched = [p \in Projects |-> "no"]
  /\ server = TRUE /\ action = [p \in Clicked |-> "none"]
  /\ orphan = [p \in Clicked |-> FALSE]
  /\ faults = 0

Fault == faults < MaxFaults /\ faults' = faults + 1
\* A call of git or of the file system: it succeeds, or fails at the cost of a fault.
Calls(ok) == IF ok THEN UNCHANGED faults ELSE Fault

\* heal_project resolves it, so that the project's word holds for every caller.
ModeOf(c, p) == IF Declared[p] # "" THEN Declared[p]
                ELSE IF c = Pass THEN RunMode ELSE "fix"

Held  == {job[c].slot : c \in Callers} \ {NoSlot}
Free  == {s \in Slots : s \notin Held /\ attempt[s].dir # "there"}
\* An attempt that is over.  What its tree holds is of interest only in a PR.
Over(a) == IF a.pr THEN a ELSE [a EXCEPT !.fails = {}, !.changed = FALSE]
Go(c, step) == at' = [at EXCEPT ![c] = step]

-----------------------------------------------------------------------------
(* heal_project, on behalf of caller c. *)

\* The result goes to the pass' list or, as the action's outcome, to the tracker.
Return(c, status, metered) ==
  /\ job' = [job EXCEPT ![c] = NoJob(Someone)]
  /\ IF c = Pass
     THEN /\ result' = [result EXCEPT ![job[c].project] =
                          [status |-> status, metered |-> metered]]
          /\ Go(c, "next") /\ UNCHANGED action
     ELSE /\ action' = [action EXCEPT ![c] = "done"]
          /\ Go(c, "idle") /\ UNCHANGED result

\* A failure after the agent: `keep` is still true, and the worktree stays.
Fails(c, status, left) ==
  /\ attempt' = [attempt EXCEPT ![job[c].slot] = Over(left)]
  /\ Return(c, status, job[c].metered)

GoOn(c, step) == Go(c, step) /\ UNCHANGED <<job, result, action>>

HealFrame == UNCHANGED <<world, queue, targets, deferred, server, orphan>>

\* Mutant: the clock of retention is not looked at.
ExpiredAtOnce(p) == {s \in Slots : attempt[s].dir = "there" /\ attempt[s].project = p}

\* The kept worktrees of a project that are older than DEFAULT_EXPIRY_DAYS.
Expired(p) == {s \in Slots : /\ attempt[s].dir = "there" /\ attempt[s].project = p
                             /\ attempt[s].old}

\* The early returns, and prune_expired; rmtree ignores what it cannot remove.
Heal(c) ==
  LET p == job[c].project IN
  /\ at[c] = "heal"
  /\ CASE job[c].failing = {} ->
            Return(c, "no_action", FALSE) /\ UNCHANGED <<attempt, faults>>
       [] job[c].failing # {} /\ ModeOf(c, p) = "notify" ->
            Return(c, "notified", FALSE) /\ UNCHANGED <<attempt, faults>>
       [] OTHER ->
            /\ \E left \in SUBSET Expired(p) :
                 /\ Calls(left = {})
                 /\ attempt' = [s \in Slots |->
                      IF s \in Expired(p) \ left THEN [attempt[s] EXCEPT !.dir = "gone"]
                                                 ELSE attempt[s]]
            /\ GoOn(c, "cut")
  /\ HealFrame /\ UNCHANGED launched

\* Mutant: one branch name for all runs of a project and its gates.
BranchNamePerTask(p, tasks, s) == <<p, tasks>>

\* The branch of attempt s: the run's slug makes it unique.
BranchName(p, tasks, s) == <<p, tasks, s>>

\* git worktree add -b refuses a branch that exists.
Taken(c, s) ==
  \E o \in Slots \ {s} :
    /\ attempt[o].branch # "none"
    /\ BranchName(attempt[o].project, attempt[o].tasks, o)
         = BranchName(job[c].project, job[c].failing, s)

\* worktree.create, from the clone's HEAD: what people have not committed is not in it.
Cut(c) ==
  LET p == job[c].project IN
  /\ at[c] = "cut"
  /\ \/ \E s \in Free :
          /\ ~Taken(c, s) /\ \A o \in Free : ~Taken(c, o) => s <= o
          /\ attempt' = [attempt EXCEPT ![s] =
               [Unused(p) EXCEPT !.dir = "there", !.tasks = job[c].failing,
                                 !.fails = head[p], !.branch = "local"]]
          /\ job' = [job EXCEPT ![c].slot = s]
          /\ Go(c, "agent") /\ UNCHANGED <<result, action, faults>>
     \/ /\ IF \A s \in Free : Taken(c, s) THEN UNCHANGED faults ELSE Fault
        /\ Return(c, "worktree_failed", FALSE) /\ UNCHANGED attempt
  /\ HealFrame /\ UNCHANGED launched

\* The agent edits what it likes and may repair, break or leave alone any gate;
\* it may exit non-zero or be killed; its output may carry no price, which only a
\* pass' report looks at.
Agent(c) ==
  LET s == job[c].slot IN
  /\ at[c] = "agent"
  /\ \E ok, changed \in BOOLEAN, fails \in SUBSET Tasks,
        metered \in IF c = Pass THEN BOOLEAN ELSE {FALSE} :
       /\ ~changed => fails = attempt[s].fails
       /\ LET edited == [attempt[s] EXCEPT !.fails = fails, !.changed = changed]
          IN  attempt' = [attempt EXCEPT ![s] = IF ok THEN edited ELSE Over(edited)]
       /\ launched' = IF c = Pass
                      THEN [launched EXCEPT ![job[c].project] =
                              IF metered THEN "metered" ELSE "unmetered"]
                      ELSE launched
       /\ IF ok
          THEN /\ job' = [job EXCEPT ![c].metered = metered]
               /\ Go(c, "verify") /\ UNCHANGED <<result, action>>
          ELSE Return(c, "agent_failed", metered)
  /\ HealFrame /\ UNCHANGED faults

\* Mutant: only a gate that says "fail" still fails.
StillFailingIfSaid(tasks, passed, failed) == failed

\* The gates that did not say "pass": one that could not run did not.
StillFailing(tasks, passed, failed) == tasks \ passed

\* The gates run again in the worktree; one may say nothing (timeout, no command).
Verify(c) ==
  LET tree == attempt[job[c].slot] IN
  /\ at[c] = "verify"
  /\ \E passed \in SUBSET (tree.tasks \ tree.fails), failed \in SUBSET (tree.tasks \cap tree.fails) :
       IF StillFailing(tree.tasks, passed, failed) = {}
       THEN GoOn(c, "commit") /\ UNCHANGED attempt
       ELSE Fails(c, "verify_failed", tree)
  /\ HealFrame /\ UNCHANGED <<launched, faults>>

\* git add and git commit: a hook may refuse, and so does git when nothing changed.
Commit(c) ==
  /\ at[c] = "commit"
  /\ \/ attempt[job[c].slot].changed /\ GoOn(c, "push") /\ UNCHANGED attempt
     \/ Fails(c, "branch_failed", attempt[job[c].slot])
  /\ HealFrame /\ UNCHANGED <<launched, faults>>

\* push_branch may report a failure after the branch has arrived.
PushBranch(c) ==
  LET s == job[c].slot IN
  /\ at[c] = "push"
  /\ \/ attempt' = [attempt EXCEPT ![s].branch = "pushed"] /\ GoOn(c, "pr")
     \/ \E b \in {"local", "pushed"} :
          Fails(c, "push_failed", [attempt[s] EXCEPT !.branch = b])
  /\ HealFrame /\ UNCHANGED <<launched, faults>>

\* gh pr create --draft, likewise.
OpenPr(c) ==
  LET s == job[c].slot IN
  /\ at[c] = "pr"
  /\ \/ attempt' = [attempt EXCEPT ![s].pr = TRUE] /\ GoOn(c, "remove")
     \/ \E opened \in BOOLEAN :
          Fails(c, "pr_failed", [attempt[s] EXCEPT !.pr = opened])
  /\ HealFrame /\ UNCHANGED <<launched, faults>>

\* The worktree of a fixed run goes, by git or else by rmtree and prune.
Remove(c) ==
  LET s == job[c].slot IN
  /\ at[c] = "remove"
  /\ \E gone \in BOOLEAN :
       /\ Calls(gone)
       /\ attempt' = IF gone THEN [attempt EXCEPT ![s].dir = "gone"] ELSE attempt
  /\ Return(c, "fixed", job[c].metered)
  /\ HealFrame /\ UNCHANGED launched

HealStep(c) == \/ Heal(c) \/ Cut(c) \/ Agent(c) \/ Verify(c) \/ Commit(c)
               \/ PushBranch(c) \/ OpenPr(c) \/ Remove(c)

-----------------------------------------------------------------------------
(* The fleet pass. *)

\* paid_attempts: every project routed to a fix, whatever became of it.
PaidAttempts == Cardinality({p \in Projects : result[p].status \notin {"none", "notified"}})

\* Bound: a heal begins only when a slot is left for every attempt under way.
Room(n) == n + Cardinality({p \in Clicked : at[p] \in {"collect", "heal", "cut"}})
             + (IF at[Pass] = "idle" THEN 0 ELSE Limit - PaidAttempts) <= Cardinality(Free)

\* What a pass knows lives and dies with its process.
ResetPass(considered, failing) ==
  /\ queue' = considered /\ targets' = failing
  /\ result'   = [p \in Projects |-> NoResult]
  /\ deferred' = {} /\ launched' = [p \in Projects |-> "no"]

\* _heal_targets: the gates run now and are saved, or (--cached) the last results.
BeginPass ==
  /\ at[Pass] = "idle" /\ Room(Limit)
  /\ \E cached, saved \in BOOLEAN :
       LET seen == IF cached THEN cache ELSE clone IN
       /\ Calls(saved) /\ cache' = IF saved THEN seen ELSE cache
       /\ ResetPass({p \in Projects : seen[p] # {}}, seen)
  /\ Go(Pass, "next")
  /\ UNCHANGED <<head, clone, attempt, job, dash>>

\* Mutant: the limit is looked at after the attempt is made.
CapReachedLate(paid) == paid > Limit

CapReached(paid) == paid >= Limit

\* Is p discovered before q?
Before(p, q) == \E m, n \in DOMAIN Order : m < n /\ Order[m] = p /\ Order[n] = q

\* heal_fleet: a project that is only notified is free; one beyond the limit is named.
Consider == \E p \in queue :
  /\ at[Pass] = "next" /\ \A q \in queue : ~Before(q, p)
  /\ queue' = queue \ {p}
  /\ IF ModeOf(Pass, p) = "fix" /\ CapReached(PaidAttempts)
     THEN deferred' = deferred \cup {p} /\ UNCHANGED <<at, job>>
     ELSE /\ job' = [job EXCEPT ![Pass] = [NoJob(p) EXCEPT !.failing = targets[p]]]
          /\ Go(Pass, "heal") /\ UNCHANGED deferred
  /\ UNCHANGED <<world, attempt, targets, result, launched, dash, faults>>

Report ==
  /\ at[Pass] = "next" /\ queue = {}
  /\ Go(Pass, "report")
  /\ UNCHANGED <<world, attempt, job, pass, dash, faults>>

EndPass ==
  /\ at[Pass] = "report"
  /\ Go(Pass, "idle") /\ ResetPass({}, [p \in Projects |-> {}])
  /\ UNCHANGED <<world, attempt, job, dash, faults>>

\* The process of the pass is killed; its worktree stays where it is.
PassKilled ==
  /\ at[Pass] # "idle" /\ Fault
  /\ Go(Pass, "idle") /\ job' = [job EXCEPT ![Pass] = NoJob(Someone)] /\ ResetPass({}, [p \in Projects |-> {}])
  /\ UNCHANGED <<world, attempt, dash>>

-----------------------------------------------------------------------------
(* The dashboard. *)

\* A POST that passed do_POST's checks: refused while an action runs (409), else
\* begin marks it running before the thread is started, which may fail (500).
Post(p, step) ==
  /\ server /\ action[p] # "running"
  /\ step = "collect" => Room(1)
  /\ action' = [action EXCEPT ![p] = "running"]
  /\ \E started \in BOOLEAN :
       /\ Calls(started)
       /\ orphan' = [orphan EXCEPT ![p] = ~started]
       /\ IF started THEN Go(p, step) ELSE UNCHANGED at
  /\ UNCHANGED <<world, attempt, job, pass, server>>

Settle(p, outcome) ==
  /\ action' = [action EXCEPT ![p] = outcome]
  /\ Go(p, "idle") /\ job' = [job EXCEPT ![p] = NoJob(Someone)]

\* run_recheck and the first half of run_heal: run the gates, save what they say.
CollectGates(p) ==
  /\ at[p] \in {"recheck", "collect"}
  /\ \E saved \in BOOLEAN :
       Calls(saved) /\ cache' = IF saved THEN [cache EXCEPT ![p] = clone[p]] ELSE cache
  /\ IF at[p] = "recheck" \/ clone[p] = {}
     THEN Settle(p, "done")
     ELSE /\ job' = [job EXCEPT ![p] = [NoJob(p) EXCEPT !.failing = clone[p]]]
          /\ Go(p, "heal") /\ UNCHANGED action
  /\ UNCHANGED <<head, clone, attempt, pass, server, orphan>>

\* Mutant: a worker that raises ends without a word.
RaisesUnsettled(p) ==
  /\ at[p] # "idle" /\ Fault
  /\ Go(p, "idle") /\ job' = [job EXCEPT ![p] = NoJob(Someone)] /\ UNCHANGED action
  /\ UNCHANGED <<world, attempt, pass, server, orphan>>

\* The work raises after all: _worker settles the action as an error.
Raises(p) ==
  /\ at[p] # "idle" /\ Fault
  /\ Settle(p, "error")
  /\ UNCHANGED <<world, attempt, pass, server, orphan>>

\* Action threads are daemons: they die with the server, and so does the tracker.
ServerStops ==
  /\ server /\ Fault /\ server' = FALSE
  /\ at'  = [c \in Callers |-> IF c = Pass THEN at[c] ELSE "idle"]
  /\ job' = [c \in Callers |-> IF c = Pass THEN job[c] ELSE NoJob(Someone)]
  /\ action' = [p \in Clicked |-> "none"] /\ orphan' = [p \in Clicked |-> FALSE]
  /\ UNCHANGED <<world, attempt, pass>>

ServerStarts ==
  /\ ~server /\ server' = TRUE
  /\ UNCHANGED <<world, attempt, at, job, pass, action, orphan, faults>>

-----------------------------------------------------------------------------
(* Time. *)

\* A worktree nobody works in any more reaches DEFAULT_EXPIRY_DAYS.
Age(s) ==
  /\ s \notin Held /\ attempt[s].dir = "there" /\ ~attempt[s].old
  /\ attempt' = [attempt EXCEPT ![s].old = TRUE]
  /\ UNCHANGED <<world, at, job, pass, dash, faults>>

PassStep == BeginPass \/ Consider \/ Report \/ EndPass
Next ==
  \/ \E c \in Callers : HealStep(c)
  \/ PassStep \/ PassKilled
  \/ \E p \in Clicked : \/ Post(p, "recheck") \/ Post(p, "collect")
                        \/ CollectGates(p) \/ Raises(p)
  \/ ServerStops \/ ServerStarts
  \/ \E s \in Slots : Age(s)

Spec == Init /\ [][Next]_vars

\* A thread that was started goes on: gates, agents and git all have timeouts.
FairSpec == Spec /\ \A p \in Clicked : WF_vars(HealStep(p) \/ CollectGates(p))

-----------------------------------------------------------------------------
(* What must hold. *)

\* "A failed one is the only record of what the agent actually did" (heal_project):
\* whatever fails, is killed or runs at the same time, the worktree of an attempt
\* goes only when its work is in a draft PR or its retention has expired.
WorkIsKept == \A s \in Slots : attempt[s].dir = "gone" => attempt[s].pr \/ attempt[s].old

\* "On a re-verified fix, opens a draft PR" (_cmd_heal): a PR heal opened, also one
\* whose opening was reported as failed, changes something, and the gates it names
\* pass in it.  A gate that could not say so does not count as passing.
LandedIsVerified ==
  \A s \in Slots : attempt[s].pr =>
    /\ attempt[s].changed /\ attempt[s].branch = "pushed"
    /\ attempt[s].fails \cap attempt[s].tasks = {}

\* The pass' spend, as FleetHealReport.spend totals it.
Metered   == {p \in Projects : result[p].metered}
Unmetered == {p \in Projects : /\ result[p].status \notin PreAgentStatuses \cup {"none"}
                               /\ ~result[p].metered}

\* "Always visible in the report" (heal_fleet): when a pass reports, each project
\* that was failing is named once, as attempted or as deferred; no more agents ran
\* than the limit allows; and the agents that ran are those the spend counts, each
\* as metered or not as it was.
ReportIsHonest ==
  at[Pass] = "report" =>
    LET tried == {p \in Projects : result[p].status # "none"} IN
    /\ tried \cap deferred = {}
    /\ tried \cup deferred = {p \in Projects : targets[p] # {}}
    /\ Cardinality({p \in Projects : launched[p] # "no"}) <= Limit
    /\ Metered   = {p \in Projects : launched[p] = "metered"}
    /\ Unmetered = {p \in Projects : launched[p] = "unmetered"}

\* "Retention must not cost you the ability to try again" (worktree.create): an
\* attempt goes without a worktree only if git or the file system failed, however
\* many worktrees and branches earlier or concurrent attempts have left.
RetryIsNeverRefused ==
  [][\A c \in Callers : at[c] = "cut" /\ at'[c] \notin {"cut", "agent"}
       => faults' = faults + 1]_vars

\* "A background action must not vanish silently" (_worker): an action whose thread
\* was started is settled, or the dashboard stops; only one whose thread could not
\* be started stays running.
ActionsSettle ==
  \A p \in Clicked : action[p] = "running" ~> action[p] # "running" \/ orphan[p]
=============================================================================
