# projects-orchestrator, in TLA+

projects-orchestrator watches and operates a fleet of git projects from one host:
it discovers them, runs their gates (lint, test, ...), starts and stops their
processes, launches coding agents on them, runs campaigns of such agents, heals
failing gates, and shows it all in a dashboard.  There is no daemon that owns the
state.  Every verb is a short-lived process (`python -m projects_orchestrator
<verb>`), systemd timers start some of them, the dashboard starts others in
threads, and they meet only in small JSON files, in git, and on the forge.  What
can go wrong is therefore mostly what happens when two of those processes meet
half way, or when one of them dies there; and next to that, what a verb says when it
could only see a part of the fleet.

File names below are relative to `src/projects_orchestrator/`.

1. [Inventory](#1-inventory) - the components and what makes them correct
2. [Modules](#2-modules) - what is modelled, and how it corresponds to the code
3. [Runs](#3-runs) - what TLC checks, with which bounds and which fairness
4. [Disagreements](#4-disagreements-between-code-and-text) - promises the code does not keep
5. [Proofs](#5-proofs) - what is proved for every value of the constants, and how
6. [Not modelled](#6-not-modelled-not-claimed) - and what is deliberately not claimed
7. [Plan](#7-plan)

## 1. Inventory

### Components with state of their own

| component | state it keeps | operations | meets |
|---|---|---|---|
| agent runs (`runs.py`, `work.py`) | one JSON record per run: state, pid with start ticks, cost, PR; a worktree per run | launch, the detached wrapper, `--list`, `--stop`, `--clear` | the wrapper, the launcher and operators write the same record |
| campaigns (`campaign.py`, `__main__._cmd_campaign`) | nothing on disk: progress is derived from the run records; in memory the supervised runs and their deadlines | plan (canary or `--apply`), fill, poll, reap (timeout, kill), report | launches and stops agent runs; other invocations, operators who clear |
| supervisor (`supervisor.py`) | per project a state file (what runs) and a tombstone (what died) | `start`, `stop`, status render, liveness check of `watch` | all of them share the two files, unlocked |
| locked files (`persist.py`) | sidecar lock, the file, its temporary successor | `locked`, `atomic_write`, `locked_write` | every JSON store |
| checks cache (`cache.py`) | one versioned JSON file of gate results | `save_results`, `drop_result`, `load_results` | `checks`, `watch`, `heal`, dashboard; other builds of the program |
| check history (`history.py`) | a bounded log of outcomes | `record`, trends | overlapping passes |
| gate runs (`checks.py`, `status.py`, `__main__._project_checks`) | the HEAD a result is stamped with | run gates, reuse unchanged results, re-probe the identity | the cache; people who edit the worktree while gates run |
| heal, fix mode (`heal.py`, `worktree.py`) | a worktree, a branch and a draft PR per attempt | cut, agent, verify, commit, push, open the PR, remove; prune expired worktrees | the limit on paid attempts, the dashboard's heal, the nightly one |
| heal, notify mode (`heal_issues.py`, `landing.py`) | issues on the forge, one per failing gate | list own issues, file, view, close | another heal pass, people on the forge and in the clone |
| dashboard (`server.py`) | `ActionTracker`: one action per project | begin, settle, recheck, heal | threads, the checks cache, the fleet pass |
| command runner (`runner.py`, `procs.py`) | process groups | run with a deadline, kill the group, bounded drain, terminate with grace | every external command; children that escape or outlive |
| deploys (`adapters/cloud.py`) | the newest run id seen before the dispatch | dispatch, wait for the verdict | the forge's own runs, other dispatches |
| digest (`digest.py`, `__main__._emit_digest`) | the findings of the last digest | compare, save, post | a second audit at the same time; a webhook |
| watchdog (`watchdog.py`) | the stamp of the last watch pass | record, judge | a timer that stops, a clock that is set |
| registry (`registry.py`) | the fleet file; the scan of one `discover` | register, discover | clones, worktrees, broken descriptors |
| workflow tooling (`.agents/hooks/dag_workflow.py`) | none: git and the forge | check, push, promote, finish, create; the guard of raw commands | people who commit, amend, switch and push |
| install tooling (`.agents/scripts/install_tool.py`) | the machine's installed tool | dry run, `--apply`, `--check` | people who edit, hide, switch and pull |

### Components that only judge

They keep nothing, and are right when what they say is true, above all when part of it
could not be read: the descriptor and its readers (doctor, hardening, memory), the
fleet table with drift, hooks, versions and the `--where` filter, the forge and cloud
probes, the checks of origins (contract freshness, seams, pinned versions), `test-fleet`
and `upgrade-plan`, the cloud inventory (`orphans`), the prices of runs (`cost.py`).

`PROJECT.json` lists every component with what was done about it.

### How they interact

    timers ──> watch ──> supervisor files        operator ──> work / campaign ──┐
      │          └─────> gate runs ──> checks cache <── dashboard threads       │
      └──────> heal ───────┘   │            (persist.locked)                    │
                 └──> issue sink ──> forge <── landing <── wrapper <── run records
                                                               (one per launch)

- **by files**: the checks cache is updated under a lock; the run records and the
  supervisor's files are replaced atomically but read and written in *separate*
  steps without one;
- **by processes**: the launcher spawns a wrapper in a session of its own and only
  then learns its pid; stop and reap kill it by that pid;
- **by git and the forge**: gates describe a worktree people edit; an issue or a PR
  outlives the process that created it, whether or not that process noted it.

### What is hard about it, and what would make it right

- *Agent runs.*  Three kinds of process update a record by read, decide, write.
  A crash or a failed save can fall between any two steps.  Right means: nothing
  ever reads as a success that is not one, the work of a run is never lost, a settled
  record stays settled, and nothing is reported running for ever.
- *Campaigns.*  Supervision by polling: what a poll saw may be over, cleared or
  landed when the loop acts.  Right means: one outcome for each launched run, the
  concurrency cap, no second run on a project that has one, an end to every batch.
- *Supervisor.*  Unlocked, two files, a probe whose answer is stale at once, unlinks that
  fail without a word, and commands cut short.  Right means: no live service is alerted as
  dead, a dead one is alerted, and once.
- *Files and cache.*  Right means: no lost update, never half a file, nothing that was
  saved lost to a power failure, no older build damaging a newer one's file.
- *Gate runs.*  A result is reused if the commit is the same; the worktree may change
  between the two git commands that establish "the commit".  Right means: a reusable
  pass is one a fresh run would give.
- *Issue sink.*  Lists, decides and writes in separate calls to a service.  Right
  means: one issue per finding, none filed or closed against the published code, and
  each finding reported in the end.
- *Heal.*  A paid agent's work exists once, in a worktree, while five later steps can
  fail and other callers prune the same clone.  Right means: that work is never deleted
  unlanded, what lands was verified, nobody is left out of the report, a retry is never
  refused, and a background action never hangs.
- *Commands, deploys, digest.*  Answers come late, twice or not at all.  Right means: what
  is returned is true of the processes, the run or the finding, and every wait ends.
- *Workflow and install.*  A verb asks git one question after another while people work in
  the same clone.  Right means: it never vouches for what it did not do.
- *Judgements.*  Right means: unknown, absent and unreadable never pass for known, healthy,
  done or zero; and nothing is left out without a word.

The `hazards` of `PROJECT.json` are the list at the level of source lines, each with
the property that covers it, and a note on what that property does not claim.

## 2. Modules

Every module's state is the code's state plus, for each process, where it is (its
program counter) and what it has read and not yet used.  Wherever the code reads
shared state and uses it after another system call, the read and the use are two
actions; wherever a lock or an atomic replacement makes them one, they are one.

### AgentRuns - `runs.py`, `work.py` and the landing steps

| model | code |
|---|---|
| `disk[r]` | the record file; `NoRecord` when missing or unreadable |
| `lpc`, `wpc`, `opc` | the launcher (`work.launch`), the wrapper (`work.run_agent`), an operator's `stop` or `clear` |
| `lbase`, `wbase`, `obase` | what `mark_running`, `record_cost` or `finish` read, kept until they write |
| `whand`, `ohand` | the `AgentRun` object the process carries, possibly out of date |
| `tree`, `prOpen` | the run's worktree; its draft PR |
| `reaped` | an exited child its parent has not waited for still has a pid (`procs.pid_alive`) |
| `Resolve` | `runs.load`: a *running* record whose process is gone reads as failed |
| `MarkRead/MarkWrite`, `PriceRead/PriceWrite`, `FinishRead/FinishWrite` | the three updates, each re-reading the record first |
| `Commit`, `Push`, `OpenDraftPr`, `Cleanup` | `_default_land`: `commit_all`, `push_branch`, `open_draft_pr`, and only then `wt.remove_path` |
| `StopLoad`, `StopKill`, `StopFinish…`, `ClearLoad`, `Forget` | `work.stop`, `work.clear` |
| `LauncherDies`, `WrapperCrash`, a failing `Save` | interruption, kill -9 or power loss, a full disk |
| `OpenUnheard` | `gh pr create` fails or times out after the PR opened (`landing.open_draft_pr`): the run goes on as if it had none |

Cost is one bit (priced or not); the state, pid and PR fields are kept because the
properties compare them.

### Campaign - `campaign.py`, `_cmd_campaign`

`store[<<i, p>>]` is what `runs.load` says of the run invocation `i` launched on
project `p`; the run itself is the environment (`RunEnds`), with AgentRuns showing how it
comes about.  An operator's clear is two steps, as in `work.clear`: `OperatorAsks` reads a
terminal record, `OperatorClears` unlinks whatever the file holds by then.  `phase`, `pending`, `active`, `age`, `toReap`,
`victim`, `due` and `outcomes` are the local state of `execute`, `_fill` and `_reap` (with
the `work.stop` it calls):
`Plan` derives the outstanding projects (canary, already handled, `--apply`), `Launch`
fills up to `max_concurrent`, `BeginReap` ends a sleep, a reap visits each supervised run,
retires those that settled and kills those whose deadline had passed when the clock
was read.  What is pending and what a reap has yet to visit are sets, taken in the order
of `Rank`, the place of each project in the fleet's snapshot.  Time is the age of a run up
to `Timeout`.

### Supervisor - `supervisor.py`

An *incarnation* is one launched process; the record's pid and start ticks name it.
`record` and `tomb` are the two files, `proc` the processes.  A command begins with
`running_state` (load and probe, one step `Begin`, for an incarnation that is gone stays gone;
and, if dead, retire: write the tombstone, unlink the record) and goes on as its verb says:
`start` spawns, writes the record and, if that fails, kills what it spawned; `stop` kills
and clears; the liveness check also consumes a tombstone someone else wrote; `status` only
renders.  Each file operation is a step.  Every write may fail, and every unlink may fail
without a word (`Unlinks`: of a dead record, of a stopped one, of a tombstone); every command
may be cut short before any of its steps (`Interrupted`), so also between the spawn and the
save of `start`, between the kill and the clear of `stop`, and between consuming a tombstone
and reporting it.  `mishaps` says which of these happened.

### AtomicFile, LockedFile, CheckCache - `persist.py`, `cache.py`

`AtomicFile` is what callers are promised: updates applied one at a time to what the
previous one left, and a power loss that can only undo what was not yet durable.
`LockedFile` is the protocol: open and flock the sidecar (or run unlocked when that
fails), read (an unreadable file is empty), decide, write and fsync a temporary file,
replace, fsync the directory, release; a process may be killed at every step and the
machine may lose power.  It is parameterised by the contents and the updates (`Apply`,
`Declines`).  `CheckCache` gives it those of the cache, `save_results`, `drop_result` and
files of older and newer builds (`CacheContents`, `Updated`, `LeavesAlone`); `IsCheckCache`
says that the constants are these, and `CheckCacheMC` assumes it.

### CheckPass - gate runs, reuse and identity

Passes that share one gate's cache entry: `checks`, `watch` and `heal` with or without
`--changed-only`, and the dashboard's recheck, which has no identity.
`clean_worktree_head` is *two* commands (`rev-parse`, `status`) and so is the
verification after the gates; people edit, commit and switch branches between any two
steps.  A commit is the tree it records; the gate's verdict is a function of the tree.
`steady` and `moves` are history: how often the worktree changed while a result was
made.

### HealIssues - the sink of notify mode

Per pass: gate results stamped with the clean HEAD, the probe of origin's tip
(`published_default_head`), the list of our own open issues, then per gate file or
close; a close is a view and then an edit.  `_heal_targets` and `_deliver_project` are
modelled with their early returns, among them a gate no marker can name (`unsafe`) and a
listing that came back as full as its page (`PageFull`), which files nothing.  People push,
check out, dirty the tree, close issues and edit the marker away; every call may fail, also
after it took effect; a pass may be killed at any step.  `stale` records that what a pass last
read on the forge has changed since.

### HealPass - `heal.py` fix mode, `worktree.py`, `server.py`

A *slot* is one attempt: its worktree, branch, commit and PR (`attempt[s]`); a tree is the
set of gates that fail in it.  The callers are the fleet pass and one action thread per
project of the dashboard; `at[c]` and `job[c]` are where each is and what it holds.

| model | code |
|---|---|
| `BeginPass`, `Consider`, `Report`, `EndPass`, `PassKilled` | `heal_fleet`: the failing projects, the limit of paid attempts, what it defers, the report |
| `Heal`, `Cut`, `Agent`, `Verify`, `Commit`, `PushBranch`, `OpenPr`, `Remove` | `heal_project` and the `worktree` calls in it, each a step that may fail |
| `Expired`, `ExpiredAtOnce`, `Age` | `prune_expired`, which every `create` runs over the worktrees of all callers |
| `Post`, `Settle`, `CollectGates`, `Raises`, `ServerStops`, `ServerStarts` | `ActionTracker.begin`/`settle`, `_worker`, `recheck`; `orphan[p]` is an action whose thread could not be started |

Clones do not change in a behaviour; the initial worlds let HEAD, the worktree and the
cached results disagree, as edits before the pass would have made them.

### Lifecycle - `.agents/hooks/dag_workflow.py`, `.agents/scripts/monitor_pr.sh`

The verbs `check` (a walk over `GRAPH`), `push`, `promote`, `finish`, `create`, and a raw
text of one or two git and gh invocations with the guard that may deny it.  A branch is its
set of commits.  Each question to git or gh (`Resolve`, `Push`, `Verify`, `View`, `Ready`, ...)
is a step; people commit and amend (`Commit`), switch (`Switch`), push from elsewhere
(`PushElsewhere`), merge (`MergeElsewhere`) and change PRs and CI on the forge (`Forge`)
between any two.

- *The guard* is the list `COMMAND_RULES`, of which the first that applies decides for the
  whole text, and a hook that fails open when it is killed at its budget of 60 s (`slow`):
  a walk that gets past `pr.opened` may take as long, so `gh pr merge && git push` may be run
  unheard (`unheard`).  `Invoke` then runs the text, one invocation after the other.
- *The monitor*, which `finish` ends in, is three steps.  `Monitor` waits for the checks of a
  head (the head gate, pending and failed checks); `Review` is the review gate, with no
  approval policy (`NONE`), a required review that comes, does not come (`exhausted`, then
  `--admin`) or was asked not to be waited for; `Merge` merges whatever head the PR has by
  then, plainly, with `--admin`, or leaves auto-merge on for `MergeElsewhere`.

### Deploys, Commands, Digest, Install - the operations

Each is an operation with an environment of its own; `Operations` composes them as
scenes of one model: `Init` picks the scene, the state of the others stands still.

| module | steps of the code | the environment |
|---|---|---|
| `Deploys` (`cloud.py`, `_cmd_deploy`) | `Begin` (refusals, plan), `Mark` (newest run id), `Dispatch`, `Poll`, `Exit`, `Deadline` | `CiStarts`, `Lists` (a run appears late), `Completes` |
| `Commands` (`runner.py`, `procs.py`) | `Popen`, `Communicate`, `TimeoutExpired` (kill the tree), `Drain`; `CheckOurs` (start ticks compared, never recorded, or `/proc` unreadable), `Sigterm`, `Grace` (and the escalation) | `Fork`, `Setsid`, `ClosePipe`, `Exits`, `Recycle` (the pid is given away), `Expire` |
| `Digest` (`digest.py`, `_emit_digest`) | `Begin`, `Collect`, `ComputeDigest`, `SaveCurrent`, `Emit` | `Again`, `Killed`, `Shift` |
| `Install` (`install_tool.py`) | `Begin`, `Place`, `Status`, `Fetch`, `Sync`, `Decide`, `UvInstall`, `ReadHead`, `LookAtFiles`, `LookAtReceipt`, `LookAtMetadata`, `LookAtModes`, `Refused` | `Edit`, `Hide`, `Ignore`, `MergeUpstream`, `Checkout`, `Tamper` |

### The judgements

`Judgements` composes ten modules as scenes, in the same way; a configuration's `Questions`
says which of them it asks.  `Heartbeat` and `Watch` have processes that interleave; the others
are a world chosen in `Init`, the reading of it in the code's order, and a verdict, with
what can be absent, unreadable, of the wrong type or out of bounds among the worlds.  Where a
call to git may fail, the failure is one more value of the world, read as the code reads it:
in `Origins` a `git show` that fails is a file that is gone (`Vendor`, `ContractCopy`), an
`ls-files` that fails a tree that tracks nothing (`Tracked`).

| module | code | what is judged |
|---|---|---|
| `Discovery` | `registry.py` | the scan: clones, linked worktrees, refused and broken descriptors, nested checkouts, places the hint search does not walk |
| `Probes` | `adapters/`, `_cmd_ci`, `_cmd_cloud_status` | CI, open PRs and services as each platform words them |
| `Heartbeat` | `watchdog.py` | timer, passes, the record, a clock that is set |
| `Watch` | `_cmd_watch`, `_cmd_checks`, `_cmd_ci`, `cache.py`, `history.py` | overlapping passes over cache and history, alerts read back from the cache; drops, saves, reads and locks that fail without a word |
| `FleetView` | `fleet.py`, `drift.py`, `selector.py`, `notify.py`, `upgrade.py` | cells, the `--where` filter, alerts, the upgrade plan |
| `Origins` | `freshness.py`, `seams.py`, `versions.py` | copies against where they came from, and their exit codes |
| `Descriptor` | `descriptor.py`, `doctor.py`, `hardening.py`, `memory.py` | each declared value, of the right type or not, and its readers |
| `FleetTests` | `testfleet.py` | one row per repository, and the exit code |
| `Estate` | `orphans.py`, `adapters/gcp.py`, `gcloud_identity.py` | live resources no project governs |
| `Meter` | `cost.py`, `_log_total` in `work.py` | a price in a log that is read from its tail |

### How they are put together

- `LockedFile` contains `Promise == INSTANCE AtomicFile WITH ...`: `NoLostUpdate` says that
  each step of the protocol is one of the promise, and `Implementation` proves the
  refinement.  `CheckCache` is `LockedFile` with the cache's contents and updates.
- `Operations` and `Judgements` compose modules that share no state.  The other
  interactions are composed where they happen: the gates, the fleet pass, the worktrees
  and the dashboard in `HealPass`, launcher, wrapper and operator in `AgentRuns`, passes,
  cache and history in `Watch`.
- The `*MC` modules name the small sets and the symmetries the configurations use.
- The `*Proofs` modules hold the theorems: `AgentRunsProofs`, `HealIssuesProofs`,
  `HealPassProofs` and `LifecycleProofs` those of the module they are named after,
  `OperationsProofs` those of the four operations, `ChecksProofs` those of `LockedFile`,
  `CheckCache` and `CheckPass`, `UnattendedProofs` those of `Supervisor`, `Campaign`, `Watch`
  and `Heartbeat`, `JudgementsProofs` those of the other eight judgements.
- In the main modules, a definition whose comment begins with "Mutant:" is a deliberately
  wrong version of the one that follows it: the `mutants` in `PROJECT.json` name, for each
  property, a change of the code that breaks it, so that no property is there that
  nothing could violate.

## 3. Runs

All runs fit in a few minutes with two workers.

| run | instance | states | what it shows |
|---|---|---|---|
| `runs_race` | 1 run, 1 operator, 1 fault, launcher may die | 87 k | `NoFalseSuccess`: a record never claims a PR the forge does not have.  `EvidenceKept`: work is in the worktree or in a PR.  `OnlyStaleUpdatesRegress`: a settled state or a price is lost only to a write whose own re-read was overtaken.  `EventuallySettled`: no run is reported running for ever. |
| `runs_buried_pr` | no faults | - | counterexample: a run recorded as abandoned whose PR is open, and whose wrapper nobody killed |
| `campaign_policy` | 3 projects, canary then batch, 2 at a time, timeout 1 tick, 1 clear | 830 k | `BatchIsAccounted`: one settled outcome for each launched run, the cap, no PR missed, also when it opens between poll and kill.  `OneHandledRun`.  `EveryBatchEnds` |
| `campaign_overlap` | 2 invocations alive at once | - | counterexample: two handled runs on one project |
| `supervisor_commands` | 2 processes that do everything, 2 launches, 1 failed write or unlink or interrupted command | 628 k | `DeathsAreReal` under every interleaving and failure.  `OneAtATimeIsExact`: while commands do not overlap, what runs is what the file names unless a start was cut short, a death is reported once unless a file that names it could not be unlinked, a stop never as one unless it was cut short or its file not unlinked.  `DeathSurfaces`: whoever notices a death first, a watch pass reports it, unless the tombstone could not be written or the pass was cut short holding it |
| `cache_store` | 2 writers, 2 keys, 1 result, 1 fault | 146 k | `NoLostUpdate`: each step is one of `AtomicFile` while locks and reads succeed.  `PowerLossIsSafe`: never half a file, and a returned save stays.  `NewerCacheKept`, `EveryCallEnds` |
| `gate_identity` | 2 passes, 3 trees (one good) | 1.5 M | `StampedPassIsTrue`: a reusable pass made in a worktree that changed at most once is true of its commit.  `ReportIsCurrent`: what a pass reports of an untouched worktree is what the gate says, reused or not |
| `heal_issues` | 2 passes, 2 gates, 2 commits, 6 issues, a page of 4, 1 fault, 2 acts of people | 464 k | `OneIssuePerFinding` while passes do not overlap.  `WritesAreTrue`: nothing is filed or closed that the published branch contradicts.  `IssuesFollowGates`: what stays red and can be named is reported and what stays green closed, duplicates included |
| `heal_pass` | 3 projects (one notify), limit 1, 1 dashboard action, 2 attempts at a time, 1 fault | 959 k | `WorkIsKept`, `LandedIsVerified`, `ReportIsHonest` (who was tried, deferred, metered), `RetryIsNeverRefused`, `ActionsSettle` |
| `lifecycle_verbs` | 1 session, trunk and a branch, every verb and every raw text of up to two invocations, 2 commits, 1 failed call or hook killed at its budget | 2.1 M | `PushIsTrue`: push vouches only for what is on origin.  `TrunkMovesByMerge`: unless the guard was killed before it could deny, only a PR's merge moves the trunk.  `AllowedIsEarned`: check allows what every ancestor allowed |
| `operations` | each scene below | 1.2 M | `DeployVerdictIsTrue`, `ResultsAreTrue` (commands), `DigestsAreTrue`, `ExitsAreTrue` (install), `WaitsEnd` |
| `judgements` | each scene below | 2.5 M | `FleetIsTrue` (discovery, orphans), `ProbesAreTrue`, `SilenceIsTold`, `WatchIsTrue`, `ViewIsTrue` (tables, prices), `OriginsAreTrue`, `ReadingsAreTrue` (descriptor), `RedIsNeverGreen` (test-fleet) |

A property of several parts is one conjunction of named definitions.  Each property has at
least one mutant, the ones that cover several modules or questions have several.

### Bounds, and why they are enough

- *AgentRuns.*  Records of different runs share nothing, so one run shows what a run can
  do; the launcher, its wrapper and an operator who may issue any number of stops and
  clears are three writers of one record.  One fault is a crash, a failed save or an
  answer of `gh pr create` that is lost, anywhere; the theorems of section 5 cover any number of runs, operators and faults.
- *Campaign.*  Three projects and a cap of two are the least for which a slot is freed
  and refilled while another run is still supervised.  A timeout of one tick lets a
  deadline pass at every point of a reap.  One clear, of two steps, is enough to take a
  record away under each of the loop's reads, and runs end at any moment, PR opened or handed off.
- *Supervisor.*  Two launches give every command an older and a newer incarnation to
  confuse; one mishap is placed at each write, each unlink and before each step of each
  command (`MaxFaults`), so that every exception in the properties is met by itself.
- *CheckCache.*  Two writers and two keys tell a merge from a replacement; one fault is a
  failed lock, read, write or sync, a killed process or a power loss, at each step.
- *CheckPass.*  `steady` distinguishes none, one and two changes; one good and two bad
  trees distinguish a fix, a regression and another failure.  A gate depends on nothing
  but its own entry, so one gate suffices.
- *HealIssues.*  Both commits are red for `test`, one also for `lint`: a gate that stays
  red across a push, and one that recovers or breaks.  Two acts of people and one fault
  give every combination of two disturbances around one step.  Six issues are more than
  any behaviour of this instance files: the liveness properties would fail otherwise,
  for a pass whose filing is blocked by the bound would never go on.  A page of four is
  filled by duplicates and still leaves room for a listing that is short of it; at most one
  gate cannot be named.
- *HealPass.*  A limit of one defers the second failing project, and the notify project
  between the two does not count; two attempts at a time (`MaxSlots`) let the fleet
  pass and the dashboard, or an earlier and a later one, hold a worktree of the same
  clone; one fault is a failing call, a killed pass or a stopped server at each step.
- *Lifecycle.*  A verb works on one branch; one other branch is the trunk it must not
  move.  Two commits let the branch grow or be amended once before and once after a
  question was asked.  One retry separates the first push from a repeated one.  A text of
  two invocations is the least of which the guard looks at one and git runs another.
- *Operations.*  Deploys: four runs are ours, an earlier one, and two of other people's
  around it.  Commands: two children, one that leaves the group and one that stays.
  Digest: two audits and two findings of two projects, the least for a partial selection
  to differ from the fleet; two changes of the world.  Install: a file every commit has
  and one that a commit drops, two commits of the trunk and a branch, three acts of people.
- *Judgements.*  Discovery takes three checkouts: two that claim one repository and one
  they are compared with.  Heartbeat runs over nine ticks at an interval of two: silence longer than
  the two intervals it is judged by, on either side of a clock change.  Watch has two passes,
  one change of the project after any read, and one operation that fails without a word
  (`MaxMishaps`: a drop, a save, a read or a lock); CI passes at first, and the one change may
  fail it; three history entries are fewer than two passes append.  Meter's logs have up to
  three pieces within three bytes of the end, on either side of the tail (one byte) and of the
  bound (two).  The others enumerate their whole input: each field absent, unreadable, out of
  bounds, equal, older and newer.

### Fairness, and why the code justifies it

- A command that was issued goes on (weak fairness of its steps): agents, git, gh and
  gates all run with timeouts, and loops over finite lists.  Nobody is obliged to issue
  a stop, a clear or a start, and no run need end by itself.
- `Campaign`: time passes (`WF(Tick)`).
- `Supervisor`: the timer that runs `watch` fires again and again, whatever else runs in
  that slot of the model (`SF(Begin(c, "check"))`).
- `CheckCache`: those who wait in `flock` are woken in turn (`SF(Lock)`), a property of
  the kernel's queue; without it the run shows starvation that does not happen.
- `HealIssues`: the daily timer starts the next pass (`WF(Begin)`).
- `HealPass`: an action's thread goes on through its gates and its attempt; the server
  need not be started again, and the fleet pass need not end.
- `Deploys`: the waiting command polls and its clock moves (`WF(Poll)`, `WF(Deadline)`);
  the forge need not list a run, and a run need not complete.
- `Commands`: the caller goes on and the deadline comes (`WF(Caller)`, `WF(Expire)`); no
  process need exit or close a pipe.

The other runs state none and check no liveness.

Deadlock is not checked (`CHECK_DEADLOCK FALSE`): with every command issued and every
bound used the system has nothing left to do.  That nothing waits for ever is stated
by the liveness properties instead.

## 4. Disagreements between code and text

Each was met while modelling; the text quoted is in the source.  The first two are shown
by a run of their own.

1. **A PR can be buried** (`runs_buried_pr`).  `work.stop` says a stop racing a natural
   completion cannot bury the PR (`work.py`, the comment in `stop`).  In the run, stop loads
   a record that is still queued.  It names no pid, so nothing is killed.  The wrapper goes on,
   `gh pr create` succeeds, and before the wrapper's `finish` stop's own `finish` reads a record
   that is not terminal and writes `abandoned`; the wrapper then leaves a settled record
   alone.  `finish` decides by the record and never asks the forge, so nothing depends on the
   missing pid: a wrapper that is killed between `gh` and its own `finish` ends in the same way.
2. **A campaign can launch twice** (`campaign_overlap`).  "must not launch a second run on
   it" holds against runs that existed when the plan was made; two invocations that plan
   before either launches do not see each other.

The others are in the models as the conditions of a property:

3. **A stop can read as a death.**  `stop` kills, then clears the record; a watch pass in
   between finds a dead pid and reports a failed check, although a project that "stopped
   cleanly carries no process check to misread".  So does the next pass when the stop was
   interrupted between the two, or the unlink failed, which `_clear_state` suppresses.
   `DeathReportedOnce` (a part of `OneAtATimeIsExact`) holds of commands that do not overlap and
   names these two cases.
4. **A death can be reported twice.**  "A death is reported once", unless the tombstone or the
   dead record could not be unlinked (suppressed too): the next command finds it again.
   `DeathReportedOnce` names this case.
5. **A service can run untracked.**  "Untracked-but-running is not a state this supervisor
   offers", unless `start` is interrupted after the spawn and before its record is on disk.
   `NoneUntracked` names this case.
6. **A stamp can survive an edit.**  The clean HEAD is compared before and after the
   gates, to catch an edit that was reverted; two changes in between, or one between
   `rev-parse` and `status` followed by a second, are not seen.  `StampedPassIsTrue` holds
   of results made while the worktree changed at most once.
7. **A raw push can get past the guard.**  The rules say direct pushes to the trunk are
   blocked; the hook fails open when it is killed at 60 s, and a walk that gets past
   `pr.opened` may ask seven questions of 10 s.  `gh pr merge && git push` is then run whole.
   `TrunkMovesByMerge` excepts what the guard would have denied.
8. **The monitor can merge an unchecked head.**  `monitor_pr.sh` is to merge "when all checks
   pass"; between its wait for them and its `gh pr merge`, which names no head, somebody may push.
   Only a base branch that itself requires the checks stops that.  The model has the steps
   (`Monitor`, `Review`, `Merge`, `PushElsewhere`); no property excludes it.
9. **A stale death can be alerted.**  `watch` drops a stale `process` result when nothing
   supervised is found; a drop whose write fails is only logged, and the alerts read
   back from the cache raise it, although nothing was found failing.  And a history that cannot
   be read for a moment is replaced by one pass' entries.  `RedIsAlerted` and `HistoryIsWhole`
   name these cases.
10. **What git did not answer reads as nothing.**  `seams._git` says a hung git is the answer and
    "the caller reports the seam unchecked"; an `ls-files` that fails or times out is read as a
    tree that tracks nothing, so an unregistered copy passes with exit 0, and a `git show`
    that fails is read as a file that is gone and counted as drift.  `SeamsAreTrue` says both.
11. **What is of the wrong type is dropped without a word.**  `descriptor.py` begins with
    "malformed input degrades to defaults and is surfaced through ... warnings"; a block that is
    no mapping (`heal: fix`), or a path or endpoint that is no text, is read as undeclared and
    leaves none, and `doctor` says ok.  `Honoured`, which `ReadingsAreTrue` ties to doctor's verdict,
    excepts these values.

## 5. Proofs

`tlapm` checks all of them, for every value of the constants: the sets of runs, operators,
commands, writers, passes, trees, gates, commits, projects, attempts, processes, audits,
findings, sessions, branches, versions, fields, suites and logs are arbitrary.  **Every
safety and action property that a passing run checks is a theorem** (`Name` is proved as
`NameHolds`); what is not proved is named at the end.

Nothing is assumed beyond the named assumptions of the modules, which TLC evaluates on
every run.  Most type the constants: bounds are natural numbers, markers such as `NoRecord`
or `NoHead` are not among the values they mark the absence of, `Apply` maps contents to
contents.  Some say that a set is finite where the code counts it or takes a maximum of it
(a fleet, the passes of a watch, blocks, fields, seams, versions, metered runs), that
a fleet's snapshot lists a project in one place (`Rank`), that the contract versions the
program understands are a range, and that a log's tail is less than the whole it may read.
Three theorems have a hypothesis of their own, named in their statement: no two invocations
alive at once (`OneHandledRunHolds`), `push_branch.sh` installed (`TrunkMovesByMergeHolds`),
and the constants of the cache (`NewerCacheKeptHolds`).

Where a fact would need induction over data (the least position in a sequence, the greatest
of a finite set), a minimal counterexample takes its place: `SmallestExists` and `FiniteIsBounded`
rest on the well-foundedness of the naturals and on facts about finite sets.

### AgentRunsProofs

`TypeCorrect`, `NoFalseSuccessHolds`, `EvidenceKeptHolds`, `OnlyStaleUpdatesRegressHolds`.
None of the invariants is inductive by itself: a process
may be *about to* write a false record.  `IInv` adds what a process may hold:
`CopiesBacked` (not only the file but every copy in a hand or a snapshot claims a PR
only if it is open), `OpenSnapshots` (a snapshot that passed the guard of an update was
not settled), `Unstarted` (before its wrapper exists a run has touched nothing) and
`LandingOrder` (the worktree goes only after the PR opened).  The action
property then follows: a write that regresses the record used a snapshot that differs
from the file, because one that equals it would not have passed its guard.

### UnattendedProofs

- *Supervisor*: `TypeCorrect`, `DeathsAreRealHolds`, `OneAtATimeIsExactHolds`.  `IInv` extends
  `DeathsAreReal` to what commands hold between the probe and the write: whoever is about to
  bury or report an incarnation has seen it gone, and gone is for ever (`Aging`).  Exactness
  is about commands that never overlapped, with any number of failed writes and unlinks and
  of interrupted commands: `Serial` says what the two files hold at each step of the one
  command under way, as far as no start was cut short (`StartsWhole`), no stop (`StopsWhole`)
  and every unlink took effect (`Unlinked`), `Single` is the same for one command and one
  incarnation, which makes each step a small obligation.
- *Campaign*: `BatchInvariance`, `BatchIsAccountedHolds`, `OneHandledRunHolds`.  `BatchInv`
  keeps an invocation's accounts (`Books`: pending, active and reported are disjoint, the runs
  it launched are those active or reported, no project has two outcomes, and each outcome is
  what its record says, or was settled before the record was cleared) and its place in the
  loop (`Turn`: what is visited, stopped or about to be killed is supervised).  `AloneInv`
  adds, when invocations do not overlap, that what the busy one has pending is handled by
  nobody (`Unclaimed`): that is what `_outstanding` established, and what an overlapping
  invocation takes away.
- *Heartbeat*: `SilenceIsToldHolds`.  `AgeShows` ties the age the record shows to the clock, however
  it was set; `OnSchedule` bounds it while the timer fires.
- *Watch*: `WatchIsTrueHolds`, for any number of operations that fail without a word.  `FindsLast`
  is why the alerts may be read back from the cache: until a pass has raised them, what the
  cache says is what it found or reused, but for the tasks another pass wrote since and for
  what its own failed drop or save left there.
  `LogLocked` says that, while each pass has the lock and can read the log (`Guarded`), an entry
  is appended to the log as it is, so that what the bound drops is always the oldest
  (`KeptOfKept`); `TrendFollows`, that while passes keep apart
  the last outcome of the history is the one in the cache.

### ChecksProofs

- *LockedFile*: `StoreTypeCorrect`, `NeverTornHolds`, `SavedIsDurableHolds`,
  `PowerLossIsSafeHolds`, `NoLostUpdateHolds`, `Implementation`.  While nothing went
  unguarded the writer inside the body holds the lock alone (`Exclusive`) and what it read is
  still what the file holds (`BaseIsCurrent`).  `NoLostUpdateHolds` is
  the step simulation while locks and reads succeed, `Implementation` the refinement of
  `AtomicFile` (identity mapping) by behaviours in which they do.  Both hold of any store with
  this shape.
- *CheckCache*: `NewerCacheKeptHolds`, under `IsCheckCache`: a writer that goes on to
  replace the file did not decline the contents it read, and those are still there.
- *CheckPass*: `PassTypeCorrect`, `StampedPassIsTrueHolds`, `ReportIsCurrentHolds`.
  `Knows(p)` says what a pass may conclude at each of its steps from the number of changes
  since it began: with none, that HEAD and the worktree are those it probed; with one, that a
  second clean probe giving the same HEAD leaves no room for a different tree under the gate.
  The cache holds only `Honest` results.  `Current(p)` adds, for a pass whose worktree has
  not been touched since it began, what it is about to report.

### HealIssuesProofs

`TypeCorrect`, `OneIssuePerFindingHolds`,
`WritesAreTrueHolds`.  `Alone` says that without overlap at most one pass is under way;
`Knows(p)` says that its results are true of their commit (`TrueResults`), that while
nothing it read changed it stands at the published tip (`AtPublished`), that what is left
to file has no open issue it did not list (`LeftToDo`), and that the issue it is about to
close is the listed one of a passing gate (`AtClose`).

### HealPassProofs

`TypeCorrect`, `WorkIsKeptHolds`, `LandedIsVerifiedHolds`, `ReportIsHonestHolds`,
`RetryIsNeverRefusedHolds`.

- What a step may do to an attempt rests on what the steps before it found there and on nobody
  having touched it since.  `HeldOnce` says that two callers never hold one attempt,
  `FoundAsLeft` what each step finds of the held one: a worktree that is there and not
  expired, gates that pass from the verification on, a pushed branch before the PR, the PR
  before the removal.
- `Ledger` is the pass's account: the failing projects are sorted into waiting, at hand,
  tried and deferred, each result says what its agent cost, and what ran and the attempt at
  hand are within the limit.
- `RoomInv` keeps a free attempt of the bounded set for whoever is going to cut one, so
  that a refusal could only come from what the code looks at: a branch or a worktree in the
  way, or a second action.  No branch is (each attempt's name is its own), no worktree is (the
  expired are pruned and the others live elsewhere), and the tracker lets one action of a
  project run.

### LifecycleProofs

`TypeCorrect`, `PushIsTrueHolds`, `TrunkMovesByMergeHolds`, `AllowedIsEarnedHolds`.  `Asked`
says of a `check` under way that the nodes it has seen answered yes (but for the one it was
asked about) and that what each of them needs was seen too or is still on the walk: when the
walk is empty, what was seen is closed under `GRAPH` and holds every ancestor.  `SoundAt` says
what each step finds of its command, among it that no verb comes to push with the trunk for
its branch; a raw text that could is denied by some rule where `push_branch.sh` is installed, whatever the
other invocation in it is (`Harmless` says so of what is left of a text that runs), or runs
unheard, which the property excepts.

### OperationsProofs

`TypeCorrect`, `Invariance`, `DeployVerdictIsTrueHolds`, `ResultsAreTrueHolds`,
`DigestsAreTrueHolds`, `ExitsAreTrueHolds`.  `StepsApart` says that a step of the composition
is a step of each part or leaves that part alone.

- *Deploys*: `StartsItsOwn` (a run of ours exists only once dispatched), `Settles` (what an exit
  code rests on: the state of a listed run newer than the mark, unless the mark could not be
  read).
- *Commands*: `ShellLeads`: the pid is somebody else's only once the shell is gone, and is
  signalled then only without a recorded start time.  `VerdictStands`: what a verdict says of the
  processes stays so, because a dead shell stays dead and an empty group stays empty, a child
  being born in its parent's group.
- *Digest*: `Accounted` is what was told, is about to be told, or died with an audit killed in
  between; the baseline never exceeds it.
- *Install*: while nobody moved anything, each step has made sure of what the exit code will
  vouch for (`Looked`); `ToolSound` is what comparing the tool with a commit can tell.

### JudgementsProofs

`JudgeInvariance`, `FleetIsTrueHolds`, `ProbesAreTrueHolds`, `ViewIsTrueHolds`,
`OriginsAreTrueHolds`, `ReadingsAreTrueHolds`, `RedIsNeverGreenHolds`.  Most of these modules
answer in one step from given facts that no step changes; the content is then the answer, over all
facts: the newest version is taken of those that are known (`FleetView`); two blocks count as equal
only when no reader could tell them apart (`Origins`, `BlocksCompared`); the last price of a log is
found through both windows (`Meter`, `ScanIsNewest`); seams fails for a copy that drifted or
that git did not show, and is green only over what git listed (`Origins`); a status URL says nothing of a run, or what is
so (`Probes`, `RawStatusIs`); the doctor fails whoever declares, in the type the contract gives
it, what is ignored (`Descriptor`, `DoctorIs`).  Two go on step by step.  In `Discovery` what the scan has decided of a candidate
stays decided, because what is held only grows: a checkout passed over as a second one still
is when the scan ends, and the chain from it to the one in the fleet can be followed
(`WhoseRepository`).  In `FleetTests` each row written so far tells what its repository's
tests did (`RowsTell`).

### Model-checked only

- The liveness properties, for fairness and `ENABLED` are beyond the prover: `EventuallySettled`,
  `EveryBatchEnds`, `DeathSurfaces`, `EveryCallEnds`, `IssuesFollowGates`, `ActionsSettle` and
  `WaitsEnd`.
- The two counterexamples, which are behaviours and not properties.
- Type correctness of the judgements, whose invariants type only what their arguments need:
  `JudgeTypeOK` holds of the instance of the run.

## 6. Not modelled, not claimed

The models contain the following behaviours of the code, and no property claims they
cannot happen:

*State and processes*

- `clear` can unlink the record of a run whose agent works: the terminal verdict it read
  can be un-settled by a stale update (`work.py`);
- an exited wrapper whose parent lives and has not waited for it is reported running
  until the parent polls or exits;
- a launcher interrupted between saving the queued record and recording the pid
  leaves a record that reads queued for ever (`Orphaned` in `EventuallySettled`);
- two `start`s at once, or one interrupted before its record is on disk, can leave a process
  no file names; an interrupted stop, or one whose unlink failed, is told as a death, and
  a death whose file could not be unlinked is told again; a slow gate pass can replace a
  newer cached result by its older one, and a late save of an older `watch` pass stays;
- two overlapping heal passes can file one finding twice (the duplicate is closed in the
  end);
- the limit of a heal pass always goes to the first failing projects: those it defers are
  named each time, and may be deferred each time;
- an action whose thread could not be started stays running until the server restarts;
- a group whose leader exits in the grace period may live on, for escalation looks at the
  leader;
- a deploy whose newest-run mark could not be read may follow an older run;
- a run whose PR opened while `gh pr create` said it had not reads failed with its PR open;
- a text that `gh pr merge` begins may push behind it, when the guard is killed at its budget;
  the monitor merges the head the PR has by then, with `--admin` when no approval comes;
- a watch pass whose save failed exits 0 with findings; one whose drop failed raises a death
  nobody found; a history that cannot be read for a moment, or whose lock cannot be had, loses
  entries; one killed between consuming a
  tombstone and saving loses the death; `ci` writes no history; a watch by hand records
  interval 0, which is never stale;
- a digest whose post failed is not posted again, and `audit --digest --project a` saves a
  baseline without the other projects, which the next full audit reports as new.

*Readings*

- a checkout nested below `_HINT_DEPTH` levels, under a dotted, vendored or excluded name, in a
  linked worktree or in a directory that cannot be listed is neither found nor warned of;
- of two clones discovery prefers the one named after the repository to a governed one;
- a fly app that is both deployed and suspended reads as passing; GitHub's CI cell is the
  newest run of any workflow and branch;
- `--where drift=0` matches projects without a manifest; stale hooks and drift have no
  colour; `core.hooksPath` is not consulted, and a hook is installed when its file is there
  (`is_file`), whether or not it may be executed: git would not run one that may not;
- a copy no row names passes seams when git's listing fails, and a file git does not show
  counts as drift; seams exits 3 only when no finding could be checked; an empty upstream schema and
  versions that cannot be compared are no drift; a tool declared twice keeps the last bound;
- the descriptor drops without a warning a block that is no mapping and a path or endpoint
  that is no text, which the worlds of `Descriptor` hold (`Mistyped`) and its property excepts;
- a process is taken for ours without comparing start ticks when none were recorded or
  `/proc` cannot be read, and the pid may then be a stranger's (`Ticks`);
- `install --check` compares the metadata field by field with `pyproject.toml` and not with the
  commit it was built from, and looks at one thing after the other: what changes between two
  looks is not seen;
- in `orphans`, a deploy block without a region governs every region, and an item that is
  not an object is skipped; an account override equal to the ambient account is believed;
- a result further than 16 MiB from the end of a log is unmetered, and counted as such.

Assumptions about the outside: the forge's list of issues reflects the issues that exist;
a gate's verdict is a function of the tree it runs on, flakiness is not modelled; only
issues of our own account are modelled, for the list asks for no others.  What
platforms answer is modelled from how the adapters read it, and marked external in the
map.

Not modelled, and why:

- details of the readings above: the cap of 1000 on a listing of open PRs and a CI answer
  without its status key (`Probes`); `tooling`, `hooks.expected` and `ci` of the wrong type
  (`Descriptor`, whose other values of the wrong type are modelled); a `default_ref` that falls
  back to HEAD, and a register git cannot show (`Origins`); the unlocked update of the cache
  (`Watch` takes an update as one step, `CheckCache` has its steps);
- of `monitor_pr.sh`: its list of ignored checks, the wait for the pushed head to arrive, the org
  profile, which refuses `--admin`, and the polling itself, of which only the answer it ends
  with matters; of the guard, texts of more than two invocations;
- `register_project`: its write is `LockedFile`'s, under a lock named after the resolved
  path; two names for one fleet file would need a module of file systems;
- `sandbox.py` (a copy of an allow-list), the briefing, `ask` and model registry (prompts),
  capability, observability and host reports (they print what one command said), the
  controller and the TUI (one command at a time, no state but the screen);
- the guards of agents' commands (`prod_guard.py`, `package_guard.py`, the splitting of
  shell text in `dag_workflow.py`), the mutation gate and the repository's check scripts: they match
  text, and what could be wrong is the grammar they match, not an order of steps;
- HTML, wording, formats and argument parsing.

## 7. Plan

Done, in the order of what is lost when it is wrong: run records, campaigns, the
supervisor, files and cache, gate identity, the issue sink; then heal, the workflow verbs,
deploys, commands, digest and install; then what is said of the fleet.  Left:

1. **Proofs.**  Every safety and action property of the runs is proved.  What a refinement
   would add to them: an abstract run record (`queued`, `running`, one terminal state, and
   the regressions a stale write may cause) that `AgentRuns` implements, an abstract issue
   sink (one open issue for each red gate) that `HealIssues` implements, and an abstract
   batch for `Campaign`, as `AtomicFile` is for `LockedFile`.
2. **`register_project`** as another instance of `LockedFile`, with a lock that two writers
   may name differently.
3. **The dashboard's other buttons** (work, lifecycle) as callers of `AgentRuns` and
   `Supervisor` from one server process.
4. **The auditors** behind `audit`, each a judgement like those of `Descriptor`.
5. **Larger instances** of `runs_race` (two operators) and `lifecycle_verbs` (two sessions)
   where time allows.
