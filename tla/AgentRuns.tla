------------------------------ MODULE AgentRuns ------------------------------
(***************************************************************************)
(* The record of a detached agent run and the processes that write it      *)
(* (runs.py, work.py).                                                     *)
(*                                                                         *)
(* `work <project>` (the launcher) saves a queued record, spawns a         *)
(* detached wrapper and only then records its pid.  The wrapper loads the  *)
(* record, runs the agent, prices the run, lands the result and settles    *)
(* the record.  Meanwhile operators may `--stop` or `--clear` the run.     *)
(*                                                                         *)
(* persist.locked_write makes one WRITE atomic; mark_running, record_cost  *)
(* and finish each read the record first and take no lock around the pair. *)
(* Every read and every write is therefore a step of its own here, and the *)
(* snapshot an updater read is kept in lbase, wbase or obase until the     *)
(* write that uses it.                                                     *)
(***************************************************************************)
EXTENDS Naturals

CONSTANTS Runs,            \* run ids; each is launched by one `work` process
          Operators,       \* processes issuing `work --stop` and `--clear`
          NoRecord,        \* no readable file for the run
          MaxFaults,       \* bound on failed saves, crashed wrappers and lost gh answers
          LauncherMayDie   \* may a launching command be interrupted?

ASSUME FaultAssumption == MaxFaults \in Nat /\ LauncherMayDie \in BOOLEAN

TERMINAL == {"pr-opened", "failed", "needs-human", "abandoned"}
States   == {"queued", "running"} \cup TERMINAL

\* A record: its state, whether it names the wrapper's pid (with start ticks),
\* whether it carries a cost, and whether it carries the PR's URL.
AgentRun == [state : States, pid : BOOLEAN, cost : BOOLEAN, pr : BOOLEAN]
Queued   == [state |-> "queued", pid |-> FALSE, cost |-> FALSE, pr |-> FALSE]

ASSUME NoRecordAssumption == NoRecord \notin AgentRun

VARIABLES
  disk,    \* the record file of each run
  lpc,     \* where each launcher is
  lbase,   \* what the launcher read before its pending write
  wpc,     \* where each wrapper is
  whand,   \* the AgentRun object the wrapper holds
  wbase,   \* what the wrapper read before its pending write
  wwant,   \* the state the wrapper means to settle in, or "land"
  reaped,  \* the exited wrapper was waited for by its live parent
  opc,     \* where each operator command is
  otgt,    \* the run it is about
  ohand,   \* the AgentRun object it holds
  obase,   \* what it read before its pending write
  tree,    \* the run's worktree exists
  prOpen,  \* the forge holds a draft PR of the run
  faults   \* faults so far

lvars == <<lpc, lbase>>
wvars == <<wpc, whand, wbase, wwant, reaped>>
ovars == <<opc, otgt, ohand, obase>>
world == <<tree, prOpen>>
vars  == <<disk, lvars, wvars, ovars, world, faults>>

-----------------------------------------------------------------------------
(* What is on disk, and what it is reported as. *)

IsRecord(rec)   == rec # NoRecord
IsTerminal(rec) == IsRecord(rec) /\ rec.state \in TERMINAL

\* The wrapper runs.
Live(r) == wpc[r] \notin {"none", "exit"}

\* A signal-0 probe by a process that is not the wrapper's parent: an exited
\* wrapper still answers while it is an unreaped child of a living launcher.
PidAlive(r) == Live(r) \/ (wpc[r] = "exit" /\ lpc[r] # "gone" /\ ~reaped[r])

\* Mutant: a recorded running is believed although the process is gone.
ResolveAsRecorded(r, rec) == rec

\* A record that says running is believed only while its process answers.
Resolve(r, rec) ==
  IF rec.state = "running" /\ ~(rec.pid /\ PidAlive(r))
  THEN [rec EXCEPT !.state = "failed"]
  ELSE rec

ReportsTerminal(r) == IsRecord(disk[r]) /\ Resolve(r, disk[r]).state \in TERMINAL

-----------------------------------------------------------------------------
(* The three updates, as functions of the snapshot and the caller's copy. *)

\* `_read(run.id) or run`
Rebase(base, hand) == IF IsRecord(base) THEN base ELSE hand

Marked(base, hand) == [Rebase(base, hand) EXCEPT !.state = "running", !.pid = TRUE]

Priced(base, hand) == [Rebase(base, hand) EXCEPT !.cost = TRUE]

\* A state that is not terminal is settled as failed.
Settled(base, hand, state) ==
  [Rebase(base, hand) EXCEPT !.state = IF state \in TERMINAL THEN state ELSE "failed",
                             !.pr    = (state = "pr-opened" \/ hand.pr)]

\* Mutant: finish settles whatever it reads.
FinishAnyway(rec) == TRUE

\* finish writes only over a record that is not terminal.
MayFinish(rec) == ~IsTerminal(rec)

\* mark_running leaves a settled record alone.
MayMark(rec) == ~IsTerminal(rec)

\* runs.save: the whole record replaces the file, or the save fails quietly.
Save(r, rec) ==
  \/ disk' = [disk EXCEPT ![r] = rec] /\ UNCHANGED faults
  \/ faults < MaxFaults /\ faults' = faults + 1 /\ UNCHANGED disk

Init ==
  /\ disk   = [r \in Runs |-> NoRecord]
  /\ lpc    = [r \in Runs |-> "idle"]
  /\ lbase  = [r \in Runs |-> NoRecord]
  /\ wpc    = [r \in Runs |-> "none"]
  /\ whand  = [r \in Runs |-> Queued]
  /\ wbase  = [r \in Runs |-> NoRecord]
  /\ wwant  = [r \in Runs |-> "failed"]
  /\ reaped = [r \in Runs |-> FALSE]
  /\ opc    = [o \in Operators |-> "idle"]
  /\ otgt   \in [Operators -> Runs]
  /\ ohand  = [o \in Operators |-> Queued]
  /\ obase  = [o \in Operators |-> NoRecord]
  /\ tree   = [r \in Runs |-> FALSE]
  /\ prOpen = [r \in Runs |-> FALSE]
  /\ faults = 0

-----------------------------------------------------------------------------
(* The launcher: work.launch. *)

LauncherTo(r, step) == lpc' = [lpc EXCEPT ![r] = step]

\* Cut the worktree and stage the briefing; either may fail.
LaunchPrepare(r) ==
  /\ lpc[r] = "idle"
  /\ \/ LauncherTo(r, "save") /\ tree' = [tree EXCEPT ![r] = TRUE]
     \/ LauncherTo(r, "fail") /\ tree' \in {tree, [tree EXCEPT ![r] = TRUE]}
  /\ UNCHANGED <<disk, lbase, wvars, ovars, prOpen, faults>>

LaunchSave(r) ==
  /\ lpc[r] = "save"
  /\ Save(r, Queued)
  /\ LauncherTo(r, "spawn")
  /\ UNCHANGED <<lbase, wvars, ovars, world>>

\* Popen starts the wrapper, or raises OSError.
LaunchSpawn(r) ==
  /\ lpc[r] = "spawn"
  /\ \/ LauncherTo(r, "mark") /\ wpc' = [wpc EXCEPT ![r] = "load"]
     \/ LauncherTo(r, "fail") /\ UNCHANGED wpc
  /\ UNCHANGED <<disk, lbase, whand, wbase, wwant, reaped, ovars, world, faults>>

MarkRead(r) ==
  /\ lpc[r] = "mark"
  /\ LauncherTo(r, IF MayMark(disk[r]) THEN "markWrite" ELSE "done")
  /\ lbase' = [lbase EXCEPT ![r] = disk[r]]
  /\ UNCHANGED <<disk, wvars, ovars, world, faults>>

MarkWrite(r) ==
  /\ lpc[r] = "markWrite"
  /\ Save(r, Marked(lbase[r], Queued))
  /\ LauncherTo(r, "done")
  /\ UNCHANGED <<lbase, wvars, ovars, world>>

LaunchFailRead(r) ==
  /\ lpc[r] = "fail"
  /\ LauncherTo(r, IF MayFinish(disk[r]) THEN "failWrite" ELSE "done")
  /\ lbase' = [lbase EXCEPT ![r] = disk[r]]
  /\ UNCHANGED <<disk, wvars, ovars, world, faults>>

LaunchFailWrite(r) ==
  /\ lpc[r] = "failWrite"
  /\ Save(r, Settled(lbase[r], Queued, "failed"))
  /\ LauncherTo(r, "done")
  /\ UNCHANGED <<lbase, wvars, ovars, world>>

\* The command returns; an exited child passes to init, which reaps it.
LauncherExit(r) ==
  /\ lpc[r] = "done"
  /\ LauncherTo(r, "gone")
  /\ UNCHANGED <<disk, lbase, wvars, ovars, world, faults>>

\* A launcher that stays (a campaign, the REPL) probes its own child.
ParentPoll(r) ==
  /\ lpc[r] = "done" /\ wpc[r] = "exit" /\ ~reaped[r]
  /\ reaped' = [reaped EXCEPT ![r] = TRUE]
  /\ UNCHANGED <<disk, lvars, wpc, whand, wbase, wwant, ovars, world, faults>>

\* Interrupted before it returned: the detached wrapper goes on.
LauncherDies(r) ==
  /\ LauncherMayDie
  /\ lpc[r] \notin {"idle", "done", "gone"}
  /\ LauncherTo(r, "gone")
  /\ UNCHANGED <<disk, lbase, wvars, ovars, world, faults>>

-----------------------------------------------------------------------------
(* The wrapper: work.run_agent and work._default_land. *)

WrapperTo(r, step) == wpc' = [wpc EXCEPT ![r] = step]
Want(r, state)     == wwant' = [wwant EXCEPT ![r] = state]

WrapperKeeps == UNCHANGED <<disk, lvars, reaped, ovars, faults>>

\* No record, or one already settled: nothing to do.  A missing briefing
\* settles the run as failed.
WrapperLoad(r) ==
  /\ wpc[r] = "load"
  /\ IF IsRecord(disk[r]) /\ ~IsTerminal(disk[r])
     THEN /\ whand' = [whand EXCEPT ![r] = disk[r]]
          /\ \/ WrapperTo(r, "agent") /\ UNCHANGED wwant
             \/ WrapperTo(r, "finish") /\ Want(r, "failed")
     ELSE WrapperTo(r, "exit") /\ UNCHANGED <<whand, wwant>>
  /\ WrapperKeeps /\ UNCHANGED <<wbase, world>>

\* Landing starts with the commit; the other verdicts are settled at once.
AfterPricing(want) == IF want = "land" THEN "commit" ELSE "finish"

\* The agent returns or times out.  A new marker is a handoff, a bad exit is a
\* failure, anything else lands; the log yields a cost or it does not.
AgentEnds(r) ==
  /\ wpc[r] = "agent"
  /\ \E verdict \in {"needs-human", "failed", "land"} :
       /\ Want(r, verdict)
       /\ \E metered \in BOOLEAN :
            WrapperTo(r, IF metered THEN "price" ELSE AfterPricing(verdict))
  /\ WrapperKeeps /\ UNCHANGED <<whand, wbase, world>>

PriceRead(r) ==
  /\ wpc[r] = "price"
  /\ wbase' = [wbase EXCEPT ![r] = disk[r]]
  /\ IF Rebase(disk[r], whand[r]).cost
     THEN /\ WrapperTo(r, AfterPricing(wwant[r]))
          /\ whand' = [whand EXCEPT ![r] = Rebase(disk[r], whand[r])]
     ELSE WrapperTo(r, "priceWrite") /\ UNCHANGED whand
  /\ WrapperKeeps /\ UNCHANGED <<wwant, world>>

PriceWrite(r) ==
  /\ wpc[r] = "priceWrite"
  /\ Save(r, Priced(wbase[r], whand[r]))
  /\ whand' = [whand EXCEPT ![r] = Priced(wbase[r], whand[r])]
  /\ WrapperTo(r, AfterPricing(wwant[r]))
  /\ UNCHANGED <<lvars, wbase, wwant, reaped, ovars, world>>

\* commit_all and push_branch: go on, or settle as failed (nothing to commit,
\* git refused, a protected branch).
LandStep(r, step, next) ==
  /\ wpc[r] = step
  /\ \/ WrapperTo(r, next) /\ UNCHANGED wwant
     \/ WrapperTo(r, "finish") /\ Want(r, "failed")
  /\ WrapperKeeps /\ UNCHANGED <<whand, wbase, world>>

\* Mutant: the worktree is removed as soon as the branch is pushed.
PushThenRemove(r) ==
  /\ wpc[r] = "push"
  /\ \/ WrapperTo(r, "openPr") /\ tree' = [tree EXCEPT ![r] = FALSE] /\ UNCHANGED wwant
     \/ WrapperTo(r, "finish") /\ Want(r, "failed") /\ UNCHANGED tree
  /\ WrapperKeeps /\ UNCHANGED <<whand, wbase, prOpen>>

Commit(r) == LandStep(r, "commit", "push")
Push(r)   == LandStep(r, "push", "openPr")

\* Mutant: a `gh pr create` that failed is taken for one that opened the PR.
OpenUnchecked(r) ==
  /\ wpc[r] = "openPr"
  /\ prOpen' \in {prOpen, [prOpen EXCEPT ![r] = TRUE]}
  /\ WrapperTo(r, "cleanup")
  /\ WrapperKeeps /\ UNCHANGED <<whand, wbase, wwant, tree>>

OpenDraftPr(r) ==
  /\ wpc[r] = "openPr"
  /\ \/ /\ prOpen' = [prOpen EXCEPT ![r] = TRUE]
        /\ WrapperTo(r, "cleanup") /\ UNCHANGED wwant
     \/ WrapperTo(r, "finish") /\ Want(r, "failed") /\ UNCHANGED prOpen
  /\ WrapperKeeps /\ UNCHANGED <<whand, wbase, tree>>

\* `gh pr create` fails, or overruns, after the forge opened the PR: the run is
\* settled as failed like one that opened none.
OpenUnheard(r) ==
  /\ wpc[r] = "openPr"
  /\ prOpen' = [prOpen EXCEPT ![r] = TRUE]
  /\ WrapperTo(r, "finish") /\ Want(r, "failed")
  /\ faults < MaxFaults /\ faults' = faults + 1
  /\ UNCHANGED <<disk, lvars, whand, wbase, reaped, ovars, tree>>

Cleanup(r) ==
  /\ wpc[r] = "cleanup"
  /\ tree' \in {tree, [tree EXCEPT ![r] = FALSE]}   \* best effort
  /\ WrapperTo(r, "finish") /\ Want(r, "pr-opened")
  /\ WrapperKeeps /\ UNCHANGED <<whand, wbase, prOpen>>

FinishRead(r) ==
  /\ wpc[r] = "finish"
  /\ wbase' = [wbase EXCEPT ![r] = disk[r]]
  /\ WrapperTo(r, IF MayFinish(disk[r]) THEN "finishWrite" ELSE "exit")
  /\ WrapperKeeps /\ UNCHANGED <<whand, wwant, world>>

FinishWrite(r) ==
  /\ wpc[r] = "finishWrite"
  /\ Save(r, Settled(wbase[r], whand[r], wwant[r]))
  /\ WrapperTo(r, "exit")
  /\ UNCHANGED <<lvars, whand, wbase, wwant, reaped, ovars, world>>

\* Killed by the OOM killer, a signal, a host that goes down.
WrapperCrash(r) ==
  /\ Live(r)
  /\ faults < MaxFaults /\ faults' = faults + 1
  /\ WrapperTo(r, "exit")
  /\ UNCHANGED <<disk, lvars, whand, wbase, wwant, reaped, ovars, world>>

-----------------------------------------------------------------------------
(* An operator's command: work.stop and work.clear. *)

OperatorTo(o, step) == opc' = [opc EXCEPT ![o] = step]

OperatorKeeps == UNCHANGED <<lvars, whand, wbase, wwant, reaped, world>>

StopLoad(o, r) ==
  /\ opc[o] = "idle"
  /\ IsRecord(disk[r]) /\ ~ReportsTerminal(r)
  /\ otgt'  = [otgt EXCEPT ![o] = r]
  /\ ohand' = [ohand EXCEPT ![o] = disk[r]]
  /\ OperatorTo(o, IF disk[r].pid THEN "kill" ELSE "finish")
  /\ OperatorKeeps /\ UNCHANGED <<disk, wpc, obase, faults>>

\* terminate_group: the wrapper is gone when it returns.
StopKill(o) ==
  /\ opc[o] = "kill"
  /\ wpc' = IF Live(otgt[o]) THEN [wpc EXCEPT ![otgt[o]] = "exit"] ELSE wpc
  /\ OperatorTo(o, "finish")
  /\ OperatorKeeps /\ UNCHANGED <<disk, otgt, ohand, obase, faults>>

StopFinishRead(o) ==
  /\ opc[o] = "finish"
  /\ obase' = [obase EXCEPT ![o] = disk[otgt[o]]]
  /\ OperatorTo(o, IF MayFinish(disk[otgt[o]]) THEN "finishWrite" ELSE "idle")
  /\ OperatorKeeps /\ UNCHANGED <<disk, wpc, otgt, ohand, faults>>

StopFinishWrite(o) ==
  /\ opc[o] = "finishWrite"
  /\ Save(otgt[o], Settled(obase[o], ohand[o], "abandoned"))
  /\ OperatorTo(o, "idle")
  /\ OperatorKeeps /\ UNCHANGED <<wpc, otgt, ohand, obase>>

ClearLoad(o, r) ==
  /\ opc[o] = "idle"
  /\ ReportsTerminal(r)
  /\ otgt' = [otgt EXCEPT ![o] = r]
  /\ OperatorTo(o, "forget")
  /\ OperatorKeeps /\ UNCHANGED <<disk, wpc, ohand, obase, faults>>

Forget(o) ==
  /\ opc[o] = "forget"
  /\ disk' = [disk EXCEPT ![otgt[o]] = NoRecord]
  /\ OperatorTo(o, "idle")
  /\ OperatorKeeps /\ UNCHANGED <<wpc, otgt, ohand, obase, faults>>

-----------------------------------------------------------------------------

LauncherStep(r) ==
  \/ LaunchPrepare(r) \/ LaunchSave(r) \/ LaunchSpawn(r)
  \/ MarkRead(r) \/ MarkWrite(r)
  \/ LaunchFailRead(r) \/ LaunchFailWrite(r)
  \/ LauncherExit(r)

WrapperStep(r) ==
  \/ WrapperLoad(r) \/ AgentEnds(r)
  \/ PriceRead(r) \/ PriceWrite(r)
  \/ Commit(r) \/ Push(r) \/ OpenDraftPr(r) \/ OpenUnheard(r) \/ Cleanup(r)
  \/ FinishRead(r) \/ FinishWrite(r)

OperatorStep(o) ==
  \/ \E r \in Runs : StopLoad(o, r) \/ ClearLoad(o, r)
  \/ StopKill(o) \/ StopFinishRead(o) \/ StopFinishWrite(o) \/ Forget(o)

Next ==
  \/ \E r \in Runs : LauncherStep(r) \/ WrapperStep(r)
                       \/ ParentPoll(r) \/ LauncherDies(r) \/ WrapperCrash(r)
  \/ \E o \in Operators : OperatorStep(o)

\* A launching command runs to its end unless it is interrupted.  The wrapper
\* does too: the agent has AGENT_TIMEOUT, git and gh have timeouts of their own.
\* An operator need not issue a command, but one that was issued ends.
Fairness ==
  /\ \A r \in Runs : WF_vars(LauncherStep(r)) /\ WF_vars(WrapperStep(r))
  /\ \A o \in Operators :
       WF_vars(StopKill(o) \/ StopFinishRead(o) \/ StopFinishWrite(o) \/ Forget(o))

Spec     == Init /\ [][Next]_vars
FairSpec == Spec /\ Fairness

-----------------------------------------------------------------------------
(* Properties. *)

LauncherSteps == {"idle", "save", "spawn", "mark", "markWrite", "fail", "failWrite",
                  "done", "gone"}
WrapperSteps  == {"none", "load", "agent", "price", "priceWrite", "commit", "push",
                  "openPr", "cleanup", "finish", "finishWrite", "exit"}
OperatorSteps == {"idle", "kill", "finish", "finishWrite", "forget"}

MaybeRun == AgentRun \cup {NoRecord}

\* Every variable holds a value of its kind; the fault budget is respected.
TypeOK ==
  /\ disk   \in [Runs -> MaybeRun]
  /\ lpc    \in [Runs -> LauncherSteps]
  /\ lbase  \in [Runs -> MaybeRun]
  /\ wpc    \in [Runs -> WrapperSteps]
  /\ whand  \in [Runs -> AgentRun]
  /\ wbase  \in [Runs -> MaybeRun]
  /\ wwant  \in [Runs -> {"needs-human", "failed", "land", "pr-opened"}]
  /\ reaped \in [Runs -> BOOLEAN]
  /\ opc    \in [Operators -> OperatorSteps]
  /\ otgt   \in [Operators -> Runs]
  /\ ohand  \in [Operators -> AgentRun]
  /\ obase  \in [Operators -> MaybeRun]
  /\ tree   \in [Runs -> BOOLEAN]
  /\ prOpen \in [Runs -> BOOLEAN]
  /\ faults \in 0..MaxFaults

\* "Silence is not success": whatever dies, races or fails to save, a record
\* says pr-opened, or carries a PR's URL, only if the forge holds that PR.
NoFalseSuccess ==
  \A r \in Runs :
    IsRecord(disk[r]) /\ (disk[r].state = "pr-opened" \/ disk[r].pr) => prOpen[r]

\* A run's work is never lost: from the moment a wrapper is started, either the
\* worktree is still there (kept as evidence when the run fails, is handed off,
\* stopped or killed) or a PR holds what was in it.  (Retention by age,
\* worktree.prune_expired, is not in the model.)
EvidenceKept ==
  \A r \in Runs : wpc[r] # "none" => tree[r] \/ prOpen[r]

\* Some process is between its read and its write of r's record, and the record
\* changed after that read.
StaleUpdate(r) ==
  \/ lpc[r] \in {"markWrite", "failWrite"} /\ lbase[r] # disk[r]
  \/ wpc[r] \in {"priceWrite", "finishWrite"} /\ wbase[r] # disk[r]
  \/ \E o \in Operators :
       opc[o] = "finishWrite" /\ otgt[o] = r /\ obase[o] # disk[r]

\* A settled state changed to another one, or a recorded price was lost.
Regresses(old, new) ==
  /\ IsRecord(old) /\ IsRecord(new)
  /\ \/ old.state \in TERMINAL /\ new.state # old.state
     \/ old.cost /\ ~new.cost

\* First writer wins against every stale HANDLE: a settled state or a price on
\* disk is overwritten only in a step of a writer whose own re-read was overtaken.
OnlyStaleUpdatesRegress ==
  [][\A r \in Runs : Regresses(disk[r], disk'[r]) => StaleUpdate(r)]_vars

\* A run that reads queued and that no process works on any more: its launcher
\* was interrupted, or could not record the wrapper's pid.  The code settles no such
\* run, for only a running record is resolved against its process.
Orphaned(r) ==
  IsRecord(disk[r]) /\ disk[r].state = "queued" /\ ~Live(r) /\ lpc[r] = "gone"

\* A launched run ends up settled for good, or forgotten: whatever stops, clears,
\* crashes or fails to save, no run is reported as running for ever.
EventuallySettled ==
  \A r \in Runs : <>[](ReportsTerminal(r) \/ disk[r] = NoRecord \/ Orphaned(r))

-----------------------------------------------------------------------------
(* What the documentation promises and the interleavings do not keep. *)

\* "you cannot abandon a run that already opened its PR" (work.stop).
NoAbandonedPr ==
  \A r \in Runs : IsRecord(disk[r]) /\ disk[r].state = "abandoned" => ~prOpen[r]
=============================================================================
