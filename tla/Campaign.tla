------------------------------- MODULE Campaign -------------------------------
(***************************************************************************)
(* `campaign <file>`: derive what is outstanding, then launch and          *)
(* supervise a batch under the policy (campaign.py, __main__._cmd_campaign)*)
(*                                                                         *)
(* Each invocation is a process with its own loop; all of them share the   *)
(* runs store, where a run of invocation i on project p is <<i, p>>.  The  *)
(* runs themselves are the environment: they end, operators stop and clear *)
(* them (AgentRuns models how).  A deadline is kept as the age of the run, *)
(* counted up to Timeout, where it has passed for good.                    *)
(***************************************************************************)
EXTENDS Naturals, Sequences, FiniteSets

CONSTANTS Projects,       \* the projects the selector matches
          Rank,           \* ... and the place of each in the fleet snapshot
          Invocations,    \* `campaign` commands issued over time
          Flags,          \* may each invocation be given --apply, or not?
          MaxConcurrent,  \* policy.max_concurrent
          Timeout,        \* policy.timeout, in clock ticks
          MayOverlap,     \* may two invocations be alive at once?
          Endings,        \* how a run may end by itself or be stopped
          MaxClears       \* bound on the clears operators issue

ASSUME PolicyAssumption ==
  /\ MaxConcurrent \in Nat \ {0} /\ Timeout \in Nat \ {0}
  /\ MayOverlap \in BOOLEAN /\ Flags \in [Invocations -> SUBSET BOOLEAN]
  /\ Endings \subseteq {"pr-opened", "failed", "needs-human", "abandoned"}
  /\ MaxClears \in Nat
  /\ IsFiniteSet(Projects)
  /\ Rank \in [Projects -> Nat] /\ \A p, q \in Projects : Rank[p] = Rank[q] => p = q

TERMINAL       == {"pr-opened", "failed", "needs-human", "abandoned"}
HandledStates  == {"running", "pr-opened", "needs-human"}   \* _HANDLED_STATES
RunIds         == Invocations \X Projects

VARIABLES
  store,     \* what runs.load reports of each run: "none", a state, or "cleared"
  phase,     \* where each invocation is
  pending,   \* projects it has still to launch
  active,    \* projects it supervises (the keys of `active`)
  age,       \* ticks since the launch of each of its runs
  toReap,    \* projects the current _reap has still to visit
  victim,    \* the project whose run _reap is stopping, if any
  due,       \* those whose deadline had passed when _reap read the clock
  outcomes,  \* what it reports: [project, state, timedOut]
  clears,    \* clears issued so far
  clearing   \* the runs whose settled record a clear has read and not yet unlinked

loop == <<phase, pending, active, age, toReap, victim, due, outcomes>>
batchVars == <<store, loop, clears, clearing>>

Outcome == [project : Projects, state : TERMINAL \cup {"running"}, timedOut : BOOLEAN]
Timely(p, state) == [project |-> p, state |-> state, timedOut |-> FALSE]
Killed(p, state) == [project |-> p, state |-> state, timedOut |-> TRUE]

BatchInit ==
  /\ store    = [x \in RunIds |-> "none"]
  /\ phase    = [i \in Invocations |-> "plan"]
  /\ pending  = [i \in Invocations |-> {}]
  /\ active   = [i \in Invocations |-> {}]
  /\ age      = [x \in RunIds |-> 0]
  /\ toReap   = [i \in Invocations |-> {}]
  /\ victim   = [i \in Invocations |-> {}]
  /\ due      = [i \in Invocations |-> {}]
  /\ outcomes = [i \in Invocations |-> <<>>]
  /\ clears   = 0
  /\ clearing = {}

PhaseTo(i, next) == phase' = [phase EXCEPT ![i] = next]
Report(i, out)   == outcomes' = [outcomes EXCEPT ![i] = Append(@, out)]

\* Mutant: the entry stays after its outcome was reported.
RetireNothing(i, p) == UNCHANGED <<active, age>>

\* `del active[run_id]`: the entry goes, with its deadline.
Retire(i, p) == /\ active' = [active EXCEPT ![i] = @ \ {p}]
                /\ age' = [age EXCEPT ![<<i, p>>] = 0]

-----------------------------------------------------------------------------
(* Planning: outstanding, then the canary or the whole batch. *)

\* Mutant: a run handed off to a person does not count as handled.
HandledByMachine(p) ==
  \E j \in Invocations : store[<<j, p>>] \in {"running", "pr-opened"}

\* A run of this campaign already covers the project.
Handled(p) == \E j \in Invocations : store[<<j, p>>] \in HandledStates

Outstanding == {p \in Projects : ~Handled(p)}

\* The head of a list kept in the order of the snapshot, if any.
First(S) == {p \in S : \A q \in S : Rank[p] <= Rank[q]}

\* Nothing outstanding: the campaign is done.  Otherwise targets[:1], or all of
\* them under --apply.
Plan(i) ==
  /\ phase[i] = "plan"
  /\ MayOverlap \/ \A j \in Invocations : phase[j] \in {"plan", "done"}
  /\ \E apply \in Flags[i] :
       pending' = [pending EXCEPT ![i] = IF apply THEN Outstanding ELSE First(Outstanding)]
  /\ PhaseTo(i, IF Outstanding = {} THEN "done" ELSE "fill")
  /\ UNCHANGED <<store, active, age, toReap, outcomes, victim, due, clears, clearing>>

-----------------------------------------------------------------------------
(* The loop: execute, _fill and _reap. *)

\* Mutant: one run more than the policy allows.
RoomForOneMore(i) == Cardinality(active[i]) <= MaxConcurrent

Room(i) == Cardinality(active[i]) < MaxConcurrent

\* One turn of _fill: a launch that comes back terminal (no worktree, no
\* wrapper, stopped before it was marked running) is an outcome at once.
Launch(i) ==
  /\ phase[i] = "fill"
  /\ Room(i)
  /\ \E p \in First(pending[i]) :
     /\ pending' = [pending EXCEPT ![i] = @ \ {p}]
     /\ \E result \in {"running", "failed", "abandoned"} :
          /\ store' = [store EXCEPT ![<<i, p>>] = result]
          /\ IF result \in TERMINAL
             THEN Report(i, Timely(p, result)) /\ UNCHANGED <<active, age>>
             ELSE /\ active' = [active EXCEPT ![i] = @ \cup {p}]
                  /\ age' = [age EXCEPT ![<<i, p>>] = 0]
                  /\ UNCHANGED outcomes
  /\ UNCHANGED <<phase, toReap, victim, due, clears, clearing>>

\* _fill returns; the loop sleeps when it supervises something, else it is over.
EndFill(i) ==
  /\ phase[i] = "fill"
  /\ pending[i] = {} \/ ~Room(i)
  /\ PhaseTo(i, IF active[i] = {} THEN "done" ELSE "sleep")
  /\ UNCHANGED <<store, pending, active, age, toReap, outcomes, victim, due, clears, clearing>>

\* Mutant: deadlines are never compared with the clock.
BeginReapUntimed(i) ==
  /\ phase[i] = "sleep"
  /\ PhaseTo(i, "reap")
  /\ toReap' = [toReap EXCEPT ![i] = active[i]]
  /\ due'    = [due EXCEPT ![i] = {}]
  /\ UNCHANGED <<store, pending, active, age, outcomes, victim, clears, clearing>>

\* seams.sleep returns and _reap reads the clock once.
BeginReap(i) ==
  /\ phase[i] = "sleep"
  /\ PhaseTo(i, "reap")
  /\ toReap' = [toReap EXCEPT ![i] = active[i]]
  /\ due'    = [due EXCEPT ![i] = {p \in active[i] : age[<<i, p>>] >= Timeout}]
  /\ UNCHANGED <<store, pending, active, age, outcomes, victim, clears, clearing>>

Visited(i, p) == toReap' = [toReap EXCEPT ![i] = @ \ {p}]

\* Mutant: a vanished record is reported as it reads.
ReapAsRead(i, p) ==
  /\ phase[i] = "reap" /\ p \in toReap[i]
  /\ store[<<i, p>>] # "running"
  /\ Report(i, [project |-> p, state |-> store[<<i, p>>], timedOut |-> FALSE])
  /\ Retire(i, p) /\ Visited(i, p)
  /\ UNCHANGED <<store, phase, pending, victim, due, clears, clearing>>

\* Poll a run that is over, or whose record is gone (reported as failed).
ReapFinished(i, p) ==
  /\ phase[i] = "reap" /\ p \in toReap[i]
  /\ store[<<i, p>>] # "running"
  /\ Report(i, Timely(p, IF store[<<i, p>>] = "cleared" THEN "failed"
                         ELSE store[<<i, p>>]))
  /\ Retire(i, p) /\ Visited(i, p)
  /\ UNCHANGED <<store, phase, pending, victim, due, clears, clearing>>

\* Poll a run that is still going and within its deadline.
ReapRunning(i, p) ==
  /\ phase[i] = "reap" /\ p \in toReap[i]
  /\ store[<<i, p>>] = "running" /\ p \notin due[i]
  /\ Visited(i, p)
  /\ UNCHANGED <<store, phase, pending, active, age, outcomes, victim, due, clears, clearing>>

\* Poll a run that is still going and past it: work.stop is called.
ReapOverdue(i, p) ==
  /\ phase[i] = "reap" /\ p \in toReap[i]
  /\ store[<<i, p>>] = "running" /\ p \in due[i]
  /\ toReap' = [toReap EXCEPT ![i] = @ \ {p}]
  /\ victim' = [victim EXCEPT ![i] = {p}]
  /\ PhaseTo(i, "stop")
  /\ UNCHANGED <<store, pending, active, age, due, outcomes, clears, clearing>>

\* Back from work.stop.
Resume(i) == PhaseTo(i, "reap") /\ victim' = [victim EXCEPT ![i] = {}]

\* stop finds the record gone and returns None: the copy polled before, still
\* running, becomes the outcome.
StopUnknown(i, p) ==
  /\ phase[i] = "stop" /\ victim[i] = {p}
  /\ store[<<i, p>>] = "cleared"
  /\ Report(i, Killed(p, "running"))
  /\ Retire(i, p) /\ Resume(i)
  /\ UNCHANGED <<store, pending, toReap, due, clears, clearing>>

\* Mutant: the polled copy is reported although stop found the run settled.
StopPolled(i, p) ==
  /\ phase[i] = "stop" /\ victim[i] = {p}
  /\ IF store[<<i, p>>] \in TERMINAL
     THEN /\ Report(i, Killed(p, "running"))
          /\ Retire(i, p) /\ Resume(i)
     ELSE /\ store[<<i, p>>] = "running"
          /\ PhaseTo(i, "kill")
          /\ UNCHANGED <<active, age, victim, outcomes>>
  /\ UNCHANGED <<store, pending, toReap, due, clears, clearing>>

\* stop finds the run settled meanwhile and returns it, or kills the wrapper.
StopLoad(i, p) ==
  /\ phase[i] = "stop" /\ victim[i] = {p}
  /\ IF store[<<i, p>>] \in TERMINAL
     THEN /\ Report(i, Killed(p, store[<<i, p>>]))
          /\ Retire(i, p) /\ Resume(i)
     ELSE /\ store[<<i, p>>] = "running"
          /\ PhaseTo(i, "kill")
          /\ UNCHANGED <<active, age, victim, outcomes>>
  /\ UNCHANGED <<store, pending, toReap, due, clears, clearing>>

\* Mutant: a killed run is reported as abandoned, whatever finish kept.
StopAssumed(i, p) ==
  /\ phase[i] = "kill" /\ victim[i] = {p}
  /\ store' = [store EXCEPT ![<<i, p>>] = IF @ \in TERMINAL THEN @ ELSE "abandoned"]
  /\ Report(i, Killed(p, "abandoned"))
  /\ Retire(i, p) /\ Resume(i)
  /\ UNCHANGED <<pending, toReap, due, clears, clearing>>

\* finish keeps what the wrapper recorded before it was killed.
StopFinish(i, p) ==
  /\ phase[i] = "kill" /\ victim[i] = {p}
  /\ LET settled == IF store[<<i, p>>] \in TERMINAL THEN store[<<i, p>>] ELSE "abandoned"
     IN /\ store' = [store EXCEPT ![<<i, p>>] = settled]
        /\ Report(i, Killed(p, settled))
  /\ Retire(i, p) /\ Resume(i)
  /\ UNCHANGED <<pending, toReap, due, clears, clearing>>

EndReap(i) ==
  /\ phase[i] = "reap" /\ toReap[i] = {}
  /\ PhaseTo(i, IF pending[i] = {} /\ active[i] = {} THEN "done" ELSE "fill")
  /\ due' = [due EXCEPT ![i] = {}]
  /\ UNCHANGED <<store, pending, active, age, toReap, outcomes, victim, clears, clearing>>

-----------------------------------------------------------------------------
(* The runs and the clock. *)

\* A run ends by itself, dies, or an operator stops it.
RunEnds(x) ==
  /\ store[x] = "running"
  /\ \E state \in Endings : store' = [store EXCEPT ![x] = state]
  /\ UNCHANGED <<loop, clears, clearing>>

\* `work --clear` reads the record and finds the run settled ...
OperatorAsks(x) ==
  /\ store[x] \in TERMINAL
  /\ clears < MaxClears /\ clears' = clears + 1
  /\ clearing' = clearing \cup {x}
  /\ UNCHANGED <<store, loop>>

\* ... and unlinks it, without a second look.
OperatorClears(x) ==
  /\ x \in clearing /\ clearing' = clearing \ {x}
  /\ store' = [store EXCEPT ![x] = "cleared"]
  /\ UNCHANGED <<loop, clears>>

Tick ==
  /\ \E i \in Invocations : \E p \in active[i] : age[<<i, p>>] < Timeout
  /\ age' = [x \in RunIds |->
               IF x[2] \in active[x[1]] /\ age[x] < Timeout THEN age[x] + 1 ELSE age[x]]
  /\ UNCHANGED <<store, phase, pending, active, toReap, outcomes, victim, due, clears, clearing>>

Step(i) ==
  \/ Plan(i) \/ Launch(i) \/ EndFill(i) \/ BeginReap(i) \/ EndReap(i)
  \/ \E p \in Projects :
       \/ ReapFinished(i, p) \/ ReapRunning(i, p) \/ ReapOverdue(i, p)
       \/ StopUnknown(i, p) \/ StopLoad(i, p) \/ StopFinish(i, p)

BatchNext ==
  \/ \E i \in Invocations : Step(i)
  \/ \E x \in RunIds : RunEnds(x) \/ OperatorAsks(x) \/ OperatorClears(x)
  \/ Tick

\* Every command runs on and time passes; no run need ever end by itself.
BatchFairness == WF_batchVars(Tick) /\ \A i \in Invocations : WF_batchVars(Step(i))

BatchSpec     == BatchInit /\ [][BatchNext]_batchVars
BatchFairSpec == BatchSpec /\ BatchFairness

-----------------------------------------------------------------------------
(* Properties. *)

Phases == {"plan", "fill", "sleep", "reap", "stop", "kill", "done"}

\* Every variable holds a value of its kind.
BatchTypeOK ==
  /\ store    \in [RunIds -> {"none", "running", "cleared"} \cup TERMINAL]
  /\ phase    \in [Invocations -> Phases]
  /\ pending  \in [Invocations -> SUBSET Projects]
  /\ active   \in [Invocations -> SUBSET Projects]
  /\ age      \in [RunIds -> 0..Timeout]
  /\ toReap   \in [Invocations -> SUBSET Projects]
  /\ victim   \in [Invocations -> SUBSET Projects]
  /\ due      \in [Invocations -> SUBSET Projects]
  /\ outcomes \in [Invocations -> Seq(Outcome)]
  /\ clears   \in 0..MaxClears
  /\ clearing \in SUBSET RunIds

Reported(i) == {outcomes[i][n].project : n \in DOMAIN outcomes[i]}

\* "return each one's outcome" (execute): a project of the batch is waiting, supervised
\* or reported, and only one of them; what was launched is supervised or has its outcome,
\* one and no more; and at the end nothing is left waiting or supervised.
OneOutcomeEach ==
  \A i \in Invocations :
    /\ \A m, n \in DOMAIN outcomes[i] : outcomes[i][m].project = outcomes[i][n].project => m = n
    /\ {pending[i] \cap active[i], pending[i] \cap Reported(i), active[i] \cap Reported(i)} = {{}}
    /\ {p \in Projects : store[<<i, p>>] # "none"} = active[i] \cup Reported(i)
    /\ phase[i] = "done" => pending[i] = {} /\ active[i] = {}

\* A run that is still going is one the invocation that launched it supervises,
\* and no invocation has more than max_concurrent of them.
RunningIsSupervised ==
  \A i \in Invocations :
    LET going == {p \in Projects : store[<<i, p>>] = "running"}
    IN  going \subseteq active[i] /\ Cardinality(going) <= MaxConcurrent

\* "Silence is not success": an outcome says pr-opened exactly when the record
\* says so, even when the PR opened between the poll and the kill.
NoPrMissed ==
  \A i \in Invocations : \A n \in DOMAIN outcomes[i] :
    LET out == outcomes[i][n]
        recorded == store[<<i, out.project>>]
    IN recorded # "cleared" => (out.state = "pr-opened" <=> recorded = "pr-opened")

\* "must not launch a second run on it": no project has two runs of the campaign
\* that count as handled.
OneHandledRun ==
  \A p \in Projects : \A i, j \in Invocations :
    store[<<i, p>>] \in HandledStates /\ store[<<j, p>>] \in HandledStates => i = j

\* "it cannot spin forever": every invocation that starts a batch comes to its
\* end, though no run need ever finish by itself.
EveryBatchEnds == \A i \in Invocations : phase[i] = "fill" ~> phase[i] = "done"

\* "The run's final, terminal record" (Outcome.run): what an invocation reports
\* is settled.  The one exception is a record that vanished between the poll that
\* found it overdue and the stop: the polled copy, still running, is reported.
OutcomesAreSettled ==
  \A i \in Invocations : \A n \in DOMAIN outcomes[i] :
    LET out == outcomes[i][n]
    IN  out.state \in TERMINAL \/ (out.timedOut /\ store[<<i, out.project>>] = "cleared")

\* "Run one batch to completion and return each one's outcome" (execute): the
\* accounts balance, nothing runs unsupervised or over the cap, and each outcome is
\* the settled state of its run's record.
BatchIsAccounted ==
  BatchTypeOK /\ OneOutcomeEach /\ RunningIsSupervised /\ NoPrMissed /\ OutcomesAreSettled
=============================================================================
