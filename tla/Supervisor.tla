------------------------------ MODULE Supervisor ------------------------------
(***************************************************************************)
(* One project's supervised process: its state file, its death tombstone   *)
(* and the commands that read and write them (supervisor.py).              *)
(*                                                                         *)
(* start, stop, liveness_check (the watch pass) and every status render    *)
(* run in processes of their own and share the two files without a lock.   *)
(* They all begin with running_state: load the record, probe the process   *)
(* and, if it is gone, retire the record into the tombstone.               *)
(*                                                                         *)
(* An incarnation is one launched process.  The record holds its pid and   *)
(* start ticks, so it names the incarnation and a recycled pid reads as    *)
(* dead: a comparison of incarnations.                                     *)
(***************************************************************************)
EXTENDS Naturals, FiniteSets

CONSTANTS Commands,    \* processes that act on the project
          Verbs,       \* what each of them may do
          MaxStarts,   \* bound on launches
          MaxFaults    \* bound on failed file operations and interrupted commands

ASSUME BoundsAssumption ==
  /\ MaxStarts \in Nat /\ MaxFaults \in Nat
  /\ Verbs \in [Commands -> SUBSET {"start", "stop", "check", "status"}]

Incarnations == 1..MaxStarts
None         == 0                         \* no file, no process
Maybe        == Incarnations \cup {None}

VARIABLES
  record,    \* whom the state file names
  tomb,      \* whom the tombstone names
  proc,      \* each incarnation: "unborn", "live", "died", "killed"
  pc,        \* where each command is
  verb,      \* what it is doing
  state,     \* the RunState it loaded, launched, or read from the tombstone
  reported,  \* how often each death was reported as a failed check, up to 2
  faults,    \* failures and interruptions so far
  mishaps,   \* what they were: the step that failed, or before which a command was cut
  overlapped \* have two commands ever been under way at once?

files == <<record, tomb>>
vars  == <<files, proc, pc, verb, state, reported, faults, mishaps, overlapped>>

Live(n) == n # None /\ proc[n] = "live"
Gone(n) == n # None /\ proc[n] \in {"died", "killed"}

Init ==
  /\ record = None /\ tomb = None
  /\ proc     = [n \in Incarnations |-> "unborn"]
  /\ pc       = [c \in Commands |-> "idle"]
  /\ verb     = [c \in Commands |-> "status"]
  /\ state    = [c \in Commands |-> None]
  /\ reported = [n \in Incarnations |-> 0]
  /\ faults   = 0 /\ mishaps = {}
  /\ overlapped = FALSE

At(c, step, next) == pc[c] = step /\ pc' = [pc EXCEPT ![c] = next]
Holds(c, n)       == state' = [state EXCEPT ![c] = n]

\* A command returns; what it held is gone with it.
Return(c) == pc' = [pc EXCEPT ![c] = "idle"] /\ Holds(c, None)

Smooth      == UNCHANGED <<faults, mishaps>>
Mishap(m)   == faults < MaxFaults /\ faults' = faults + 1 /\ mishaps' = mishaps \cup {m}
Fails(step) == Mishap(<<"failed", step>>)
Failed(step) == <<"failed", step>> \in mishaps
Cut(step)    == <<"cut", step>> \in mishaps

\* An unlink takes effect, or fails and the failure is suppressed.
Unlinks(step, before, after) ==
  \/ after = None /\ Smooth
  \/ Fails(step) /\ after = before

-----------------------------------------------------------------------------
(* running_state, at the head of every command. *)

\* What each command goes on to when nothing is running ...
WhenDown(v) == CASE v = "start" -> "spawn" [] v = "check" -> "consume" [] OTHER -> "idle"

\* ... and when the recorded process is up.
WhenUp(v) == IF v = "stop" THEN "kill" ELSE "idle"

Begin(c, v) ==
  /\ pc[c] = "idle" /\ v \in Verbs[c]
  /\ verb' = [verb EXCEPT ![c] = v]
  /\ LET next == IF record = None THEN WhenDown(v)
                 ELSE IF Live(record) THEN WhenUp(v) ELSE "bury"
     IN /\ pc' = [pc EXCEPT ![c] = next]
        /\ Holds(c, IF next = "idle" THEN None ELSE record)
  /\ overlapped' = (overlapped \/ \E d \in Commands : pc[d] # "idle")
  /\ UNCHANGED <<files, proc, reported, faults, mishaps>>

\* Mutant: whoever the state file names by now is buried, not who was probed.
BuryCurrent(c) ==
  /\ At(c, "bury", "clearDead")
  /\ \/ tomb' = record /\ Smooth
     \/ Fails("bury") /\ UNCHANGED tomb
  /\ UNCHANGED <<record, proc, verb, state, reported, overlapped>>

\* Mutant: a dead record is cleared without a tombstone by a mere render.
BuryOnCheckOnly(c) ==
  /\ At(c, "bury", "clearDead")
  /\ tomb' = IF verb[c] = "check" THEN state[c] ELSE tomb
  /\ UNCHANGED <<record, proc, verb, state, reported, faults, mishaps, overlapped>>

\* _record_death: the tombstone is written, unless that fails ...
Bury(c) ==
  /\ At(c, "bury", "clearDead")
  /\ \/ tomb' = state[c] /\ Smooth
     \/ Fails("bury") /\ UNCHANGED tomb
  /\ UNCHANGED <<record, proc, verb, state, reported, overlapped>>

\* ... and the state file is unlinked, whoever it names by now.
ClearDead(c) ==
  /\ At(c, "clearDead", WhenDown(verb[c]))
  /\ Unlinks("clearDead", record, record') /\ Holds(c, None)
  /\ UNCHANGED <<tomb, proc, verb, reported, overlapped>>

-----------------------------------------------------------------------------
(* start *)

Unborn == {n \in Incarnations : proc[n] = "unborn"}

\* Too little memory, or Popen raised.
SpawnRefused(c) ==
  /\ At(c, "spawn", "idle") /\ Holds(c, None)
  /\ UNCHANGED <<files, proc, verb, reported, faults, mishaps, overlapped>>

Spawn(c) ==
  /\ At(c, "spawn", "write")
  /\ \E n \in Unborn :
       /\ \A m \in Unborn : n <= m
       /\ proc' = [proc EXCEPT ![n] = "live"] /\ Holds(c, n)
  /\ UNCHANGED <<files, verb, reported, faults, mishaps, overlapped>>

\* Mutant: a record that could not be written leaves the process running.
WriteOrIgnore(c) ==
  /\ At(c, "write", "supersede")
  /\ \/ record' = state[c] /\ Smooth
     \/ Fails("write") /\ UNCHANGED record
  /\ UNCHANGED <<tomb, proc, verb, state, reported, overlapped>>

WriteRecord(c) ==
  /\ \/ At(c, "write", "supersede") /\ record' = state[c] /\ Smooth
     \/ At(c, "write", "undo") /\ Fails("write") /\ UNCHANGED record
  /\ UNCHANGED <<tomb, proc, verb, state, reported, overlapped>>

\* The record could not be written: the launch is undone.
Kill(n) == proc' = IF Live(n) THEN [proc EXCEPT ![n] = "killed"] ELSE proc

Undo(c) ==
  /\ pc[c] = "undo" /\ Return(c)
  /\ Kill(state[c])
  /\ UNCHANGED <<files, verb, reported, faults, mishaps, overlapped>>

\* "A successful restart supersedes an unreported death."
Supersede(c) ==
  /\ pc[c] = "supersede" /\ Return(c)
  /\ Unlinks("supersede", tomb, tomb')
  /\ UNCHANGED <<record, proc, verb, reported, overlapped>>

-----------------------------------------------------------------------------
(* stop *)

StopKill(c) ==
  /\ At(c, "kill", "clear")
  /\ Kill(state[c])
  /\ UNCHANGED <<files, verb, state, reported, faults, mishaps, overlapped>>

\* Mutant: stop leaves the state file behind.
StopForgetsFile(c) ==
  /\ pc[c] = "clear" /\ Return(c)
  /\ UNCHANGED <<files, proc, verb, reported, faults, mishaps, overlapped>>

StopClear(c) ==
  /\ pc[c] = "clear" /\ Return(c)
  /\ Unlinks("clear", record, record')
  /\ UNCHANGED <<tomb, proc, verb, reported, overlapped>>

-----------------------------------------------------------------------------
(* liveness_check, once running_state found nothing *)

\* _consume_death reads the tombstone ...
ReadTomb(c) ==
  /\ At(c, "consume", "unlink")
  /\ Holds(c, tomb)
  /\ UNCHANGED <<files, proc, verb, reported, faults, mishaps, overlapped>>

\* Mutant: the tombstone outlives its report.
ReadOnly(c) ==
  /\ At(c, "unlink", "report")
  /\ UNCHANGED <<files, proc, verb, state, reported, faults, mishaps, overlapped>>

\* ... and unlinks it ...
UnlinkTomb(c) ==
  /\ At(c, "unlink", "report")
  /\ Unlinks("unlink", tomb, tomb')
  /\ UNCHANGED <<record, proc, verb, state, reported, overlapped>>

\* ... and what was read is reported as a failed check.
TellDeath(c) ==
  /\ pc[c] = "report" /\ Return(c)
  /\ reported' = IF state[c] # None /\ reported[state[c]] < 2
                 THEN [reported EXCEPT ![state[c]] = @ + 1] ELSE reported
  /\ UNCHANGED <<files, proc, verb, faults, mishaps, overlapped>>

-----------------------------------------------------------------------------

\* A command is interrupted or killed before its next step.
Interrupted(c) ==
  /\ pc[c] # "idle" /\ Return(c)
  /\ Mishap(<<"cut", pc[c]>>)
  /\ UNCHANGED <<files, proc, verb, reported, overlapped>>

\* The supervised process dies by itself.
Dies(n) ==
  /\ proc[n] = "live"
  /\ proc' = [proc EXCEPT ![n] = "died"]
  /\ UNCHANGED <<files, pc, verb, state, reported, faults, mishaps, overlapped>>

\* A command under way takes its next step.
Continue(c) ==
  \/ Bury(c) \/ ClearDead(c)
  \/ SpawnRefused(c) \/ Spawn(c) \/ WriteRecord(c) \/ Undo(c) \/ Supersede(c)
  \/ StopKill(c) \/ StopClear(c)
  \/ ReadTomb(c) \/ UnlinkTomb(c) \/ TellDeath(c)

Next ==
  \/ \E c \in Commands : Continue(c) \/ Interrupted(c) \/ \E v \in Verbs[c] : Begin(c, v)
  \/ \E n \in Incarnations : Dies(n)

\* A command that was issued ends.  The timer that runs `watch` fires again and
\* again, whatever else its slot is used for: a liveness_check always comes.
Fairness ==
  \A c \in Commands :
    /\ WF_vars(Continue(c))
    /\ SF_vars("check" \in Verbs[c] /\ Begin(c, "check"))

Spec     == Init /\ [][Next]_vars
FairSpec == Spec /\ Fairness

-----------------------------------------------------------------------------
(* Properties. *)

Steps == {"idle", "bury", "clearDead", "spawn", "write", "undo", "supersede",
          "kill", "clear", "consume", "unlink", "report"}

\* Every variable holds a value of its kind.
TypeOK ==
  /\ record \in Maybe /\ tomb \in Maybe
  /\ proc     \in [Incarnations -> {"unborn", "live", "died", "killed"}]
  /\ pc       \in [Commands -> Steps]
  /\ verb     \in [Commands -> {"start", "stop", "check", "status"}]
  /\ state    \in [Commands -> Maybe]
  /\ reported \in [Incarnations -> 0..2]
  /\ faults   \in 0..MaxFaults
  /\ mishaps  \in SUBSET ({"failed", "cut"} \X Steps)
  /\ overlapped \in BOOLEAN

\* However the commands interleave, the tombstone and every failed check name a
\* process that is really gone: no live service is ever alerted as dead.
DeathsAreReal ==
  /\ tomb # None => Gone(tomb)
  /\ \A n \in Incarnations : reported[n] > 0 => Gone(n)

Quiet == \A c \in Commands : pc[c] = "idle"

\* "Untracked-but-running is not a state this supervisor offers" (start): unless
\* two commands were ever under way at once, or a start was cut short before its
\* record was written or its launch undone, what runs between commands is what the
\* state file names, whatever write or unlink fails.
NoneUntracked ==
  ~overlapped /\ ~Cut("write") /\ ~Cut("undo") /\ Quiet =>
    \A n \in Incarnations : Live(n) => record = n

\* "A death is reported once", by commands that do not overlap, unless a file that
\* names the dead could not be unlinked; and a project that "stopped cleanly carries
\* no process check to misread" (liveness_check), where cleanly is: the stop was not
\* cut short, and its state file unlinked.
DeathReportedOnce ==
  ~overlapped => \A n \in Incarnations :
    /\ reported[n] > 1 => Failed("clearDead") \/ Failed("unlink")
    /\ reported[n] > 0 /\ proc[n] = "killed" => Failed("clear") \/ Cut("clear")

\* What commands one at a time keep exact: the state file, and the alerts.
OneAtATimeIsExact == NoneUntracked /\ DeathReportedOnce

\* What a death may be lost to: a tombstone that could not be written, a check cut
\* short between consuming it and reporting, or a later launch that superseded it.
Excused(n) ==
  Failed("bury") \/ Cut("report") \/ \E m \in Incarnations : m > n /\ proc[m] # "unborn"

\* A death survives being noticed elsewhere first: once the tracked process has
\* died by itself and no command is half done, a watch pass reports it, however
\* many renders, stops and other passes find it before.
DeathSurfaces ==
  \A n \in Incarnations :
    record = n /\ proc[n] = "died" /\ Quiet ~> reported[n] > 0 \/ Excused(n)
=============================================================================
