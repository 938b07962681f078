------------------------------- MODULE Commands -------------------------------
(***************************************************************************)
(* Bounded commands and the end of process groups: runner.run_command with *)
(* _kill_tree and _drain, procs.is_our_process and procs.terminate_group,  *)
(* over the processes a shell command leaves behind: children that leave   *)
(* the group, ignore SIGTERM, or hold the command's pipes after the shell  *)
(* is gone, and a pid the kernel gives to somebody else.                   *)
(***************************************************************************)
EXTENDS Naturals, FiniteSets

CONSTANTS
  Shell,      \* the process the command starts, leader of its group
  Children    \* the processes it may start

CommandsAssumption == Shell \notin Children

VARIABLES
  proc,     \* each process: none | running | zombie | gone; its group, pipe and temper
  exit,     \* how the shell ended: none, 0, 1 or killed
  at,       \* the call: idle | communicate | drain | signal | grace | done
  call,     \* run_command or terminate_group
  late,     \* its time limit has passed
  result,   \* what it returned
  ticks,    \* the shell's start time: compared | never recorded | unreadable, in /proc
  stranger, \* the shell's pid belongs to somebody else's process: none | running | killed
  parent    \* the caller is the shell's parent, and reaps it

vars == <<proc, exit, at, call, late, result, ticks, stranger, parent>>
rest == <<call, ticks, parent>>

Procs == {Shell} \cup Children
None  == [state |-> "none", inGroup |-> FALSE, pipe |-> FALSE, deaf |-> FALSE]
Alive(p)  == proc[p].state = "running"
Group     == {p \in Procs : Alive(p) /\ proc[p].inGroup}
PipeHeld  == \E p \in Procs : Alive(p) /\ proc[p].pipe

Ticks == {"compared", "never recorded", "unreadable"}

TypeOK ==
  /\ proc \in [Procs -> [state : {"none", "running", "zombie", "gone"}, inGroup : BOOLEAN,
                         pipe : BOOLEAN, deaf : BOOLEAN]]
  /\ at \in {"idle", "communicate", "drain", "signal", "grace", "done"}
  /\ call \in {"run_command", "terminate_group"} /\ {late, parent} \subseteq BOOLEAN
  /\ ticks \in Ticks
  /\ result \in {"", "error", "ok", "failed", "timed out", "output lost", "not ours", "stopped",
                "escalated"}
  /\ stranger \in {"none", "running", "killed"}

\* terminate_group is given a command that was started earlier, detached or not.
Init ==
  /\ exit = "none" /\ at = "idle" /\ late = FALSE /\ result = "" /\ stranger = "none"
  /\ call \in {"run_command", "terminate_group"} /\ ticks \in Ticks /\ parent \in BOOLEAN
  /\ call = "run_command" => parent /\ ticks = "compared"
  /\ \E deaf \in BOOLEAN :
       proc = [p \in Procs |-> IF p = Shell /\ call = "terminate_group"
                               THEN [state |-> "running", inGroup |-> TRUE, pipe |-> FALSE, deaf |-> deaf]
                               ELSE None]

\* A killed or finished process: the shell stays a zombie until its parent reaps it.
Ended(p) == [proc[p] EXCEPT !.state = IF p = Shell /\ parent THEN "zombie" ELSE "gone"]
Kill(victims) ==
  /\ proc' = [p \in Procs |-> IF p \in victims /\ Alive(p) THEN Ended(p) ELSE proc[p]]
  /\ exit' = IF Shell \in victims /\ Alive(Shell) THEN "killed" ELSE exit
Return(r) == at' = "done" /\ result' = r
Reaped == [proc EXCEPT ![Shell].state = IF @ = "zombie" THEN "gone" ELSE @]

-----------------------------------------------------------------------------
(* run_command. *)

Popen ==
  /\ at = "idle" /\ call = "run_command"
  /\ \/ Return("error") /\ UNCHANGED proc
     \/ /\ at' = "communicate" /\ UNCHANGED result
        /\ proc' = [proc EXCEPT ![Shell] = [state |-> "running", inGroup |-> TRUE, pipe |-> TRUE, deaf |-> FALSE]]
  /\ UNCHANGED <<exit, late, stranger, rest>>

\* communicate returns once nobody holds the pipes, then waits for the shell.
Communicate ==
  /\ at = "communicate" /\ ~PipeHeld /\ ~Alive(Shell)
  /\ Return(IF exit = "0" THEN "ok" ELSE "failed") /\ proc' = Reaped
  /\ UNCHANGED <<exit, late, stranger, rest>>

\* Mutant: only the shell is killed.
KillShell == Kill({Shell})

KillTree == Kill(Group \cup {Shell})

TimeoutExpired ==
  /\ at = "communicate" /\ late
  /\ KillTree /\ at' = "drain" /\ late' = FALSE
  /\ UNCHANGED <<result, stranger, rest>>

\* Mutant: the drain waits for the pipes.
DrainUnbounded == ~PipeHeld

DrainReady == ~PipeHeld \/ late

Drain ==
  /\ at = "drain" /\ DrainReady
  /\ Return(IF PipeHeld THEN "output lost" ELSE "timed out")
  /\ proc' = IF PipeHeld THEN proc ELSE Reaped
  /\ UNCHANGED <<exit, late, stranger, rest>>

-----------------------------------------------------------------------------
(* terminate_group on a recorded pid, as the supervisor and runs call it. *)

\* pid_alive reaps the shell when it is the caller's child.
PidAlive == Alive(Shell) \/ stranger = "running"

\* Mutant: whoever is alive under the pid is ours.
AliveIsOurs == PidAlive

\* Without a start time on both sides, whoever is alive is taken for ours.
IsOurProcess == Alive(Shell) \/ (stranger = "running" /\ ticks # "compared")

CheckOurs ==
  /\ at = "idle" /\ call = "terminate_group" /\ proc' = Reaped
  /\ IF IsOurProcess THEN at' = "signal" /\ UNCHANGED result ELSE Return("not ours")
  /\ UNCHANGED <<exit, late, stranger, rest>>

\* The group is signalled only when the pid leads it, alive or unreaped; a stranger here
\* leads a group of its own.
Sigterm ==
  /\ at = "signal"
  /\ IF proc[Shell].state # "gone"
     THEN Kill({p \in Group : ~proc[p].deaf}) /\ at' = "grace" /\ UNCHANGED <<result, stranger>>
     ELSE /\ UNCHANGED <<proc, exit>>
          /\ IF stranger = "running" THEN stranger' = "killed" /\ at' = "grace" /\ UNCHANGED result
                                     ELSE Return("stopped") /\ UNCHANGED stranger
  /\ UNCHANGED <<late, rest>>

\* Mutant: no escalation.
GiveUp == UNCHANGED <<proc, exit>>

Sigkill == Kill(Group)

\* The grace period looks at the leader only; its end escalates without a look.
Grace ==
  /\ at = "grace"
  /\ \/ ~PidAlive /\ proc' = Reaped /\ UNCHANGED exit /\ Return("stopped")
     \/ late /\ Sigkill /\ Return("escalated")
  /\ UNCHANGED <<late, stranger, rest>>

-----------------------------------------------------------------------------
(* The processes and the clock. *)

Expire == /\ at \in {"communicate", "drain", "grace"} /\ ~late /\ late' = TRUE
          /\ UNCHANGED <<proc, exit, at, result, stranger, rest>>

\* A child inherits its parent's group and pipes, and may be deaf to SIGTERM.
Fork(p, c) ==
  /\ Alive(p) /\ c \in Children /\ proc[c].state = "none"
  /\ \E deaf \in BOOLEAN : proc' = [proc EXCEPT ![c] = [proc[p] EXCEPT !.deaf = deaf]]
  /\ UNCHANGED <<exit, at, late, result, stranger, rest>>
\* Any process but the leader may leave the group, and any may close the pipes.
Setsid(p) == /\ Alive(p) /\ p # Shell /\ proc[p].inGroup
             /\ proc' = [proc EXCEPT ![p].inGroup = FALSE]
             /\ UNCHANGED <<exit, at, late, result, stranger, rest>>
ClosePipe(p) == /\ Alive(p) /\ proc[p].pipe /\ proc' = [proc EXCEPT ![p].pipe = FALSE]
                /\ UNCHANGED <<exit, at, late, result, stranger, rest>>
Exits(p) ==
  /\ Alive(p) /\ proc' = [proc EXCEPT ![p] = Ended(p)]
  /\ exit' \in IF p = Shell THEN {"0", "1"} ELSE {exit}
  /\ UNCHANGED <<at, late, result, stranger, rest>>
\* The kernel reuses the pid, never within one stop.
Recycle == /\ at = "idle" /\ proc[Shell].state = "gone" /\ stranger = "none" /\ stranger' = "running"
           /\ UNCHANGED <<proc, exit, at, late, result, rest>>

Caller == Popen \/ Communicate \/ TimeoutExpired \/ Drain \/ CheckOurs \/ Sigterm \/ Grace
World == \/ Expire \/ Recycle
         \/ \E p \in Procs : Setsid(p) \/ ClosePipe(p) \/ Exits(p) \/ \E c \in Children : Fork(p, c)
Next == Caller \/ World
Fairness == WF_vars(Caller) /\ WF_vars(Expire)
Spec == Init /\ [][Next]_vars /\ Fairness

-----------------------------------------------------------------------------
\* "A timeout can kill the whole tree instead of only /bin/sh", "a recycled pid ... is
\* emphatically not ours to signal": a command is ok only when its shell exited 0 by
\* itself; a timed-out one leaves nothing running in its group; a stop leaves no leader
\* running, and no group once it had to escalate; and a stranger is never signalled when
\* the start time was recorded and can be read again.  Not claimed: a group whose leader exits in the grace
\* period may live on.
ResultsAreTrue ==
  /\ result = "ok" => exit = "0"
  /\ result \in {"timed out", "output lost"} => Group = {}
  /\ result \in {"stopped", "escalated"} => ~Alive(Shell)
  /\ result = "escalated" => Group = {}
  /\ stranger = "killed" => ticks # "compared"

\* "Hard timeout": every call returns, whatever its processes do.
CallsReturn == at # "idle" ~> at = "done"
=============================================================================
