---------------------------- MODULE OperationsProofs ----------------------------
(***************************************************************************)
(* Operations, proved for all its constants, scene by scene.  Every step   *)
(* of the composition is a step of each part or leaves that part alone     *)
(* (StepsApart), and each part's invariant holds in its initial states and *)
(* where it stands still: so each holds throughout (Invariance).           *)
(***************************************************************************)
EXTENDS Operations, Integers, Sequences, WellFoundedInduction, TLAPS

-----------------------------------------------------------------------------
(* Commands: what run_command and terminate_group return.                  *)
(*                                                                         *)
(* CommandInv adds what makes a verdict last: a dead shell stays dead, an  *)
(* empty group stays empty, because a child inherits its parent's group,   *)
(* and the pid is somebody else's only once the shell is gone.             *)

Process == [state : {"none", "running", "zombie", "gone"}, inGroup : BOOLEAN,
           pipe : BOOLEAN, deaf : BOOLEAN]

\* The shell leads its group; the pid is recycled after it is gone, and is only
\* signalled then when there was no start time to compare.
ShellLeads ==
  /\ proc[Shell].state # "none" => proc[Shell].inGroup
  /\ stranger # "none" => proc[Shell].state = "gone"
  /\ at = "idle" /\ call = "run_command" => proc[Shell].state = "none"
  /\ at = "signal" /\ stranger = "running" => ticks # "compared"
  /\ stranger = "killed" => ticks # "compared"

\* What each verdict rests on.
Ends == {"ok", "failed", "timed out", "output lost", "stopped", "escalated"}
Emptied == {"timed out", "output lost", "escalated"}

VerdictStands ==
  /\ result # "" => at = "done"
  /\ result \in Ends => ~C!Alive(Shell)
  /\ at = "drain" => ~C!Alive(Shell)
  /\ at = "drain" \/ result \in Emptied => \A p \in C!Procs : ~(C!Alive(p) /\ proc[p].inGroup)
  /\ result = "ok" => exit = "0"

ProcessesTyped == proc \in [C!Procs -> Process]
CommandInv == ProcessesTyped /\ ShellLeads /\ VerdictStands

\* The shell of a command is one of its processes.
LEMMA ShellIsAProcess == Shell \in C!Procs
  BY DEF C!Procs

\* At the start nothing runs.
LEMMA CommandInit == C!Init => CommandInv
  <1> SUFFICES ASSUME C!Init PROVE CommandInv
    OBVIOUS
  <1>1. PICK deaf \in BOOLEAN :
          proc = [p \in C!Procs |-> IF p = Shell /\ call = "terminate_group"
                   THEN [state |-> "running", inGroup |-> TRUE, pipe |-> FALSE, deaf |-> deaf]
                   ELSE C!None]
    BY DEF C!Init
  <1>2. ProcessesTyped
    BY <1>1 DEF ProcessesTyped, Process, C!None
  <1>3. /\ proc[Shell].state # "none" => proc[Shell].inGroup
        /\ call = "run_command" => proc[Shell].state = "none"
    BY <1>1, ShellIsAProcess DEF C!None
  <1>4. at = "idle" /\ stranger = "none" /\ result = ""
    BY DEF C!Init
  <1> QED
    BY <1>2, <1>3, <1>4 DEF CommandInv, ShellLeads, VerdictStands, Ends, Emptied

\* Killing ends processes and starts none.
LEMMA Kills ==
  ASSUME ProcessesTyped, NEW victims \in SUBSET C!Procs, C!Kill(victims)
  PROVE  /\ ProcessesTyped'
         /\ \A p \in C!Procs :
              /\ proc'[p].inGroup = proc[p].inGroup
              /\ p \in victims => ~C!Alive(p)'
              /\ ~C!Alive(p) => proc'[p] = proc[p]
              /\ C!Alive(p)' => C!Alive(p)
              /\ proc'[p].state # proc[p].state => proc'[p].state \in {"zombie", "gone"}
  <1>1. \A p \in C!Procs : C!Ended(p) \in Process /\ C!Ended(p).state \in {"zombie", "gone"}
                         /\ C!Ended(p).inGroup = proc[p].inGroup
    BY DEF ProcessesTyped, Process, C!Ended
  <1>2. \A p \in C!Procs : proc'[p] = IF p \in victims /\ C!Alive(p) THEN C!Ended(p) ELSE proc[p]
    BY DEF C!Kill
  <1>3. ProcessesTyped'
    BY <1>1, <1>2 DEF ProcessesTyped, C!Kill
  <1> QED
    BY <1>1, <1>2, <1>3 DEF C!Alive

\* It leaves the shell leading, and the pid with whom it was.
LEMMA KillsShell ==
  ASSUME CommandInv, NEW victims \in SUBSET C!Procs, C!Kill(victims)
  PROVE  /\ proc'[Shell].state # "none" => proc'[Shell].inGroup
         /\ stranger # "none" => proc'[Shell].state = "gone"
         /\ ~C!Alive(Shell) => ~C!Alive(Shell)'
         /\ exit' = IF Shell \in victims /\ C!Alive(Shell) THEN "killed" ELSE exit
  <1>1. ProcessesTyped /\ proc[Shell].inGroup \in BOOLEAN
    BY ShellIsAProcess DEF CommandInv, ProcessesTyped, Process
  <1>2. /\ proc'[Shell].inGroup = proc[Shell].inGroup
        /\ ~C!Alive(Shell) => proc'[Shell] = proc[Shell]
    BY <1>1, Kills, ShellIsAProcess
  <1> QED
    BY <1>1, <1>2 DEF CommandInv, ShellLeads, C!Alive, C!Kill

\* Reaping turns a zombie into nothing.
LEMMA Reaps ==
  ASSUME ProcessesTyped, proc' = C!Reaped
  PROVE  /\ ProcessesTyped'
         /\ \A p \in C!Procs :
              /\ proc'[p].inGroup = proc[p].inGroup /\ (C!Alive(p)' <=> C!Alive(p))
              /\ proc[p].state = "gone" => proc'[p].state = "gone"
              /\ proc[p].state = "none" => proc'[p].state = "none"
              /\ proc'[p].state = "none" => proc[p].state = "none"
  <1>1. \/ proc' = [proc EXCEPT ![Shell].state = "gone"] /\ proc[Shell].state = "zombie"
        \/ proc' = [proc EXCEPT ![Shell].state = proc[Shell].state]
    BY ShellIsAProcess DEF C!Reaped, ProcessesTyped
  <1> QED
    BY <1>1, ShellIsAProcess DEF ProcessesTyped, Process, C!Alive

-----------------------------------------------------------------------------

\* The caller's steps.
LEMMA CallerStays == ASSUME CommandInv, C!Caller PROVE CommandInv'
  <1> USE ShellIsAProcess DEF C!rest
  <1>0. ProcessesTyped /\ proc[Shell] \in Process
    BY DEF CommandInv, ProcessesTyped
  <1>1. CASE C!Popen
    <2>1. CASE UNCHANGED proc
      BY <1>1, <2>1 DEF C!Popen, C!Return, CommandInv, ProcessesTyped, ShellLeads, VerdictStands, Ends, Emptied, C!Alive
    <2>2. CASE /\ at' = "communicate" /\ UNCHANGED result
               /\ proc' = [proc EXCEPT ![Shell] = [state |-> "running", inGroup |-> TRUE,
                                                   pipe |-> TRUE, deaf |-> FALSE]]
      BY <1>1, <2>2 DEF C!Popen, CommandInv, ProcessesTyped, Process, ShellLeads, VerdictStands, Ends, Emptied
    <2> QED
      BY <1>1, <2>1, <2>2 DEF C!Popen
  <1>2. CASE C!Communicate
    BY <1>0, <1>2, Reaps
    DEF C!Communicate, C!Return, CommandInv, ShellLeads, VerdictStands, Ends, Emptied, C!Alive
  <1>3. CASE C!TimeoutExpired
    <2>1. C!Kill(C!Group \cup {Shell}) /\ C!Group \cup {Shell} \in SUBSET C!Procs
      BY <1>3 DEF C!TimeoutExpired, C!KillTree, C!Group
    <2>2. \A p \in C!Procs : ~(C!Alive(p)' /\ proc'[p].inGroup)
      BY <1>0, <2>1, Kills DEF C!Group
    <2> QED
      <3>1. ProcessesTyped' /\ ~C!Alive(Shell)'
        BY <1>0, <2>1, Kills
      <3>2. /\ at = "communicate" /\ at' = "drain" /\ result' = result
            /\ UNCHANGED <<stranger, ticks, call>>
        BY <1>3 DEF C!TimeoutExpired
      <3>3. result = ""
        BY <3>2 DEF CommandInv, VerdictStands
      <3>4. ShellLeads'
        BY <2>1, <3>2, KillsShell DEF CommandInv, ShellLeads
      <3> QED
        BY <2>2, <3>1, <3>2, <3>3, <3>4 DEF CommandInv, VerdictStands, Ends, Emptied
  <1>4. CASE C!Drain
    <2>1. proc' = proc \/ proc' = C!Reaped
      BY <1>4 DEF C!Drain
    <2> QED
      BY <1>0, <1>4, <2>1, Reaps
      DEF C!Drain, C!Return, CommandInv, ProcessesTyped, ShellLeads, VerdictStands, Ends, Emptied, C!Alive
  <1>5. CASE C!CheckOurs
    BY <1>0, <1>5, Reaps
    DEF C!CheckOurs, C!IsOurProcess, C!Return, CommandInv, ShellLeads, VerdictStands, Ends, Emptied, C!Alive
  <1>6. CASE C!Sigterm
    <2>1. CASE C!Kill({p \in C!Group : ~proc[p].deaf}) /\ at' = "grace"
               /\ UNCHANGED <<result, stranger>> /\ proc[Shell].state # "gone"
      <3>1. {p \in C!Group : ~proc[p].deaf} \in SUBSET C!Procs
        BY DEF C!Group
      <3>2. ProcessesTyped'
        BY <1>0, <2>1, <3>1, Kills
      <3>3. at = "signal" /\ result = "" /\ UNCHANGED <<ticks, call>>
        BY <1>6 DEF C!Sigterm, CommandInv, VerdictStands
      <3>4. ShellLeads'
        BY <2>1, <3>1, <3>3, KillsShell DEF CommandInv, ShellLeads
      <3> QED
        BY <2>1, <3>2, <3>3, <3>4 DEF CommandInv, VerdictStands, Ends, Emptied
    <2>2. CASE /\ proc[Shell].state = "gone" /\ UNCHANGED <<proc, exit>>
               /\ IF stranger = "running"
                  THEN stranger' = "killed" /\ at' = "grace" /\ UNCHANGED result
                  ELSE C!Return("stopped") /\ UNCHANGED stranger
      BY <1>6, <2>2
      DEF C!Sigterm, C!Return, CommandInv, ProcessesTyped, ShellLeads, VerdictStands, Ends, Emptied, C!Alive
    <2> QED
      BY <1>6, <2>1, <2>2 DEF C!Sigterm
  <1>7. CASE C!Grace
    <2>1. CASE ~C!PidAlive /\ proc' = C!Reaped /\ UNCHANGED exit /\ C!Return("stopped")
      BY <1>0, <1>7, <2>1, Reaps
      DEF C!Grace, C!PidAlive, C!Return, CommandInv, ShellLeads, VerdictStands, Ends, Emptied, C!Alive
    <2>2. CASE C!Kill(C!Group) /\ C!Return("escalated")
      <3>1. C!Group \in SUBSET C!Procs
        BY DEF C!Group
      <3>2. \A p \in C!Procs : ~(C!Alive(p)' /\ proc'[p].inGroup)
        BY <1>0, <2>2, <3>1, Kills DEF C!Group
      <3>3. ~C!Alive(Shell)'
        BY <1>0, <2>2, <3>1, <3>2, Kills DEF CommandInv, ShellLeads, C!Alive
      <3>4. ProcessesTyped'
        BY <1>0, <2>2, <3>1, Kills
      <3>5. at' = "done" /\ result' = "escalated" /\ UNCHANGED <<stranger, ticks, call>>
        BY <1>7, <2>2 DEF C!Grace, C!Return
      <3>6. ShellLeads'
        BY <2>2, <3>1, <3>5, KillsShell DEF CommandInv, ShellLeads
      <3> QED
        BY <3>2, <3>3, <3>4, <3>5, <3>6 DEF CommandInv, VerdictStands, Ends, Emptied
    <2> QED
      BY <1>7, <2>1, <2>2 DEF C!Grace, C!Sigkill
  <1> QED
    BY <1>1, <1>2, <1>3, <1>4, <1>5, <1>6, <1>7 DEF C!Caller

\* The processes' own: a child is born where its parent is.
LEMMA WorldStays == ASSUME C!CommandsAssumption, CommandInv, C!World PROVE CommandInv'
  <1> USE ShellIsAProcess DEF C!rest
  <1>1. CASE C!Expire
    BY <1>1 DEF C!Expire, CommandInv, ProcessesTyped, ShellLeads, VerdictStands, C!Alive
  <1>2. CASE C!Recycle
    BY <1>2 DEF C!Recycle, CommandInv, ProcessesTyped, ShellLeads, VerdictStands, C!Alive
  <1>3. ASSUME NEW p \in C!Procs, C!Setsid(p) PROVE CommandInv'
    BY <1>3 DEF C!Setsid, CommandInv, ProcessesTyped, Process, ShellLeads, VerdictStands, C!Alive
  <1>4. ASSUME NEW p \in C!Procs, C!ClosePipe(p) PROVE CommandInv'
    BY <1>4 DEF C!ClosePipe, CommandInv, ProcessesTyped, Process, ShellLeads, VerdictStands, C!Alive
  <1>5. ASSUME NEW p \in C!Procs, C!Exits(p) PROVE CommandInv'
    BY <1>5 DEF C!Exits, C!Ended, CommandInv, ProcessesTyped, Process, ShellLeads, VerdictStands, Ends, C!Alive
  <1>6. ASSUME NEW p \in C!Procs, NEW c \in Children, C!Fork(p, c) PROVE CommandInv'
    <2>1. PICK deaf \in BOOLEAN : proc' = [proc EXCEPT ![c] = [proc[p] EXCEPT !.deaf = deaf]]
      BY <1>6 DEF C!Fork
    <2>2. c \in C!Procs /\ c # Shell /\ C!Alive(p)
      BY <1>6 DEF C!Fork, C!CommandsAssumption, C!Procs
    <2>3. /\ ProcessesTyped' /\ proc'[Shell] = proc[Shell]
          /\ \A o \in C!Procs \ {c} : proc'[o] = proc[o]
          /\ proc'[c].inGroup = proc[p].inGroup
      BY <2>1, <2>2 DEF CommandInv, ProcessesTyped, Process
    <2>4. ASSUME \A o \in C!Procs : ~(C!Alive(o) /\ proc[o].inGroup), NEW o \in C!Procs
          PROVE  ~(C!Alive(o)' /\ proc'[o].inGroup)
      BY <2>2, <2>3, <2>4 DEF C!Alive
    <2>5. UNCHANGED <<exit, at, late, result, stranger, call, ticks>>
      BY <1>6 DEF C!Fork
    <2> QED
      BY <2>3, <2>4, <2>5 DEF CommandInv, ShellLeads, VerdictStands, C!Alive
  <1> QED
    BY <1>1, <1>2, <1>3, <1>4, <1>5, <1>6 DEF C!World

\* Every step keeps the invariant, stuttering included.
LEMMA CommandStep == C!CommandsAssumption /\ CommandInv /\ [C!Next]_(C!vars) => CommandInv'
  <1> SUFFICES ASSUME C!CommandsAssumption, CommandInv, [C!Next]_(C!vars) PROVE CommandInv'
    OBVIOUS
  <1>1. CASE UNCHANGED C!vars
    BY <1>1 DEF C!vars, C!rest, CommandInv, ProcessesTyped, ShellLeads, VerdictStands, C!Alive
  <1> QED
    BY <1>1, CallerStays, WorldStays DEF C!Next


-----------------------------------------------------------------------------
(* Digest: the baseline of the audits.                                     *)
(*                                                                         *)
(* The accounted findings only grow, for an audit leaves "emit" by telling *)
(* what it found or by dying.  What an audit is about to save is new, or   *)
(* was in a baseline it loaded and so accounted for before.                *)

\* Told, lost, or in the hands of an audit that is about to report.
Accounted == told \cup lost \cup UNION {audit[a].new : a \in {b \in Audits : audit[b].at = "emit"}}

AuditPlaces == {"idle", "collect", "compute", "save", "emit", "done", "killed"}
AuditRecord  == [at : AuditPlaces, selected : SUBSET Projects, current : SUBSET Findings,
           new : SUBSET Findings, resolved : SUBSET Findings, rc : {0, 1, 2}]

AuditsOK ==
  /\ audit \in [Audits -> AuditRecord]
  /\ \A a \in Audits :
       /\ audit[a].at \in {"collect", "compute", "save"} => audit[a].selected # {}
       /\ audit[a].at = "save" => audit[a].current \subseteq audit[a].new \cup Accounted

DigestInv == baseline \subseteq Accounted /\ baseline \subseteq Findings /\ issues \subseteq Findings /\ AuditsOK

-----------------------------------------------------------------------------

\* An audit's step is one of these.
AuditStep(a) == \/ G!Begin(a) \/ G!Collect(a) \/ G!ComputeDigest(a) \/ G!SaveCurrent(a)
                \/ G!Emit(a) \/ G!Again(a) \/ G!Killed(a)

\* The initial state satisfies the invariant.
LEMMA DigestInit == G!Init => DigestInv
  BY DEF G!Init, DigestInv, AuditsOK, Accounted, G!Fresh, AuditRecord, AuditPlaces

\* Nobody but a is touched, and a's fields stay in their kinds.
LEMMA AuditStepTypes ==
  ASSUME DigestInv, NEW a \in Audits, AuditStep(a)
  PROVE  /\ audit' \in [Audits -> AuditRecord]
         /\ \A b \in Audits \ {a} : audit'[b] = audit[b]
         /\ baseline' \subseteq Findings /\ issues' = issues
         /\ audit'[a].at \in {"collect", "compute", "save"} => audit'[a].selected # {}
  <1> USE DEF DigestInv, AuditsOK
  <1>0. audit \in [Audits -> AuditRecord] /\ audit[a] \in AuditRecord
    OBVIOUS
  <1>1. CASE G!Begin(a)
    <2>1. PICK fleet \in {Projects, {}} : \E narrowed \in {fleet} \cup {{p} : p \in fleet} :
             audit' = IF G!Unresolved(fleet)
                      THEN [audit EXCEPT ![a].at = "done", ![a].rc = 2]
                      ELSE [audit EXCEPT ![a].at = "collect", ![a].selected = narrowed]
      BY <1>1 DEF G!Begin
    <2>2. PICK narrowed \in {fleet} \cup {{p} : p \in fleet} :
             audit' = IF G!Unresolved(fleet)
                      THEN [audit EXCEPT ![a].at = "done", ![a].rc = 2]
                      ELSE [audit EXCEPT ![a].at = "collect", ![a].selected = narrowed]
      BY <2>1
    <2>3. narrowed \subseteq Projects /\ (~G!Unresolved(fleet) => narrowed # {})
      BY DEF G!Unresolved
    <2>4. CASE G!Unresolved(fleet)
      <3>1. audit' = [audit EXCEPT ![a].at = "done", ![a].rc = 2]
        BY <2>2, <2>4
      <3> QED
        BY <1>0, <1>1, <3>1 DEF G!Begin, AuditRecord, AuditPlaces
    <2>5. CASE ~G!Unresolved(fleet)
      <3>1. audit' = [audit EXCEPT ![a].at = "collect", ![a].selected = narrowed]
        BY <2>2, <2>5
      <3>2. narrowed \in SUBSET Projects /\ narrowed # {}
        BY <2>3, <2>5
      <3> QED
        BY <1>0, <1>1, <3>1, <3>2 DEF G!Begin, AuditRecord, AuditPlaces
    <2> QED
      BY <2>4, <2>5
  <1>2. CASE G!Collect(a)
    <2>1. G!Of(issues, audit[a].selected) \subseteq Findings
      BY DEF G!Of
    <2> QED
      BY <1>0, <1>2, <2>1 DEF G!Collect, AuditRecord, AuditPlaces
  <1>3. CASE G!ComputeDigest(a)
    <2>1. PICK prior \in G!LoadPrior(a) :
             audit' = [audit EXCEPT ![a].at = "save", ![a].new = audit[a].current \ prior,
                                    ![a].resolved = prior \ audit[a].current]
      BY <1>3 DEF G!ComputeDigest
    <2>2. prior \subseteq Findings
      BY DEF G!LoadPrior
    <2>3. audit[a].current \ prior \in SUBSET Findings /\ prior \ audit[a].current \in SUBSET Findings
      BY <1>0, <2>2 DEF AuditRecord
    <2> QED
      BY <1>0, <1>3, <2>1, <2>3 DEF G!ComputeDigest, AuditRecord, AuditPlaces
  <1>4. CASE G!SaveCurrent(a)
    <2>1. audit[a].current \subseteq Findings
      BY <1>0 DEF AuditRecord
    <2> QED
      BY <1>0, <1>4, <2>1 DEF G!SaveCurrent, AuditRecord, AuditPlaces
  <1>5. CASE G!Emit(a)
    <2>1. audit' = [audit EXCEPT ![a].at = "done", ![a].rc = IF audit[a].new # {} THEN 1 ELSE 0]
      BY <1>5 DEF G!Emit
    <2>2. PICK code \in {0, 1, 2} : audit' = [audit EXCEPT ![a].at = "done", ![a].rc = code]
      <3>1. CASE audit[a].new = {}
        BY <2>1, <3>1
      <3>2. CASE audit[a].new # {}
        BY <2>1, <3>2
      <3> QED
        BY <3>1, <3>2
    <2>3. UNCHANGED <<issues, baseline>>
      BY <1>5 DEF G!Emit
    <2> QED
      BY <1>0, <2>2, <2>3 DEF AuditRecord, AuditPlaces
  <1>6. CASE G!Again(a)
    BY <1>0, <1>6 DEF G!Again, AuditRecord, AuditPlaces, G!Fresh
  <1>7. CASE G!Killed(a)
    BY <1>0, <1>7 DEF G!Killed, AuditRecord, AuditPlaces
  <1> QED
    BY <1>1, <1>2, <1>3, <1>4, <1>5, <1>6, <1>7 DEF AuditStep

\* What is accounted for stays so: an audit leaves "emit" by telling or by dying.
LEMMA AccountedGrows ==
  ASSUME DigestInv, NEW a \in Audits, AuditStep(a)
  PROVE  Accounted \subseteq Accounted'
  <1>1. \A b \in Audits \ {a} : audit'[b] = audit[b]
    BY AuditStepTypes
  <1>2. told \subseteq told' /\ lost \subseteq lost'
    BY DEF AuditStep, G!Begin, G!Collect, G!ComputeDigest, G!SaveCurrent, G!Emit, G!Again, G!Killed
  <1>3. audit[a].at = "emit" => audit[a].new \subseteq told' \cup lost'
    BY DEF AuditStep, G!Begin, G!Collect, G!ComputeDigest, G!SaveCurrent, G!Emit, G!Again, G!Killed
  <1> QED
    BY <1>1, <1>2, <1>3 DEF Accounted

\* The step of an audit keeps the invariant.
LEMMA AuditStepIInv ==
  ASSUME DigestInv, NEW a \in Audits, AuditStep(a)
  PROVE  DigestInv'
  <1> USE DEF DigestInv, AuditsOK
  <1>0. audit \in [Audits -> AuditRecord]
    OBVIOUS
  <1>1. Accounted \subseteq Accounted'
    BY AccountedGrows
  <1>2. /\ audit' \in [Audits -> AuditRecord]
        /\ \A b \in Audits \ {a} : audit'[b] = audit[b]
        /\ baseline' \subseteq Findings /\ issues' = issues
        /\ audit'[a].at \in {"collect", "compute", "save"} => audit'[a].selected # {}
    BY AuditStepTypes
  <1>3. audit'[a].at = "save" => audit'[a].current \subseteq audit'[a].new \cup Accounted
    <2>1. CASE G!ComputeDigest(a)
      <3>1. PICK prior \in G!LoadPrior(a) :
               audit' = [audit EXCEPT ![a].at = "save", ![a].new = audit[a].current \ prior,
                                      ![a].resolved = prior \ audit[a].current]
        BY <2>1 DEF G!ComputeDigest
      <3>2. prior \subseteq Accounted
        BY DEF G!LoadPrior
      <3>3. audit'[a].new = audit[a].current \ prior /\ audit'[a].current = audit[a].current
        BY <1>0, <3>1 DEF AuditRecord
      <3> QED
        BY <3>2, <3>3
    <2>2. CASE ~G!ComputeDigest(a)
      <3>1. audit'[a].at # "save"
        BY <1>0, <2>2 DEF AuditStep, G!Begin, G!Collect, G!SaveCurrent, G!Emit, G!Again, G!Killed, AuditRecord, G!Fresh
      <3> QED
        BY <3>1
    <2> QED
      BY <2>1, <2>2
  <1>4. baseline' \subseteq Accounted'
    <2>1. CASE G!SaveCurrent(a)
      <3>1. audit[a].at = "save" /\ baseline' \in {audit[a].current, baseline}
        BY <2>1 DEF G!SaveCurrent
      <3>2. audit'[a].at = "emit" /\ audit'[a].new = audit[a].new
        BY <1>0, <2>1 DEF G!SaveCurrent, AuditRecord
      <3>3. audit'[a].new \subseteq Accounted'
        BY <3>2 DEF Accounted
      <3> QED
        BY <1>1, <3>1, <3>2, <3>3
    <2>2. CASE ~G!SaveCurrent(a)
      <3>1. baseline' = baseline
        BY <2>2 DEF AuditStep, G!Begin, G!Collect, G!ComputeDigest, G!Emit, G!Again, G!Killed
      <3> QED
        BY <1>1, <3>1
    <2> QED
      BY <2>1, <2>2
  <1> QED
    BY <1>1, <1>2, <1>3, <1>4

\* Every step keeps the invariant.
LEMMA DigestStep == DigestInv /\ [G!Next]_(G!vars) => DigestInv'
  <1> SUFFICES ASSUME DigestInv, [G!Next]_(G!vars) PROVE DigestInv'
    OBVIOUS
  <1>1. ASSUME NEW a \in Audits, AuditStep(a) PROVE DigestInv'
    BY <1>1, AuditStepIInv
  <1>2. CASE G!Shift
    BY <1>2 DEF G!Shift, DigestInv, AuditsOK, Accounted
  <1>3. CASE UNCHANGED G!vars
    BY <1>3 DEF G!vars, DigestInv, AuditsOK, Accounted
  <1> QED
    BY <1>1, <1>2, <1>3 DEF G!Next, AuditStep

-----------------------------------------------------------------------------
(* Numbers. *)

\* A nonempty set of naturals has a least member.
LEMMA SmallestExists ==
  ASSUME NEW S, S \subseteq Nat, S # {}
  PROVE  \E n \in S : \A m \in S : n <= m
  <1>1. \E x \in S : \A y \in S : ~(<<y, x>> \in OpToRel(<, Nat))
    BY NatLessThanWellFounded, WFMin
  <1>2. PICK x \in S : \A y \in S : ~(<<y, x>> \in OpToRel(<, Nat))
    BY <1>1
  <1>3. \A y \in S : ~(y < x)
    BY <1>2 DEF OpToRel
  <1> QED
    BY <1>3

\* A nonempty set of runs has a newest one, and Max is it: n less the least of what is
\* left of n above each of them.
LEMMA MaxExists ==
  ASSUME NEW n \in Nat, NEW S \in SUBSET (1..n), S # {}
  PROVE  D!Max(S) \in S /\ \A y \in S : y <= D!Max(S)
  <1> DEFINE U == {n - x : x \in S}
  <1>1. U \subseteq Nat /\ U # {}
    <2>1. \A x \in S : n - x \in Nat
      OBVIOUS
    <2> QED
      BY <2>1
  <1>2. PICK u \in U : \A v \in U : u <= v
    <2> HIDE DEF U
    <2> QED
      BY <1>1, SmallestExists
  <1>3. PICK x \in S : u = n - x
    OBVIOUS
  <1>4. \A y \in S : y <= x
    <2> SUFFICES ASSUME NEW y \in S PROVE y <= x
      OBVIOUS
    <2>1. n - y \in U
      OBVIOUS
    <2>2. n - x <= n - y
      BY <1>2, <1>3, <2>1
    <2> QED
      BY <2>2
  <1>5. \E z \in S : \A y \in S : z >= y
    BY <1>4
  <1> QED
    BY <1>5 DEF D!Max

-----------------------------------------------------------------------------
(* Deploys: what a deploy's exit code says.                                *)
(*                                                                         *)
(* DeployInv follows each command from its flags to its exit code: it owns *)
(* no run before its dispatch, and one after a dispatch that was answered; *)
(* a state is only settled by a run above the floor, and everything listed *)
(* before the dispatch is at or below it.                                  *)

Run == [by : Operators \cup {Ci}, listed : BOOLEAN, state : {"running", "success", "failure"}]
DeployCommand ==
  [at : {"idle", "mark", "dispatch", "poll", "exit", "done"}, apply : BOOLEAN, wait : BOOLEAN,
   floor : Nat \cup {-1}, blind : BOOLEAN, before : SUBSET Nat,
   status : {"", "skipped", "no-workflow", "planned", "dispatched", "failed"}, late : BOOLEAN,
   saw : BOOLEAN, reached : BOOLEAN,
   state : {"", "succeeded", "failed", "timed-out", "unconfirmed", "unknown"}, rc : {0, 1, 2}]
DeploysTyped == runs \in Seq(Run) /\ cmd \in [Operators -> DeployCommand]

\* A run of its own is started by the dispatch of a command that applies, alone.
StartsItsOwn(o, c) ==
  /\ c.at \in {"idle", "mark", "dispatch"} \/ ~c.apply \/ c.rc = 2 => D!Own(o) = {}
  /\ c.rc = 2 => c.at = "done"
  /\ c.status = "dispatched" => D!Own(o) # {} /\ c.apply
  /\ c.at = "poll" => c.status = "dispatched"

\* A wait that goes well has seen a run above the floor succeed.
Settles(c) ==
  /\ c.wait => c.apply
  /\ c.state # "" => c.at \in {"exit", "done"}
  /\ c.at \in {"exit", "done"} /\ c.wait /\ c.status = "dispatched" => c.state # ""
  /\ c.at = "done" /\ c.rc = 0 => c.state \in {"", "succeeded"}
                                  /\ (c.apply => c.status = "dispatched")
  /\ c.state = "succeeded" => \E i \in D!Listed : runs[i].state = "success" /\ i > c.floor
  /\ ~c.blind => \A j \in c.before : j <= c.floor

DeployInv == DeploysTyped /\ \A o \in Operators : StartsItsOwn(o, cmd[o]) /\ Settles(cmd[o])

\* At the start, and where it stands still, no command has begun.
LEMMA DeployInit == D!Init \/ DeployStill => DeployInv
  <1> SUFFICES ASSUME D!Init \/ DeployStill PROVE DeployInv
    OBVIOUS
  <1>1. cmd = [o \in Operators |-> D!Idle]
    BY DEF D!Init, DeployStill
  <1>2. D!Idle \in DeployCommand
    BY DEF D!Idle, DeployCommand
  <1>3. runs = <<>> \/ runs = <<[by |-> Ci, listed |-> TRUE, state |-> "success"]>>
    BY DEF D!Init, DeployStill
  <1>4. runs \in Seq(Run) /\ \A i \in DOMAIN runs : runs[i].by = Ci
    <2> DEFINE run == [by |-> Ci, listed |-> TRUE, state |-> "success"]
    <2>1. run \in Run /\ run.by = Ci
      BY DEF Run
    <2>2. CASE runs = <<>>
      BY <2>2
    <2>3. CASE runs = <<run>>
      <3> HIDE DEF run, Run
      <3>1. runs \in Seq(Run) /\ DOMAIN runs = {1} /\ runs[1] = run
        BY <2>1, <2>3
      <3> QED
        BY <2>1, <3>1
    <2> QED
      BY <1>3, <2>2, <2>3
  <1>5. \A o \in Operators : D!Own(o) = {}
    BY <1>4, OperationsAssumption DEF D!Own, D!DeploysAssumption
  <1>6. DeploysTyped
    BY <1>1, <1>2, <1>4 DEF DeploysTyped
  <1>7. ASSUME NEW o \in Operators PROVE StartsItsOwn(o, cmd[o]) /\ Settles(cmd[o])
    <2>1. cmd[o] = D!Idle
      BY <1>1
    <2>2. /\ D!Idle.at = "idle" /\ D!Idle.apply = FALSE /\ D!Idle.wait = FALSE /\ D!Idle.rc = 0
          /\ D!Idle.rc # 2 /\ D!Idle.status = "" /\ D!Idle.state = "" /\ D!Idle.before = {}
      BY DEF D!Idle
    <2>3. StartsItsOwn(o, cmd[o])
      <3>1. D!Own(o) = {}
        BY <1>5
      <3> QED
        BY <2>1, <2>2, <3>1 DEF StartsItsOwn
    <2>4. Settles(cmd[o])
      BY <2>1, <2>2 DEF Settles
    <2> QED
      BY <2>3, <2>4
  <1> QED
    BY <1>6, <1>7 DEF DeployInv

\* The forge: runs are appended, never renamed, and what was listed or succeeded stays so.
LEMMA RunsGrow ==
  ASSUME DeploysTyped, D!Next
  PROVE  /\ runs' \in Seq(Run) /\ DOMAIN runs \subseteq DOMAIN runs'
         /\ \A i \in DOMAIN runs :
              /\ runs'[i].by = runs[i].by
              /\ runs[i].listed => runs'[i].listed
              /\ runs[i].state = "success" => runs'[i].state = "success"
         /\ \A i \in DOMAIN runs' \ DOMAIN runs :
              \/ runs'[i].by = Ci
              \/ \E o \in Operators : runs'[i].by = o /\ D!Dispatch(o) /\ D!Preflight(o) = ""
  <1> USE DEF DeploysTyped
  <1>1. CASE UNCHANGED runs
    BY <1>1
  <1>2. ASSUME NEW b \in Operators \cup {Ci},
               runs' = Append(runs, [by |-> b, listed |-> FALSE, state |-> "running"])
        PROVE  /\ runs' \in Seq(Run) /\ DOMAIN runs \subseteq DOMAIN runs'
               /\ \A i \in DOMAIN runs : runs'[i] = runs[i]
               /\ \A i \in DOMAIN runs' \ DOMAIN runs : runs'[i].by = b
    <2>1. [by |-> b, listed |-> FALSE, state |-> "running"] \in Run
      BY DEF Run
    <2> QED
      BY <1>2, <2>1
  <1>3. ASSUME NEW i \in DOMAIN runs, NEW r \in Run, runs' = [runs EXCEPT ![i] = r]
        PROVE  runs' \in Seq(Run) /\ DOMAIN runs' = DOMAIN runs
               /\ runs'[i] = r /\ \A j \in DOMAIN runs \ {i} : runs'[j] = runs[j]
    BY <1>3
  <1>4. CASE D!CiStarts
    BY <1>2, <1>4 DEF D!CiStarts
  <1>5. CASE D!Lists
    <2>1. PICK i \in DOMAIN runs : runs' = [runs EXCEPT ![i].listed = TRUE]
      BY <1>5 DEF D!Lists
    <2>2. runs' = [runs EXCEPT ![i] = [runs[i] EXCEPT !.listed = TRUE]]
      BY <2>1
    <2>3. /\ [runs[i] EXCEPT !.listed = TRUE] \in Run
          /\ [runs[i] EXCEPT !.listed = TRUE].by = runs[i].by
          /\ [runs[i] EXCEPT !.listed = TRUE].state = runs[i].state
          /\ [runs[i] EXCEPT !.listed = TRUE].listed
      <3>1. runs[i] \in Run
        OBVIOUS
      <3> QED
        BY <3>1 DEF Run
    <2> QED
      BY <1>3, <2>2, <2>3
  <1>6. CASE D!Completes
    <2>1. PICK i \in DOMAIN runs, s \in {"success", "failure"} :
            runs[i].state = "running" /\ runs' = [runs EXCEPT ![i].state = s]
      BY <1>6 DEF D!Completes, D!Listed
    <2>2. runs' = [runs EXCEPT ![i] = [runs[i] EXCEPT !.state = s]]
      BY <2>1
    <2>3. /\ [runs[i] EXCEPT !.state = s] \in Run
          /\ [runs[i] EXCEPT !.state = s].by = runs[i].by
          /\ [runs[i] EXCEPT !.state = s].listed = runs[i].listed
      <3>1. runs[i] \in Run
        OBVIOUS
      <3> QED
        BY <3>1 DEF Run
    <2> QED
      BY <1>3, <2>1, <2>2, <2>3
  <1>7. ASSUME NEW o \in Operators, D!Dispatch(o)
        PROVE  \/ UNCHANGED runs
               \/ /\ D!Preflight(o) = ""
                  /\ runs' = Append(runs, [by |-> o, listed |-> FALSE, state |-> "running"])
    BY <1>7 DEF D!Dispatch
  <1>8. ASSUME NEW o \in Operators, D!Operator(o), ~D!Dispatch(o) PROVE UNCHANGED runs
    BY <1>8 DEF D!Operator, D!Begin, D!Mark, D!Poll, D!Exit, D!Deadline
  <1>9. ASSUME NEW o \in Operators, D!Dispatch(o),  D!Preflight(o) = "",
               runs' = Append(runs, [by |-> o, listed |-> FALSE, state |-> "running"])
        PROVE  \A i \in DOMAIN runs' \ DOMAIN runs :
                 \E a \in Operators : runs'[i].by = a /\ D!Dispatch(a) /\ D!Preflight(a) = ""
    BY <1>2, <1>9
  <1> QED
    BY <1>1, <1>2, <1>4, <1>5, <1>6, <1>7, <1>8, <1>9 DEF D!Next

\* What others do leaves a command what it is.
LEMMA OthersStay ==
  ASSUME DeployInv, D!Next, NEW o \in Operators, cmd'[o] = cmd[o]
  PROVE  StartsItsOwn(o, cmd[o])' /\ Settles(cmd[o])'
  <1>1. ~D!Dispatch(o)
    <2> SUFFICES ASSUME D!Dispatch(o) PROVE FALSE
      OBVIOUS
    <2>1. cmd'[o].at # "dispatch"
      <3>1. cmd \in [Operators -> DeployCommand] /\ cmd[o] \in DeployCommand
        BY DEF DeployInv, DeploysTyped
      <3>2. CASE D!Preflight(o) # ""
        BY <3>1, <3>2 DEF D!Dispatch, D!Become, DeployCommand
      <3>3. CASE D!Preflight(o) = ""
        <4>1. PICK ok \in BOOLEAN :
                cmd' = [cmd EXCEPT ![o] = [cmd[o] EXCEPT !.status = IF ok THEN "dispatched" ELSE "failed",
                                             !.at = IF ok /\ cmd[o].wait THEN "poll" ELSE "exit"]]
          BY <3>3 DEF D!Dispatch, D!Become
        <4> QED
          BY <3>1, <4>1 DEF DeployCommand
      <3> QED
        BY <3>2, <3>3
    <2> QED
      BY <2>1 DEF D!Dispatch
  <1>2. D!Own(o)' = D!Own(o)
    <2>1. \A i \in DOMAIN runs' \ DOMAIN runs : runs'[i].by # o
      BY <1>1, RunsGrow, OperationsAssumption DEF DeployInv, D!DeploysAssumption
    <2> QED
      BY <2>1, RunsGrow DEF D!Own, DeployInv
  <1>3. StartsItsOwn(o, cmd[o])'
    BY <1>2 DEF DeployInv, StartsItsOwn
  <1>4. Settles(cmd[o])'
    <2>1. \A i \in D!Listed : runs[i].state = "success" =>
             i \in D!Listed' /\ runs'[i].state = "success"
      BY RunsGrow DEF D!Listed, DeployInv
    <2>2. Settles(cmd[o])
      BY DEF DeployInv
    <2>3. cmd[o].state = "succeeded" =>
            \E i \in D!Listed' : runs'[i].state = "success" /\ i > cmd[o].floor
      BY <2>1, <2>2 DEF Settles
    <2> QED
      BY <2>2, <2>3 DEF Settles
  <1> QED
    BY <1>3, <1>4

\* A command becomes another record of its kind, and nobody else's changes.
LEMMA Becomes ==
  ASSUME DeploysTyped, NEW o \in Operators, NEW c \in DeployCommand, D!Become(o, c)
  PROVE  /\ cmd' \in [Operators -> DeployCommand] /\ cmd'[o] = c
         /\ \A a \in Operators \ {o} : cmd'[a] = cmd[a]
  BY DEF DeploysTyped, D!Become

\* The listed runs are numbers of runs, and the newest is one of them.
LEMMA NewestListed ==
  ASSUME DeploysTyped, NEW S \in SUBSET D!Listed, S # {}
  PROVE  D!Max(S) \in S /\ \A i \in S : i <= D!Max(S)
  <1>1. Len(runs) \in Nat /\ S \in SUBSET (1..Len(runs))
    BY DEF DeploysTyped, D!Listed
  <1> QED
    BY <1>1, MaxExists

\* The step of a command: it becomes a record of its kind that keeps its promises.
StepsWell(o) ==
  /\ cmd' \in [Operators -> DeployCommand]
  /\ \A a \in Operators \ {o} : cmd'[a] = cmd[a]
  /\ StartsItsOwn(o, cmd[o])' /\ Settles(cmd[o])'

\* A step that starts no run is judged by the record it leaves.
LEMMA StepsBeside ==
  ASSUME DeployInv, NEW o \in Operators, NEW c \in DeployCommand, D!Become(o, c), UNCHANGED runs,
         StartsItsOwn(o, c), Settles(c)
  PROVE  StepsWell(o)
  <1>1. /\ cmd' \in [Operators -> DeployCommand] /\ cmd'[o] = c
        /\ \A a \in Operators \ {o} : cmd'[a] = cmd[a]
    BY Becomes DEF DeployInv
  <1>2. D!Own(o)' = D!Own(o) /\ D!Listed' = D!Listed
    BY DEF D!Own, D!Listed
  <1> QED
    BY <1>1, <1>2 DEF StepsWell, StartsItsOwn, Settles

\* What the flags make of a command that has not begun.
LEMMA BeginsWell ==
  ASSUME DeployInv, NEW o \in Operators, D!Begin(o)
  PROVE  StepsWell(o)
  <1>0. cmd[o] \in DeployCommand /\ StartsItsOwn(o, cmd[o]) /\ Settles(cmd[o])
    BY DEF DeployInv, DeploysTyped
  <1>1. PICK apply \in BOOLEAN, wait \in BOOLEAN, place \in {"done", "mark", "dispatch"},
              code \in {0, 2} :
          /\ D!Become(o, [cmd[o] EXCEPT !.apply = apply, !.wait = wait, !.at = place, !.rc = code])
          /\ wait => apply
          /\ IF place = "done" THEN code = 2 ELSE code = 0
    <2> DEFINE Chosen(apply, wait) ==
                 D!Become(o, [cmd[o] EXCEPT !.apply = apply, !.wait = wait,
                   !.at = IF wait /\ kind = "gitlab" THEN "done" ELSE IF wait THEN "mark" ELSE "dispatch",
                   !.rc = IF wait /\ kind = "gitlab" THEN 2 ELSE 0])
    <2>0. PICK apply \in BOOLEAN : \E wait \in {FALSE, apply} : Chosen(apply, wait)
      BY DEF D!Begin
    <2>1. PICK wait \in BOOLEAN : (wait => apply) /\ Chosen(apply, wait)
      <3> HIDE DEF Chosen
      <3> QED
        BY <2>0
    <2>2. CASE wait /\ kind = "gitlab"
      BY <2>1, <2>2
    <2>3. CASE wait /\ kind # "gitlab"
      BY <2>1, <2>3
    <2>4. CASE ~wait
      BY <2>1, <2>4
    <2> QED
      BY <2>2, <2>3, <2>4
  <1> DEFINE c == [cmd[o] EXCEPT !.apply = apply, !.wait = wait, !.at = place, !.rc = code]
  <1>2. /\ c \in DeployCommand /\ c.apply = apply /\ c.wait = wait /\ c.at = place /\ c.rc = code
    BY <1>0 DEF DeployCommand
  <1>3. /\ c.status = cmd[o].status /\ c.state = cmd[o].state /\ c.floor = cmd[o].floor
        /\ c.blind = cmd[o].blind /\ c.before = cmd[o].before
    BY <1>0 DEF DeployCommand
  <1>4. D!Own(o) = {} /\ cmd[o].status # "dispatched" /\ cmd[o].at = "idle" /\ UNCHANGED runs
    BY <1>0 DEF D!Begin, StartsItsOwn
  <1> HIDE DEF c
  <1>5. (c.rc = 2 <=> c.at = "done") /\ (c.rc = 0 <=> c.at # "done")
    BY <1>1, <1>2
  <1>6. StartsItsOwn(o, c)
    BY <1>1, <1>2, <1>3, <1>4, <1>5 DEF StartsItsOwn
  <1>7. Settles(c)
    BY <1>0, <1>1, <1>2, <1>3, <1>4, <1>5 DEF Settles
  <1> QED
    BY <1>1, <1>2, <1>4, <1>6, <1>7, StepsBeside DEF c

\* The floor is the newest run listed before the dispatch, or nothing is claimed of it.
LEMMA MarksWell ==
  ASSUME DeployInv, NEW o \in Operators, D!Mark(o)
  PROVE  StepsWell(o)
  <1>0. DeploysTyped /\ cmd[o] \in DeployCommand /\ StartsItsOwn(o, cmd[o]) /\ Settles(cmd[o])
    BY DEF DeployInv, DeploysTyped
  <1>1. PICK ok \in BOOLEAN :
          D!Become(o, [cmd[o] EXCEPT !.at = "dispatch", !.blind = ~ok, !.before = D!Listed,
                         !.floor = IF ok /\ D!Listed # {} THEN D!Max(D!Listed) ELSE -1])
    BY DEF D!Mark
  <1>2. D!Listed \subseteq Nat
    BY <1>0 DEF DeploysTyped, D!Listed
  <1>3. PICK floor \in Nat \cup {-1}, blind \in BOOLEAN :
          /\ D!Become(o, [cmd[o] EXCEPT !.at = "dispatch", !.blind = blind, !.before = D!Listed,
                                        !.floor = floor])
          /\ ~blind => \A j \in D!Listed : j <= floor
    <2>1. CASE ok /\ D!Listed # {}
      <3>1. D!Max(D!Listed) \in D!Listed /\ \A j \in D!Listed : j <= D!Max(D!Listed)
        BY <1>0, <2>1, NewestListed
      <3> QED
        BY <1>1, <1>2, <2>1, <3>1
    <2>2. CASE D!Listed = {} \/ ~ok
      BY <1>1, <2>2
    <2> QED
      BY <2>1, <2>2
  <1> DEFINE c == [cmd[o] EXCEPT !.at = "dispatch", !.blind = blind, !.before = D!Listed,
                                 !.floor = floor]
  <1>4. /\ c \in DeployCommand /\ c.at = "dispatch" /\ c.blind = blind /\ c.before = D!Listed
        /\ c.floor = floor /\ c.apply = cmd[o].apply /\ c.wait = cmd[o].wait /\ c.rc = cmd[o].rc
        /\ c.status = cmd[o].status /\ c.state = cmd[o].state
    BY <1>0, <1>2 DEF DeployCommand
  <1>5. cmd[o].at = "mark" /\ UNCHANGED runs /\ D!Own(o) = {}
    BY <1>0 DEF D!Mark, StartsItsOwn
  <1> HIDE DEF c
  <1>6. StartsItsOwn(o, c)
    BY <1>0, <1>4, <1>5 DEF StartsItsOwn
  <1>7. c.state # "succeeded"
    BY <1>0, <1>4, <1>5 DEF Settles
  <1>8. Settles(c)
    <2>1. ~c.blind => \A j \in c.before : j <= c.floor
      BY <1>3, <1>4
    <2> QED
      BY <1>0, <1>4, <1>5, <1>7, <2>1 DEF Settles
  <1> QED
    BY <1>3, <1>4, <1>5, <1>6, <1>8, StepsBeside DEF c

\* The dispatch starts a run of the command's own, or says that it did not.
LEMMA DispatchesWell ==
  ASSUME DeployInv, D!Next, NEW o \in Operators, D!Dispatch(o)
  PROVE  StepsWell(o)
  <1>0. DeploysTyped /\ cmd[o] \in DeployCommand /\ StartsItsOwn(o, cmd[o]) /\ Settles(cmd[o])
    BY DEF DeployInv, DeploysTyped
  <1>1. cmd[o].at = "dispatch" /\ D!Own(o) = {} /\ cmd[o].rc # 2 /\ cmd[o].state = ""
    BY <1>0 DEF D!Dispatch, StartsItsOwn, Settles
  <1>2. CASE D!Preflight(o) # ""
    <2>1. PICK status \in {"skipped", "no-workflow", "planned"} :
            D!Become(o, [cmd[o] EXCEPT !.at = "exit", !.status = status])
      BY <1>2 DEF D!Dispatch, D!Preflight
    <2> DEFINE c == [cmd[o] EXCEPT !.at = "exit", !.status = status]
    <2>2. /\ c \in DeployCommand /\ c.at = "exit" /\ c.status = status
          /\ c.rc = cmd[o].rc /\ c.state = cmd[o].state /\ c.wait = cmd[o].wait
          /\ c.apply = cmd[o].apply
          /\ c.floor = cmd[o].floor /\ c.before = cmd[o].before /\ c.blind = cmd[o].blind
      BY <1>0 DEF DeployCommand
    <2>3. UNCHANGED runs
      BY <1>2 DEF D!Dispatch
    <2> HIDE DEF c
    <2>4. StartsItsOwn(o, c)
      BY <1>1, <2>2 DEF StartsItsOwn
    <2>5. Settles(c)
      BY <1>0, <1>1, <2>2 DEF Settles
    <2> QED
      BY <2>1, <2>2, <2>3, <2>4, <2>5, StepsBeside DEF c
  <1>3. CASE D!Preflight(o) = ""
    <2>1. PICK ok \in BOOLEAN, landed \in BOOLEAN :
            /\ ok => landed
            /\ D!Become(o, [cmd[o] EXCEPT !.status = IF ok THEN "dispatched" ELSE "failed",
                                          !.at = IF ok /\ cmd[o].wait THEN "poll" ELSE "exit"])
            /\ runs' = IF landed THEN Append(runs, [by |-> o, listed |-> FALSE, state |-> "running"])
                                 ELSE runs
      BY <1>3 DEF D!Dispatch
    <2> DEFINE c == [cmd[o] EXCEPT !.status = IF ok THEN "dispatched" ELSE "failed",
                                   !.at = IF ok /\ cmd[o].wait THEN "poll" ELSE "exit"]
    <2>2. /\ c \in DeployCommand /\ c.at = (IF ok /\ cmd[o].wait THEN "poll" ELSE "exit")
          /\ c.status = (IF ok THEN "dispatched" ELSE "failed")
          /\ c.rc = cmd[o].rc /\ c.state = cmd[o].state /\ c.wait = cmd[o].wait
          /\ c.apply = cmd[o].apply
          /\ c.floor = cmd[o].floor /\ c.before = cmd[o].before /\ c.blind = cmd[o].blind
      BY <1>0 DEF DeployCommand
    <2>3. cmd[o].apply
      BY <1>3 DEF D!Preflight
    <2> HIDE DEF c
    <2>4. /\ cmd' \in [Operators -> DeployCommand] /\ cmd'[o] = c
          /\ \A a \in Operators \ {o} : cmd'[a] = cmd[a]
      BY <1>0, <2>1, <2>2, Becomes DEF c
    <2>5. landed => D!Own(o)' # {}
      <3> SUFFICES ASSUME landed PROVE D!Own(o)' # {}
        OBVIOUS
      <3>1. /\ Len(runs) + 1 \in DOMAIN runs'
            /\ runs'[Len(runs) + 1] = [by |-> o, listed |-> FALSE, state |-> "running"]
        BY <1>0, <2>1 DEF DeploysTyped
      <3> QED
        BY <3>1 DEF D!Own
    <2>6. StartsItsOwn(o, cmd[o])'
      BY <1>1, <2>1, <2>2, <2>3, <2>4, <2>5 DEF StartsItsOwn
    <2>7. Settles(cmd[o])'
      BY <1>0, <1>1, <2>2, <2>4 DEF Settles
    <2> QED
      BY <2>4, <2>6, <2>7 DEF StepsWell
  <1> QED
    BY <1>2, <1>3

\* A poll settles the wait by the newest run above the floor, or at the deadline.
LEMMA PollsWell ==
  ASSUME DeployInv, NEW o \in Operators, D!Poll(o)
  PROVE  StepsWell(o)
  <1>0. DeploysTyped /\ cmd[o] \in DeployCommand /\ StartsItsOwn(o, cmd[o]) /\ Settles(cmd[o])
    BY DEF DeployInv, DeploysTyped
  <1>1. /\ cmd[o].at = "poll" /\ UNCHANGED runs /\ cmd[o].status = "dispatched" /\ D!Own(o) # {}
        /\ cmd[o].apply /\ cmd[o].rc # 2 /\ cmd[o].state = ""
    BY <1>0 DEF D!Poll, StartsItsOwn, Settles
  <1>2. \/ \E state \in {"succeeded", "failed", "timed-out", "unconfirmed", "unknown"} :
             /\ D!Become(o, [cmd[o] EXCEPT !.at = "exit", !.state = state])
             /\ state = "succeeded" =>
                  \E i \in D!Listed : runs[i].state = "success" /\ i > cmd[o].floor
        \/ \E saw, reached \in BOOLEAN :
             D!Become(o, [cmd[o] EXCEPT !.saw = saw, !.reached = reached])
    <2>1. PICK ok \in BOOLEAN :
            LET mine    == IF ok THEN D!OurRun(o) ELSE {}
                verdict == IF mine = {} THEN "" ELSE D!Classify(D!Max(mine))
                saw     == cmd[o].saw \/ mine # {}
                reached == cmd[o].reached \/ ok
                settled(state) == [cmd[o] EXCEPT !.at = "exit", !.state = state]
            IN  D!Become(o, IF verdict # "" THEN settled(verdict)
                            ELSE IF D!DeadlinePassed(o, saw) THEN settled(D!WaitDeadline(o, saw, reached))
                            ELSE [cmd[o] EXCEPT !.saw = saw, !.reached = reached])
      BY DEF D!Poll
    <2> DEFINE mine    == IF ok THEN D!OurRun(o) ELSE {}
               verdict == IF mine = {} THEN "" ELSE D!Classify(D!Max(mine))
               saw     == cmd[o].saw \/ mine # {}
               reached == cmd[o].reached \/ ok
    <2>2. CASE verdict # ""
      <3>1. mine \in SUBSET D!Listed /\ mine # {} /\ \A i \in mine : i > cmd[o].floor
        BY <2>2 DEF D!OurRun
      <3>2. D!Max(mine) \in mine
        <4> HIDE DEF mine
        <4> QED
          BY <1>0, <3>1, NewestListed
      <3>3. /\ verdict \in {"succeeded", "failed"}
            /\ verdict = "succeeded" => runs[D!Max(mine)].state = "success"
        <4> HIDE DEF mine
        <4> QED
          BY <2>2, <3>1 DEF D!Classify
      <3>4. D!Become(o, [cmd[o] EXCEPT !.at = "exit", !.state = verdict])
        BY <2>1, <2>2
      <3> HIDE DEF mine, verdict
      <3> QED
        BY <3>1, <3>2, <3>3, <3>4
    <2>3. CASE verdict = "" /\ D!DeadlinePassed(o, saw)
      <3>1. D!Become(o, [cmd[o] EXCEPT !.at = "exit", !.state = D!WaitDeadline(o, saw, reached)])
        BY <2>1, <2>3
      <3>2. D!WaitDeadline(o, saw, reached) \in {"timed-out", "unconfirmed", "unknown"}
        BY DEF D!WaitDeadline
      <3> QED
        BY <3>1, <3>2
    <2>4. CASE verdict = "" /\ ~D!DeadlinePassed(o, saw)
      <3>1. D!Become(o, [cmd[o] EXCEPT !.saw = saw, !.reached = reached])
        BY <2>1, <2>4
      <3>2. saw \in BOOLEAN /\ reached \in BOOLEAN
        OBVIOUS
      <3> HIDE DEF saw, reached
      <3> QED
        BY <3>1, <3>2
    <2> QED
      BY <2>2, <2>3, <2>4
  <1>3. ASSUME NEW state \in {"succeeded", "failed", "timed-out", "unconfirmed", "unknown"},
               D!Become(o, [cmd[o] EXCEPT !.at = "exit", !.state = state]),
               state = "succeeded" =>
                 \E i \in D!Listed : runs[i].state = "success" /\ i > cmd[o].floor
        PROVE  StepsWell(o)
    <2> DEFINE c == [cmd[o] EXCEPT !.at = "exit", !.state = state]
    <2>1. /\ c \in DeployCommand /\ c.at = "exit" /\ c.state = state
          /\ c.rc = cmd[o].rc /\ c.status = cmd[o].status /\ c.wait = cmd[o].wait
          /\ c.apply = cmd[o].apply
          /\ c.floor = cmd[o].floor /\ c.before = cmd[o].before /\ c.blind = cmd[o].blind
      BY <1>0 DEF DeployCommand
    <2>2. D!Become(o, c)
      BY <1>3
    <2> HIDE DEF c
    <2>3. StartsItsOwn(o, c)
      BY <1>1, <2>1 DEF StartsItsOwn
    <2>4. Settles(c)
      BY <1>0, <1>1, <1>3, <2>1 DEF Settles
    <2> QED
      BY <1>1, <2>1, <2>2, <2>3, <2>4, StepsBeside
  <1>4. ASSUME NEW saw \in BOOLEAN, NEW reached \in BOOLEAN,
               D!Become(o, [cmd[o] EXCEPT !.saw = saw, !.reached = reached])
        PROVE  StepsWell(o)
    <2> DEFINE c == [cmd[o] EXCEPT !.saw = saw, !.reached = reached]
    <2>1. /\ c \in DeployCommand /\ c.at = cmd[o].at /\ c.state = cmd[o].state
          /\ c.rc = cmd[o].rc /\ c.status = cmd[o].status /\ c.wait = cmd[o].wait
          /\ c.apply = cmd[o].apply
          /\ c.floor = cmd[o].floor /\ c.before = cmd[o].before /\ c.blind = cmd[o].blind
      BY <1>0 DEF DeployCommand
    <2>2. D!Become(o, c)
      BY <1>4
    <2> HIDE DEF c
    <2>3. StartsItsOwn(o, c) /\ Settles(c)
      BY <1>0, <2>1 DEF StartsItsOwn, Settles
    <2> QED
      BY <1>1, <2>1, <2>2, <2>3, StepsBeside
  <1> QED
    BY <1>2, <1>3, <1>4

\* The exit code of a command that is through, and the deadline of one that waits.
LEMMA EndsWell ==
  ASSUME DeployInv, NEW o \in Operators, D!Exit(o) \/ D!Deadline(o)
  PROVE  StepsWell(o)
  <1>0. DeploysTyped /\ cmd[o] \in DeployCommand /\ StartsItsOwn(o, cmd[o]) /\ Settles(cmd[o])
    BY DEF DeployInv, DeploysTyped
  <1>1. UNCHANGED runs
    BY DEF D!Exit, D!Deadline
  <1>2. CASE D!Exit(o)
    <2>1. PICK code \in {0, 1, 2} : code = D!DeployExitCode(o) /\ code # 2
      BY DEF D!DeployExitCode
    <2> DEFINE c == [cmd[o] EXCEPT !.at = "done", !.rc = code]
    <2>2. /\ c \in DeployCommand /\ c.at = "done" /\ c.rc = code /\ c.rc # 2
          /\ c.state = cmd[o].state /\ c.status = cmd[o].status /\ c.wait = cmd[o].wait
          /\ c.apply = cmd[o].apply
          /\ c.floor = cmd[o].floor /\ c.before = cmd[o].before /\ c.blind = cmd[o].blind
      BY <1>0, <2>1 DEF DeployCommand
    <2>3. D!Become(o, c) /\ cmd[o].at = "exit"
      BY <1>2, <2>1 DEF D!Exit
    <2>4. code = 0 => cmd[o].state \in {"", "succeeded"} /\ (cmd[o].apply => cmd[o].status = "dispatched")
      <3> SUFFICES ASSUME code = 0
                   PROVE  cmd[o].state \in {"", "succeeded"} /\ (cmd[o].apply => cmd[o].status = "dispatched")
        OBVIOUS
      <3> QED
        BY <1>0, <2>1 DEF D!DeployExitCode, DeployCommand
    <2> HIDE DEF c
    <2>5. StartsItsOwn(o, c)
      BY <1>0, <2>2, <2>3 DEF StartsItsOwn
    <2>6. Settles(c)
      BY <1>0, <2>2, <2>3, <2>4 DEF Settles
    <2> QED
      BY <1>1, <2>2, <2>3, <2>5, <2>6, StepsBeside
  <1>3. CASE D!Deadline(o)
    <2> DEFINE c == [cmd[o] EXCEPT !.late = TRUE]
    <2>1. /\ c \in DeployCommand /\ c.at = cmd[o].at /\ c.state = cmd[o].state
          /\ c.rc = cmd[o].rc /\ c.status = cmd[o].status /\ c.wait = cmd[o].wait
          /\ c.apply = cmd[o].apply
          /\ c.floor = cmd[o].floor /\ c.before = cmd[o].before /\ c.blind = cmd[o].blind
      BY <1>0 DEF DeployCommand
    <2>2. D!Become(o, c)
      BY <1>3 DEF D!Deadline
    <2> HIDE DEF c
    <2>3. StartsItsOwn(o, c) /\ Settles(c)
      BY <1>0, <2>1 DEF StartsItsOwn, Settles
    <2> QED
      BY <1>1, <2>1, <2>2, <2>3, StepsBeside
  <1> QED
    BY <1>2, <1>3

\* Every step keeps what is said of every command.
LEMMA DeployStep == DeployInv /\ [D!Next]_(D!vars) => DeployInv'
  <1> SUFFICES ASSUME DeployInv, [D!Next]_(D!vars) PROVE DeployInv'
    OBVIOUS
  <1>1. CASE UNCHANGED D!vars
    <2>1. UNCHANGED <<runs, cmd>>
      BY <1>1 DEF D!vars
    <2>2. \A o \in Operators : D!Own(o)' = D!Own(o)
      BY <2>1 DEF D!Own
    <2>3. D!Listed' = D!Listed
      BY <2>1 DEF D!Listed
    <2> QED
      BY <2>1, <2>2, <2>3 DEF DeployInv, DeploysTyped, StartsItsOwn, Settles
  <1>2. CASE D!Next
    <2>1. runs' \in Seq(Run)
      BY <1>2, RunsGrow DEF DeployInv
    <2>2. ASSUME NEW o \in Operators, D!Operator(o) PROVE DeployInv'
      <3>1. StepsWell(o)
        BY <1>2, <2>2, BeginsWell, MarksWell, DispatchesWell, PollsWell, EndsWell DEF D!Operator
      <3>2. \A a \in Operators \ {o} : StartsItsOwn(a, cmd[a])' /\ Settles(cmd[a])'
        BY <1>2, <3>1, OthersStay DEF StepsWell
      <3> QED
        BY <2>1, <3>1, <3>2 DEF StepsWell, DeployInv, DeploysTyped
    <2>3. CASE D!CiStarts \/ D!Lists \/ D!Completes
      <3>1. UNCHANGED cmd
        BY <2>3 DEF D!CiStarts, D!Lists, D!Completes
      <3> QED
        BY <1>2, <2>1, <3>1, OthersStay DEF DeployInv, DeploysTyped
    <2> QED
      BY <1>2, <2>2, <2>3 DEF D!Next
  <1> QED
    BY <1>1, <1>2

-----------------------------------------------------------------------------
(* Install: the exit codes of the dry run and the apply.                   *)
(*                                                                         *)
(* InstallInv says what each step of the command has made sure of, unless  *)
(* HEAD or origin moved since it began, or the tool was changed under its  *)
(* check: a problem found is remembered, one not found is not there, and a *)
(* tool's file that is not executable as it should be is a file that is    *)
(* there.                                                                  *)

Tool == [present : BOOLEAN, ours : BOOLEAN, first : BOOLEAN, metadata : Contents \cup {I!Absent},
         exec : [Files -> BOOLEAN], files : [Files -> Contents \cup {I!Absent}], extra : BOOLEAN]
ToolSound == tool \in Tool /\ \A f \in Files : tool.exec[f] # Mode[f] => tool.files[f] # I!Absent

InSync == head = upstream /\ onMain /\ ~linked
Looks  == {"files", "receipt", "metadata", "modes"}
FilesAgree == ~tool.extra /\ \A f \in Files : tool.files[f] = Snapshot[head][f]
Looked ==
  /\ step \in {"status", "fetch", "sync", "decide"} =>
       (linked => "worktree" \in problems) /\ (~onMain => "branch" \in problems)
  /\ step \in {"sync", "decide"} => "fetch" \in problems \/ fetched = upstream
  /\ step = "decide" => fetched = head \/ problems \cap {"no upstream", "sync"} # {}
  /\ step \in {"install", "read"} \cup Looks /\ mode = "apply" => InSync
  /\ step \in Looks => compared = head
  /\ step \in Looks \ {"files"} /\ problems = {} => FilesAgree
  /\ step \in {"metadata", "modes"} /\ problems = {} => tool.ours /\ tool.first
  /\ step = "modes" /\ problems = {} => tool.metadata = Snapshot[head][Pyproject]

BoxTyped == /\ {upstream, head} \subseteq Commits /\ fetched \in Commits \cup {0}
            /\ tree \in [I!Tracked -> Contents \cup {I!Absent}] /\ ignored \in BOOLEAN
ModeKnown == /\ step \in {"place", "status", "fetch", "sync", "decide"} => mode \in {"dry", "apply"}
             /\ step \in {"install", "read"} \cup Looks => mode \in {"apply", "check"}
InstallInv == BoxTyped /\ ToolSound /\ ModeKnown /\ (~moved => Looked)

\* Before anything is installed the tool is absent, and its exec bits are the tree's.
LEMMA NoToolIsSound == I!NoTool \in Tool /\ I!NoTool.exec = Mode
  BY OperationsAssumption DEF I!NoTool, Tool, I!InstallAssumption

\* At the start nothing has been asked yet.
LEMMA InstallInit == I!Init => InstallInv
  <1> SUFFICES ASSUME I!Init PROVE InstallInv
    OBVIOUS
  <1>1. BoxTyped
    BY OperationsAssumption DEF I!Init, I!InstallAssumption, BoxTyped
  <1>2. ToolSound
    BY NoToolIsSound DEF I!Init, ToolSound
  <1>3. step = "idle"
    BY DEF I!Init
  <1> QED
    BY <1>1, <1>2, <1>3 DEF InstallInv, Looked, ModeKnown, Looks

\* The questions asked before anything is installed.
LEMMA QuestionsStep ==
  ASSUME InstallInv, I!Place \/ I!Status \/ I!Fetch \/ I!Sync \/ I!Decide
  PROVE  InstallInv'
  <1> USE DEF InstallInv, ModeKnown, Looked, InSync, Looks, FilesAgree, I!Go, I!Return, I!People, I!box
  <1>1. CASE I!Place
    BY <1>1 DEF I!Place, BoxTyped, ToolSound
  <1>2. CASE I!Status
    BY <1>2 DEF I!Status, BoxTyped, ToolSound
  <1>3. CASE I!Fetch
    BY <1>3 DEF I!Fetch, I!Fetches, BoxTyped, ToolSound
  <1>4. CASE I!Sync
    BY <1>4 DEF I!Sync, BoxTyped, ToolSound
  <1>5. CASE I!Decide
    BY <1>5 DEF I!Decide, BoxTyped, ToolSound
  <1> QED
    BY <1>1, <1>2, <1>3, <1>4, <1>5

\* The install.
LEMMA InstallsStep ==
  ASSUME InstallInv, I!Begin \/ I!UvInstall \/ I!ReadHead \/ I!Refused
  PROVE  InstallInv'
  <1> USE DEF InstallInv, ModeKnown, Looked, InSync, Looks, FilesAgree, I!Go, I!Return, I!People, I!box
  <1>1. CASE I!Begin
    BY <1>1 DEF I!Begin, BoxTyped, ToolSound
  <1>2. CASE I!UvInstall
    <2>1. ToolSound'
      <3> DEFINE new == [present |-> TRUE, ours |-> TRUE, first |-> tool.first,
                         metadata |-> tree[Pyproject], exec |-> Mode,
                         files |-> [f \in Files |-> tree[f]], extra |-> ignored]
                 old == [I!NoTool EXCEPT !.first = tool.first]
      <3>1. new \in Tool /\ new.exec = Mode
        BY OperationsAssumption DEF I!InstallAssumption, I!Tracked, BoxTyped, ToolSound, Tool
      <3>2. old \in Tool /\ old.exec = Mode
        BY NoToolIsSound DEF ToolSound, Tool
      <3>3. tool' \in {new, old, tool}
        BY <1>2 DEF I!UvInstall
      <3> QED
        BY <3>1, <3>2, <3>3 DEF ToolSound
    <2> QED
      BY <1>2, <2>1 DEF I!UvInstall, I!AfterInstall, BoxTyped
  <1>3. CASE I!ReadHead
    BY <1>3 DEF I!ReadHead, BoxTyped, ToolSound
  <1>4. CASE I!Refused
    BY <1>4 DEF I!Refused, BoxTyped, ToolSound
  <1> QED
    BY <1>1, <1>2, <1>3, <1>4

\* What the check finds of the files is so of every one of them.
LEMMA FilesFound ==
  ASSUME compared = head, I!Missing \cup I!Modified \cup I!NotInTree = {}, NEW f \in Files
  PROVE  tool.files[f] = Snapshot[head][f]
  BY DEF I!Wanted, I!Missing, I!Modified, I!NotInTree

\* The check: each look remembers what it found.
LEMMA LooksStep ==
  ASSUME InstallInv, I!LookAtFiles \/ I!LookAtReceipt \/ I!LookAtMetadata \/ I!LookAtModes
  PROVE  InstallInv'
  <1> USE DEF InstallInv, ModeKnown, InSync, Looks, FilesAgree, I!Look, I!Go, I!Return, I!People, I!box
  <1>1. CASE I!LookAtFiles
    <2>1. ~moved /\ problems' = {} => FilesAgree
      BY <1>1, FilesFound DEF I!LookAtFiles, Looked
    <2> QED
      BY <1>1, <2>1 DEF I!LookAtFiles, Looked, BoxTyped, ToolSound
  <1>2. CASE I!LookAtReceipt
    BY <1>2 DEF I!LookAtReceipt, I!Receipt, I!OnPath, Looked, BoxTyped, ToolSound
  <1>3. CASE I!LookAtMetadata
    BY <1>3 DEF I!LookAtMetadata, I!Metadata, Looked, BoxTyped, ToolSound
  <1>4. CASE I!LookAtModes
    BY <1>4 DEF I!LookAtModes, Looked, BoxTyped, ToolSound
  <1> QED
    BY <1>1, <1>2, <1>3, <1>4

\* People change the box and the tool, and what they move is remembered.
LEMMA PeopleStep ==
  ASSUME InstallInv, I!Edit \/ I!Hide \/ I!Ignore \/ I!MergeUpstream \/ I!Checkout \/ I!Tamper
  PROVE  InstallInv'
  <1> USE DEF InstallInv, ModeKnown, Looked, InSync, Looks, FilesAgree, I!Change, I!run, I!box
  <1>1. CASE I!Edit
    <2>1. tree' \in [I!Tracked -> Contents \cup {I!Absent}]
      BY <1>1 DEF I!Edit, BoxTyped
    <2> QED
      BY <1>1, <2>1 DEF I!Edit, BoxTyped, ToolSound
  <1>2. CASE I!Hide
    BY <1>2 DEF I!Hide, BoxTyped, ToolSound
  <1>3. CASE I!Ignore
    BY <1>3 DEF I!Ignore, BoxTyped, ToolSound
  <1>4. CASE I!MergeUpstream
    <2>1. upstream' \in Commits
      BY <1>4, OperationsAssumption DEF I!MergeUpstream, I!InstallAssumption
    <2> QED
      BY <1>4, <2>1 DEF I!MergeUpstream, BoxTyped, ToolSound
  <1>5. CASE I!Checkout
    <2>1. PICK c \in Commits : /\ head' = c /\ tree' = Snapshot[c] /\ onMain' = (c \in Trunk)
                               /\ fetched' = IF c \in Trunk THEN upstream ELSE fetched
      BY <1>5 DEF I!Checkout
    <2>2. tree' \in [I!Tracked -> Contents \cup {I!Absent}]
      BY <2>1, OperationsAssumption DEF I!InstallAssumption
    <2>3. moved' /\ fetched' \in Commits \cup {0}
      BY <1>5, <2>1 DEF I!Checkout, BoxTyped
    <2>4. BoxTyped'
      BY <1>5, <2>1, <2>2, <2>3 DEF I!Checkout, BoxTyped
    <2>5. ToolSound' /\ ModeKnown'
      BY <1>5 DEF I!Checkout, ToolSound
    <2> QED
      BY <2>3, <2>4, <2>5
  <1>6. CASE I!Tamper
    <2>1. ToolSound'
      <3>1. CASE tool' = [tool EXCEPT !.first = ~@]
        BY <3>1 DEF ToolSound, Tool
      <3>2. CASE tool' = [tool EXCEPT !.ours = FALSE]
        BY <3>2 DEF ToolSound, Tool
      <3>3. ASSUME NEW f \in Files, tool.files[f] # I!Absent, tool' = [tool EXCEPT !.exec[f] = ~@]
            PROVE  ToolSound'
        BY <3>3 DEF ToolSound, Tool
      <3> QED
        BY <1>6, <3>1, <3>2, <3>3 DEF I!Tamper
    <2> QED
      BY <1>6, <2>1 DEF I!Tamper, BoxTyped
  <1> QED
    BY <1>1, <1>2, <1>3, <1>4, <1>5, <1>6

\* Every step of the command and of the people around it keeps the invariant.
LEMMA InstallStep == InstallInv /\ [I!Next]_(I!vars) => InstallInv'
  <1>1. ASSUME InstallInv, UNCHANGED I!vars PROVE InstallInv'
    <2>1. UNCHANGED <<upstream, fetched, head, onMain, linked, tree, ignored, tool, step, mode, problems,
                      compared, moved>>
      BY <1>1 DEF I!vars, I!box, I!run
    <2>2. UNCHANGED BoxTyped /\ UNCHANGED ToolSound /\ UNCHANGED ModeKnown /\ UNCHANGED Looked
      BY <2>1 DEF BoxTyped, ToolSound, ModeKnown, Looked, InSync, FilesAgree
    <2> QED
      BY <1>1, <2>1, <2>2 DEF InstallInv
  <1> QED
    BY <1>1, QuestionsStep, InstallsStep, LooksStep, PeopleStep DEF I!Next, I!Step

\* The exit code 0 of a dry run, and of an apply.
LEMMA ExitsHonestly ==
  ASSUME InstallInv, I!Next, NEW m \in {"dry", "apply"}, I!Exits0(m)
  PROVE  /\ InSync
         /\ m = "apply" => /\ \A f \in Files : tool'.files[f] = Snapshot[head][f]
                           /\ tool'.metadata = Snapshot[head][Pyproject] /\ ~tool'.extra
                           /\ tool'.ours /\ tool'.first /\ tool'.exec = Mode
  <1>0. mode = m /\ ~moved /\ step # "done" /\ step' = "done" /\ rc' = 0 /\ Looked
    BY DEF I!Exits0, InstallInv
  <1>1. \/ I!Decide /\ mode = "dry" /\ problems \subseteq {"session"}
        \/ I!LookAtModes
    <2>1. ~(I!Edit \/ I!Hide \/ I!Ignore \/ I!MergeUpstream \/ I!Checkout \/ I!Tamper)
      BY <1>0 DEF I!Edit, I!Hide, I!Ignore, I!MergeUpstream, I!Checkout, I!Tamper, I!Change, I!run
    <2>2. ~(I!Place \/ I!Status \/ I!Fetch \/ I!Sync)
      BY <1>0 DEF I!Place, I!Status, I!Fetch, I!Sync, I!Go
    <2>3. ~(I!UvInstall \/ I!ReadHead \/ I!Refused)
      BY <1>0 DEF I!UvInstall, I!AfterInstall, I!ReadHead, I!Refused, I!Go, I!Return
    <2>4. ~(I!LookAtFiles \/ I!LookAtReceipt \/ I!LookAtMetadata)
      BY <1>0 DEF I!LookAtFiles, I!LookAtReceipt, I!LookAtMetadata, I!Look, I!Go
    <2>5. ~I!Begin
      BY <1>0 DEF I!Begin
    <2>6. I!Decide => mode = "dry" /\ problems \subseteq {"session"}
      BY <1>0 DEF I!Decide, I!Return, I!Go
    <2> QED
      BY <2>1, <2>2, <2>3, <2>4, <2>5, <2>6 DEF I!Next, I!Step
  <1>2. CASE I!Decide /\ mode = "dry" /\ problems \subseteq {"session"}
    BY <1>0, <1>2 DEF I!Decide, Looked, InSync
  <1>3. CASE I!LookAtModes
    <2>1. problems = {} /\ I!WrongMode = {} /\ step = "modes"
      BY <1>0, <1>3 DEF I!LookAtModes, I!Return
    <2>2. compared = head /\ tool' = tool /\ FilesAgree /\ tool.ours /\ tool.first
          /\ tool.metadata = Snapshot[head][Pyproject]
      BY <1>0, <1>3, <2>1 DEF I!LookAtModes, Looked, Looks
    <2>3. ToolSound /\ Mode \in [Files -> BOOLEAN]
      BY OperationsAssumption DEF InstallInv, I!InstallAssumption
    <2>4. ASSUME NEW f \in Files PROVE tool.exec[f] = Mode[f]
      <3>1. f \notin I!WrongMode /\ tool.files[f] = Snapshot[head][f]
        BY <2>1, <2>2 DEF FilesAgree
      <3> QED
        BY <3>1, <2>2, <2>3 DEF I!WrongMode, I!Wanted, I!Missing, ToolSound
    <2>5. tool.exec = Mode
      BY <2>3, <2>4 DEF ToolSound, Tool
    <2>6. m = "apply" /\ InSync
      BY <1>0, <2>1 DEF Looked, Looks, InstallInv, ModeKnown
    <2> QED
      BY <2>2, <2>5, <2>6 DEF FilesAgree
  <1> QED
    BY <1>2, <1>3, <1>1

-----------------------------------------------------------------------------
(* The composition. *)

\* A step is a step of each part, stuttering included.
LEMMA StepsApart ==
  ASSUME [Next]_vars
  PROVE  [D!Next]_(D!vars) /\ [C!Next]_(C!vars) /\ [G!Next]_(G!vars) /\ [I!Next]_(I!vars)
  <1> USE DEF Next, Deploy, Command, Digest, Install, vars, deployVars, commandVars, digestVars, installVars
  <1>1. [D!Next]_(D!vars)
    BY DEF D!vars
  <1>2. [C!Next]_(C!vars)
    BY DEF C!vars, C!rest
  <1>3. [G!Next]_(G!vars)
    BY DEF G!vars
  <1>4. [I!Next]_(I!vars)
    BY DEF I!vars, I!box, I!run
  <1> QED
    BY <1>1, <1>2, <1>3, <1>4

IInv == DeployInv /\ CommandInv /\ DigestInv /\ InstallInv

\* Init: the scene's own initial states, and the others standing still.
LEMMA InitIInv == Init => IInv
  <1> SUFFICES ASSUME Init PROVE IInv
    OBVIOUS
  <1>1. CommandInv
    <2>1. CASE C!Init
      BY <2>1, CommandInit
    <2>2. CASE CommandStill
      BY <2>2, ShellIsAProcess
      DEF CommandStill, C!None, CommandInv, ProcessesTyped, Process, ShellLeads, VerdictStands, C!Alive,
          Ends, Emptied
    <2> QED
      BY <2>1, <2>2 DEF Init
  <1>2. DigestInv
    BY DigestInit DEF Init, DigestStill
  <1>3. DeployInv
    BY DeployInit DEF Init
  <1>4. InstallInv
    BY InstallInit DEF Init, InstallStill
  <1> QED
    BY <1>1, <1>2, <1>3, <1>4 DEF IInv

\* A step of any scene keeps all four.
LEMMA StepIInv == IInv /\ [Next]_vars => IInv'
  BY StepsApart, DeployStep, CommandStep, DigestStep, InstallStep, OperationsAssumption DEF IInv

\* Every reachable state of every scene satisfies the invariant of each part.
THEOREM Invariance == Spec => []IInv
  BY InitIInv, StepIInv, PTL DEF Spec

\* run_command and terminate_group: "ok" is the shell's own exit, a timeout or an
\* escalation empties the group, a stop leaves no leader, and a pid whose start time
\* was recorded is never signalled once it is somebody else's.
THEOREM ResultsAreTrueHolds == Spec => []ResultsAreTrue
  <1>1. IInv => ResultsAreTrue
    BY DEF IInv, CommandInv, ShellLeads, VerdictStands, ResultsAreTrue, C!ResultsAreTrue, Ends, Emptied,
           C!Group
  <1> QED
    BY <1>1, Invariance, PTL

\* "A transient discovery failure would corrupt every later delta": only an audit of
\* projects changes the baseline, and all it holds was told, is about to be or died
\* with its audit (__main__._emit_digest, digest.save_current).
THEOREM DigestsAreTrueHolds == Spec => DigestsAreTrue
  <1> DEFINE Held == told' \cup lost' \cup
                     UNION {audit'[a].new : a \in {b \in Audits : audit'[b].at = "emit"}}
             ByAnAudit == baseline' # baseline => \E a \in Audits : audit[a].at = "save" /\ audit[a].selected # {}
  <1>1. IInv' => baseline' \subseteq Held
    BY DEF IInv, DigestInv, Accounted
  <1>2. IInv /\ G!Next => ByAnAudit
    BY DEF IInv, DigestInv, AuditsOK, G!Next, G!Shift, G!Begin, G!Collect, G!ComputeDigest, G!SaveCurrent,
           G!Emit, G!Again, G!Killed
  <1>3. IInv /\ IInv' /\ [Next]_vars => [ByAnAudit /\ baseline' \subseteq Held]_(G!vars)
    BY <1>1, <1>2, StepsApart
  <1> QED
    BY <1>3, Invariance, PTL DEF Spec, DigestsAreTrue, G!DigestsAreTrue

\* "Following [an older run] would report a previous deploy's verdict as this one's": a
\* refused or planned deploy started no run, an applied one that exits 0 did, and one
\* that waited exits 0 only on a run that succeeded and, if the mark could be read, was
\* not there before the dispatch (wait_for_deploy, _cmd_deploy).
THEOREM DeployVerdictIsTrueHolds == Spec => []DeployVerdictIsTrue
  <1>1. ASSUME IInv, NEW o \in Operators, cmd[o].at = "done" PROVE D!VerdictIsTrue(o)
    <2>1. /\ cmd[o] \in DeployCommand /\ StartsItsOwn(o, cmd[o]) /\ Settles(cmd[o])
          /\ runs \in Seq(Run)
      BY <1>1 DEF IInv, DeployInv, DeploysTyped
    <2>2. cmd[o].wait /\ cmd[o].rc = 0 => cmd[o].status = "dispatched" /\ cmd[o].state = "succeeded"
      BY <1>1, <2>1 DEF Settles
    <2>3. ASSUME cmd[o].wait, cmd[o].rc = 0
          PROVE  \E i \in D!Listed : runs[i].state = "success" /\ (cmd[o].blind \/ i \in D!After(o))
      <3>1. PICK i \in D!Listed : runs[i].state = "success" /\ i > cmd[o].floor
        BY <2>1, <2>2, <2>3 DEF Settles
      <3>2. i \in DOMAIN runs /\ i \in Nat
        BY <2>1 DEF D!Listed
      <3>3. cmd[o].floor \in Int
        <4>1. cmd[o].floor \in Nat \cup {-1}
          BY <2>1 DEF DeployCommand
        <4> QED
          BY <4>1
      <3>4. ~cmd[o].blind => \A j \in cmd[o].before : j <= cmd[o].floor
        BY <2>1 DEF Settles
      <3>5. ~cmd[o].blind => i \notin cmd[o].before
        <4> DEFINE floor == cmd[o].floor
        <4>1. floor \in Int /\ i > floor
          BY <3>1, <3>3
        <4>2. ~(i <= floor)
          BY <3>2, <4>1
        <4> QED
          BY <3>4, <4>2
      <3> QED
        BY <3>1, <3>2, <3>5 DEF D!After
    <2>4. ~cmd[o].apply \/ cmd[o].rc = 2 => D!Own(o) = {}
      BY <2>1 DEF StartsItsOwn
    <2>5. cmd[o].apply /\ cmd[o].rc = 0 => D!Own(o) # {}
      BY <1>1, <2>1 DEF StartsItsOwn, Settles
    <2> QED
      BY <2>3, <2>4, <2>5 DEF D!VerdictIsTrue
  <1>2. IInv => DeployVerdictIsTrue
    BY <1>1 DEF DeployVerdictIsTrue, D!DeployVerdictIsTrue, D!VerdictIsTrue
  <1> QED
    BY <1>2, Invariance, PTL

\* install_tool.py's word: unless HEAD or origin moved while it ran, or the tool was
\* replaced under its check, a dry run exits 0 only at origin's tip on main in the main
\* checkout, and an apply only there and with exactly that commit's files and metadata
\* installed and first on PATH.
THEOREM ExitsAreTrueHolds == Spec => ExitsAreTrue
  <1> DEFINE Honest ==
        /\ I!Exits0("dry") \/ I!Exits0("apply") => head = upstream /\ onMain /\ ~linked
        /\ I!Exits0("apply") => /\ \A f \in Files : tool'.files[f] = Snapshot[head][f]
                                /\ tool'.metadata = Snapshot[head][Pyproject] /\ ~tool'.extra
                                /\ tool'.ours /\ tool'.first /\ tool'.exec = Mode
  <1>1. IInv /\ I!Next => Honest
    BY ExitsHonestly DEF IInv, InSync
  <1>2. IInv /\ [Next]_vars => [Honest]_(I!vars)
    BY <1>1, StepsApart
  <1> QED
    BY <1>2, Invariance, PTL DEF Spec, ExitsAreTrue, I!ExitsAreTrue

-----------------------------------------------------------------------------
(* Types: what the invariants above need not know of. *)

DeployBounded ==
  /\ kind \in D!Kinds /\ Len(runs) <= MaxRuns
  /\ \A o \in Operators : cmd[o].floor \in D!RunIds \cup {-1} /\ cmd[o].before \subseteq D!RunIds
CommandTyped ==
  /\ at \in {"idle", "communicate", "drain", "signal", "grace", "done"}
  /\ call \in {"run_command", "terminate_group"} /\ {late, parent} \subseteq BOOLEAN
  /\ ticks \in C!Ticks
  /\ result \in {"", "error", "ok", "failed", "timed out", "output lost", "not ours", "stopped",
                "escalated"}
  /\ stranger \in {"none", "running", "killed"}
DigestTyped == {told, lost} \subseteq SUBSET Findings /\ shifts \in 0..MaxShifts
InstallTyped ==
  /\ {onMain, linked, session, moved} \subseteq BOOLEAN /\ hidden \subseteq I!Tracked
  /\ step \in {"idle", "place", "status", "fetch", "sync", "decide", "install", "read",
               "files", "receipt", "metadata", "modes", "done"}
  /\ compared \in Commits \cup {0} /\ rc \in {0, 1} /\ changes \in 0..MaxChanges

\* The listed runs are among those the bound allows, the newest of them too.
LEMMA ListedAreRuns ==
  ASSUME DeploysTyped, Len(runs) <= MaxRuns
  PROVE  /\ D!Listed \subseteq D!RunIds
         /\ D!Listed # {} => D!Max(D!Listed) \in D!RunIds
  <1>1. Len(runs) \in Nat /\ DOMAIN runs = 1..Len(runs) /\ MaxRuns \in Nat
    BY OperationsAssumption DEF DeploysTyped, D!DeploysAssumption
  <1>2. DOMAIN runs \subseteq D!RunIds /\ D!Listed \subseteq DOMAIN runs
    BY <1>1 DEF D!RunIds, D!Listed
  <1>3. D!Listed # {} => D!Max(D!Listed) \in D!Listed
    BY NewestListed
  <1> QED
    BY <1>2, <1>3

\* A command's floor is a listed run, and no run comes beyond the bound.
LEMMA DeployTypes ==
  ASSUME DeployInv, DeployBounded, [D!Next]_(D!vars) PROVE DeployBounded'
  <1>0. DeploysTyped /\ Len(runs) \in Nat /\ MaxRuns \in Nat
    BY OperationsAssumption DEF DeployInv, DeploysTyped, D!DeploysAssumption
  <1>1. kind' \in D!Kinds
    BY DEF DeployBounded, D!Next, D!Operator, D!Begin, D!Mark, D!Dispatch, D!Poll, D!Exit, D!Deadline,
           D!CiStarts, D!Lists, D!Completes, D!vars
  <1>2. Len(runs') <= MaxRuns
    <2>1. ASSUME NEW r, runs' = Append(runs, r), Len(runs) < MaxRuns PROVE Len(runs') <= MaxRuns
      BY <1>0, <2>1 DEF DeploysTyped
    <2>2. ASSUME NEW i \in DOMAIN runs, NEW r, runs' = [runs EXCEPT ![i] = r] PROVE Len(runs') <= MaxRuns
      BY <1>0, <2>2 DEF DeploysTyped, DeployBounded
    <2>3. UNCHANGED runs => Len(runs') <= MaxRuns
      BY DEF DeployBounded
    <2>4. ASSUME NEW o \in Operators, D!Operator(o) PROVE Len(runs') <= MaxRuns
      <3>1. D!Dispatch(o) \/ UNCHANGED runs
        BY <2>4 DEF D!Operator, D!Begin, D!Mark, D!Poll, D!Exit, D!Deadline
      <3>2. CASE D!Dispatch(o)
        <4>1. \/ UNCHANGED runs
              \/ \E r : runs' = Append(runs, r) /\ Len(runs) < MaxRuns
          BY <3>2 DEF D!Dispatch
        <4> QED
          BY <2>1, <2>3, <4>1
      <3> QED
        BY <2>3, <3>1, <3>2
    <2>5. D!CiStarts => Len(runs') <= MaxRuns
      BY <2>1 DEF D!CiStarts
    <2>6. D!Lists \/ D!Completes => \E i \in DOMAIN runs : \E r : runs' = [runs EXCEPT ![i] = r]
      BY DEF D!Lists, D!Completes, D!Listed
    <2>7. UNCHANGED D!vars => UNCHANGED runs
      BY DEF D!vars
    <2> QED
      BY <2>2, <2>3, <2>4, <2>5, <2>6, <2>7 DEF D!Next
  <1>3. ASSUME NEW o \in Operators
        PROVE  cmd'[o].floor \in D!RunIds \cup {-1} /\ cmd'[o].before \subseteq D!RunIds
    <2>0. cmd[o] \in DeployCommand /\ cmd \in [Operators -> DeployCommand]
      BY <1>0 DEF DeploysTyped
    <2>1. CASE D!Mark(o)
      <3>1. PICK ok \in BOOLEAN :
              cmd' = [cmd EXCEPT ![o] = [cmd[o] EXCEPT !.at = "dispatch", !.blind = ~ok, !.before = D!Listed,
                       !.floor = IF ok /\ D!Listed # {} THEN D!Max(D!Listed) ELSE -1]]
        BY <2>1 DEF D!Mark, D!Become
      <3>2. /\ cmd'[o].before = D!Listed
            /\ cmd'[o].floor = IF ok /\ D!Listed # {} THEN D!Max(D!Listed) ELSE -1
        BY <2>0, <3>1 DEF DeployCommand
      <3> QED
        BY <1>0, <3>2, ListedAreRuns DEF DeployBounded
    <2>2. CASE cmd'[o].floor = cmd[o].floor /\ cmd'[o].before = cmd[o].before
      BY <2>2 DEF DeployBounded
    <2>3. ASSUME NEW c, c.floor = cmd[o].floor, c.before = cmd[o].before, D!Become(o, c)
          PROVE  cmd'[o].floor = cmd[o].floor /\ cmd'[o].before = cmd[o].before
      BY <2>0, <2>3 DEF D!Become
    <2>4. ASSUME NEW a \in Operators \ {o}, NEW c, D!Become(a, c)
          PROVE  cmd'[o] = cmd[o]
      BY <2>0, <2>4 DEF D!Become
    <2>5. ASSUME NEW a \in Operators, D!Operator(a) PROVE \E c : D!Become(a, c)
      <3>1. D!Begin(a) => \E c : D!Become(a, c)
        BY DEF D!Begin
      <3>2. D!Mark(a) => \E c : D!Become(a, c)
        BY DEF D!Mark
      <3>3. D!Dispatch(a) => \E c : D!Become(a, c)
        BY DEF D!Dispatch
      <3>4. D!Poll(a) => \E c : D!Become(a, c)
        BY DEF D!Poll
      <3>5. D!Exit(a) \/ D!Deadline(a) => \E c : D!Become(a, c)
        BY DEF D!Exit, D!Deadline
      <3> QED
        BY <2>5, <3>1, <3>2, <3>3, <3>4, <3>5 DEF D!Operator
    <2>6. CASE D!Begin(o) \/ D!Dispatch(o) \/ D!Poll(o) \/ D!Exit(o) \/ D!Deadline(o)
      <3> DEFINE same(c) == c.floor = cmd[o].floor /\ c.before = cmd[o].before
      <3>0. cmd[o] \in DeployCommand
        BY <2>0
      <3>1. D!Begin(o) => \E c : same(c) /\ D!Become(o, c)
        BY <3>0 DEF D!Begin, DeployCommand
      <3>2. D!Dispatch(o) => \E c : same(c) /\ D!Become(o, c)
        BY <3>0 DEF D!Dispatch, DeployCommand
      <3>3. D!Poll(o) => \E c : same(c) /\ D!Become(o, c)
        BY <3>0 DEF D!Poll, DeployCommand
      <3>4. D!Exit(o) \/ D!Deadline(o) => \E c : same(c) /\ D!Become(o, c)
        BY <3>0 DEF D!Exit, D!Deadline, DeployCommand
      <3> QED
        BY <2>2, <2>3, <2>6, <3>1, <3>2, <3>3, <3>4
    <2>7. CASE UNCHANGED cmd
      BY <2>2, <2>7
    <2>8. D!CiStarts \/ D!Lists \/ D!Completes \/ UNCHANGED D!vars => UNCHANGED cmd
      BY DEF D!CiStarts, D!Lists, D!Completes, D!vars
    <2>9. ASSUME NEW a \in Operators \ {o}, D!Operator(a) PROVE cmd'[o] = cmd[o]
      BY <2>4, <2>5, <2>9
    <2> QED
      BY <2>1, <2>2, <2>6, <2>7, <2>8, <2>9 DEF D!Next, D!Operator
  <1> QED
    BY <1>1, <1>2, <1>3 DEF DeployBounded

\* A call goes from step to step and returns one of its results.
LEMMA CommandTypes ==
  ASSUME CommandTyped, [C!Next]_(C!vars) PROVE CommandTyped'
  <1> USE DEF CommandTyped, C!rest, C!Return
  <1>1. CASE C!Popen \/ C!Communicate \/ C!TimeoutExpired \/ C!Drain
    BY <1>1 DEF C!Popen, C!Communicate, C!TimeoutExpired, C!Drain
  <1>2. CASE C!CheckOurs \/ C!Sigterm \/ C!Grace
    BY <1>2 DEF C!CheckOurs, C!Sigterm, C!Grace
  <1>3. CASE C!World
    BY <1>3 DEF C!World, C!Expire, C!Recycle, C!Setsid, C!ClosePipe, C!Exits, C!Fork
  <1>4. CASE UNCHANGED C!vars
    BY <1>4 DEF C!vars
  <1> QED
    BY <1>1, <1>2, <1>3, <1>4 DEF C!Next, C!Caller

\* What is told or lost are findings of an audit.
LEMMA DigestTypes ==
  ASSUME DigestInv, DigestTyped, [G!Next]_(G!vars) PROVE DigestTyped'
  <1>1. ASSUME NEW a \in Audits, AuditStep(a) PROVE DigestTyped'
    <2>1. audit[a].new \subseteq Findings
      BY DEF DigestInv, AuditsOK, AuditRecord
    <2> QED
      BY <1>1, <2>1 DEF DigestTyped, AuditStep, G!Begin, G!Collect, G!ComputeDigest, G!SaveCurrent, G!Emit,
                        G!Again, G!Killed
  <1>2. CASE G!Shift
    BY <1>2, OperationsAssumption DEF DigestTyped, G!Shift, G!DigestAssumption
  <1>3. CASE UNCHANGED G!vars
    BY <1>3 DEF DigestTyped, G!vars
  <1> QED
    BY <1>1, <1>2, <1>3 DEF G!Next, AuditStep

\* A verb goes from step to step, and people change what is there to change.
LEMMA InstallTypes ==
  ASSUME InstallInv, InstallTyped, [I!Next]_(I!vars) PROVE InstallTyped'
  <1> USE DEF InstallTyped, I!box, I!run, I!People
  <1>1. CASE I!Begin
    BY <1>1 DEF I!Begin
  <1>2. CASE I!Place \/ I!Status \/ I!Fetch \/ I!Sync
    BY <1>2 DEF I!Place, I!Status, I!Fetch, I!Sync, I!Go
  <1>3. CASE \/ I!Decide \/ I!UvInstall \/ I!Refused
             \/ I!LookAtFiles \/ I!LookAtReceipt \/ I!LookAtMetadata \/ I!LookAtModes
    BY <1>3 DEF I!Decide, I!UvInstall, I!AfterInstall, I!Refused, I!LookAtFiles, I!LookAtReceipt,
                I!LookAtMetadata, I!LookAtModes, I!Look, I!Go, I!Return
  <1>4. CASE I!ReadHead
    BY <1>4 DEF I!ReadHead, I!Return, InstallInv, BoxTyped
  <1>5. ASSUME NEW moves \in BOOLEAN, I!Change(moves)
        PROVE  /\ changes' \in 0..MaxChanges /\ moved' \in BOOLEAN
               /\ UNCHANGED <<step, mode, problems, compared, rc>>
    BY <1>5, OperationsAssumption DEF I!Change, I!InstallAssumption
  <1>6. CASE I!Edit \/ I!Hide \/ I!Ignore \/ I!MergeUpstream \/ I!Checkout \/ I!Tamper
    <2>1. /\ changes' \in 0..MaxChanges /\ moved' \in BOOLEAN
          /\ UNCHANGED <<step, mode, problems, compared, rc>>
      <3>1. I!Change(FALSE) \/ I!Change(TRUE)
        <4>1. CASE I!Tamper
          BY <4>1 DEF I!Tamper, I!Change
        <4> QED
          BY <1>6, <4>1 DEF I!Edit, I!Hide, I!Ignore, I!MergeUpstream, I!Checkout
      <3> QED
        BY <1>5, <3>1
    <2>2. CASE I!Checkout
      <3>1. onMain' \in BOOLEAN /\ UNCHANGED <<linked, session, hidden>>
        BY <2>2 DEF I!Checkout
      <3> QED
        BY <2>1, <3>1
    <2>3. CASE ~I!Checkout
      <3>1. UNCHANGED <<onMain, linked, session>> /\ hidden' \subseteq I!Tracked
        BY <1>6, <2>3 DEF I!Edit, I!Hide, I!Ignore, I!MergeUpstream, I!Tamper
      <3> QED
        BY <2>1, <3>1
    <2> QED
      BY <2>2, <2>3
  <1>7. CASE UNCHANGED I!vars
    BY <1>7 DEF I!vars
  <1> QED
    BY <1>1, <1>2, <1>3, <1>4, <1>6, <1>7 DEF I!Next, I!Step

Typed == DeployBounded /\ CommandTyped /\ DigestTyped /\ InstallTyped

\* The scene's own initial states, and the others standing still.
LEMMA InitTyped == Init => Typed
  <1> SUFFICES ASSUME Init PROVE Typed
    OBVIOUS
  <1>1. DeployBounded
    <2>1. /\ cmd = [o \in Operators |-> D!Idle] /\ kind \in D!Kinds
          /\ runs = <<>> \/ runs = <<[by |-> Ci, listed |-> TRUE, state |-> "success"]>>
      BY DEF Init, D!Init, DeployStill, D!Kinds
    <2>2. Len(runs) <= MaxRuns
      <3>1. MaxRuns \in Nat \ {0}
        BY OperationsAssumption DEF D!DeploysAssumption
      <3>2. Len(runs) = 0 \/ Len(runs) = 1
        BY <2>1
      <3> QED
        BY <3>1, <3>2
    <2>3. D!Idle.floor = -1 /\ D!Idle.before = {}
      BY DEF D!Idle
    <2> QED
      BY <2>1, <2>2, <2>3 DEF DeployBounded
  <1>2. CommandTyped
    BY DEF Init, C!Init, C!Ticks, CommandStill, CommandTyped
  <1>3. DigestTyped
    BY OperationsAssumption DEF Init, DigestStill, G!Init, DigestTyped, G!DigestAssumption
  <1>4. InstallTyped
    <2>1. /\ onMain = TRUE /\ linked \in BOOLEAN /\ session \in BOOLEAN /\ moved = FALSE
          /\ hidden = {} /\ step = "idle" /\ compared = 0 /\ rc = 0 /\ changes = 0
      BY Zenon DEF Init, InstallStill, I!Init
    <2>2. MaxChanges \in Nat
      BY OperationsAssumption DEF I!InstallAssumption
    <2>3. {onMain, linked, session, moved} \subseteq BOOLEAN
      BY <2>1, Zenon
    <2>4. hidden \subseteq I!Tracked /\ changes \in 0..MaxChanges
      BY <2>1, <2>2
    <2>5. step \in {"idle"} /\ compared \in {0} /\ rc \in {0}
      BY <2>1
    <2> QED
      BY <2>3, <2>4, <2>5 DEF InstallTyped
  <1> QED
    BY <1>1, <1>2, <1>3, <1>4 DEF Typed

\* Every variable of every scene keeps its kind.
THEOREM TypeCorrect == Spec => []TypeOK
  <1>1. IInv /\ Typed /\ [Next]_vars => Typed'
    BY StepsApart, DeployTypes, CommandTypes, DigestTypes, InstallTypes DEF IInv, Typed
  <1>2. Spec => []Typed
    BY <1>1, InitTyped, Invariance, PTL DEF Spec
  <1>3. ASSUME IInv, Typed PROVE D!TypeOK
    <2>1. /\ DeployBounded /\ runs \in Seq(Run)
          /\ \A o \in Operators : cmd[o] \in DeployCommand
      BY <1>3 DEF IInv, Typed, DeployInv, DeploysTyped
    <2>2. \A o \in Operators : /\ cmd[o].at \in {"idle", "mark", "dispatch", "poll", "exit", "done"}
                              /\ cmd[o].rc \in 0..2
      <3> SUFFICES ASSUME NEW o \in Operators
                   PROVE  /\ cmd[o].at \in {"idle", "mark", "dispatch", "poll", "exit", "done"}
                          /\ cmd[o].rc \in 0..2
        OBVIOUS
      <3>1. /\ cmd[o].at \in {"idle", "mark", "dispatch", "poll", "exit", "done"}
            /\ cmd[o].rc \in {0, 1, 2}
        BY <2>1, Zenon DEF DeployCommand
      <3>2. {0, 1, 2} \subseteq 0..2
        OBVIOUS
      <3> QED
        BY <3>1, <3>2
    <2> QED
      BY <2>1, <2>2 DEF DeployBounded, D!TypeOK, Run
  <1>4. ASSUME IInv, Typed PROVE C!TypeOK
    BY <1>4 DEF IInv, Typed, CommandInv, ProcessesTyped, Process, CommandTyped, C!TypeOK
  <1>5. ASSUME IInv, Typed PROVE G!TypeOK
    BY <1>5 DEF IInv, Typed, DigestInv, AuditsOK, AuditRecord, AuditPlaces, DigestTyped, G!TypeOK
  <1>6. ASSUME IInv, Typed PROVE I!TypeOK
    BY <1>6 DEF IInv, Typed, InstallInv, BoxTyped, ToolSound, Tool, InstallTyped, I!TypeOK
  <1>7. IInv /\ Typed => TypeOK
    BY <1>3, <1>4, <1>5, <1>6 DEF TypeOK
  <1> QED
    BY <1>2, <1>7, Invariance, PTL
=============================================================================
