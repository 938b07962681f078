---------------------------- MODULE UnattendedProofs ----------------------------
(***************************************************************************)
(* What runs with nobody looking, proved for all constants: the supervised *)
(* processes of a project (Supervisor), the batches of a campaign          *)
(* (Campaign), and the watch with its heartbeat (Judgements' Watch and     *)
(* Heartbeat).  The three share no state and no invariant.                 *)
(***************************************************************************)
EXTENDS Supervisor, Campaign, Judgements, WellFoundedInduction, FiniteSetTheorems,
        SequenceTheorems, TLAPS

-----------------------------------------------------------------------------
(* Supervisor: no live service is ever alerted as dead (DeathsAreReal),    *)
(* and commands one at a time lose no process (OneAtATimeIsExact).         *)
(*                                                                         *)
(* DeathsAreReal is not inductive: a command buries whom it loaded several *)
(* steps earlier, and a check reports whom it read from the tombstone.     *)
(* IInv adds that the copies commands hold, and the state file they load   *)
(* them from, name processes that were launched, or are gone, as the step  *)
(* the command is at requires.  It is stable because no step brings a      *)
(* process back (Aging).                                                   *)
(*                                                                         *)
(* OneAtATimeIsExact is about commands that have never overlapped.  Serial *)
(* says what the files hold at each step of the one command under way;     *)
(* Single is the same seen from that command, so that each of its steps is *)
(* proved about one command and one process.                               *)

\* The state file names a process that was launched.
RecordLaunched == record # None => proc[record] # "unborn"

\* A command about to write a record holds one it launched; one about to bury,
\* or to report, holds a process that is gone.
Fit(c) ==
  /\ pc[c] \in {"write", "supersede"} => state[c] # None /\ proc[state[c]] # "unborn"
  /\ pc[c] = "bury" => Gone(state[c])
  /\ pc[c] \in {"unlink", "report"} /\ state[c] # None => Gone(state[c])

HeldCopies == \A c \in Commands : Fit(c)

IInv == TypeOK /\ RecordLaunched /\ HeldCopies /\ DeathsAreReal

\* No step revives a process or unlaunches it.
Aging ==
  \A n \in Incarnations :
    /\ proc[n] # "unborn" => proc'[n] # "unborn"
    /\ proc[n] \in {"died", "killed"} => proc'[n] \in {"died", "killed"}

\* None is not an incarnation.
LEMMA NoneIsNobody == None \notin Incarnations
  BY BoundsAssumption DEF None, Incarnations

\* A command's first step goes to a place it has.
LEMMA FirstSteps ==
  ASSUME NEW v \in {"start", "stop", "check", "status"}
  PROVE  WhenDown(v) \in {"spawn", "consume", "idle"} /\ WhenUp(v) \in {"kill", "idle"}
  BY DEF WhenDown, WhenUp

-----------------------------------------------------------------------------

\* The initial state satisfies the invariant.
LEMMA InitIInv == Init => IInv
  <1> SUFFICES ASSUME Init PROVE IInv
    OBVIOUS
  <1>0. overlapped \in BOOLEAN
    BY DEF Init
  <1>1. TypeOK
    <2>1. /\ record \in Maybe /\ tomb \in Maybe
          /\ proc     \in [Incarnations -> {"unborn", "live", "died", "killed"}]
          /\ pc       \in [Commands -> Steps]
          /\ verb     \in [Commands -> {"start", "stop", "check", "status"}]
          /\ state    \in [Commands -> Maybe]
          /\ reported \in [Incarnations -> 0..2]
          /\ faults   \in 0..MaxFaults
          /\ mishaps  \in SUBSET ({"failed", "cut"} \X Steps)
      BY BoundsAssumption DEF Init, Maybe, Steps, None
    <2> QED
      BY <1>0, <2>1 DEF TypeOK
  <1>2. RecordLaunched /\ HeldCopies /\ DeathsAreReal
    BY DEF Init, RecordLaunched, HeldCopies, Fit, DeathsAreReal
  <1> QED
    BY <1>1, <1>2 DEF IInv

\* Processes age in every step.
LEMMA StepsAge == TypeOK /\ Next => Aging
  <1> SUFFICES ASSUME TypeOK, Next PROVE Aging
    OBVIOUS
  <1> USE DEF TypeOK, Aging
  <1>1. ASSUME NEW c \in Commands, Continue(c) PROVE Aging
    <2>1. CASE Spawn(c)
      BY <2>1 DEF Spawn, Unborn
    <2>2. CASE Undo(c)
      BY <2>2 DEF Undo, Kill, Live
    <2>3. CASE StopKill(c)
      BY <2>3 DEF StopKill, Kill, Live
    <2>4. CASE proc' = proc
      BY <2>4
    <2> QED
      BY <1>1, <2>1, <2>2, <2>3, <2>4
      DEF Continue, Bury, ClearDead, SpawnRefused, WriteRecord, Supersede,
          StopClear, ReadTomb, UnlinkTomb, TellDeath
  <1>2. ASSUME NEW c \in Commands, NEW v \in Verbs[c], Begin(c, v) PROVE Aging
    BY <1>2 DEF Begin
  <1>3. ASSUME NEW n \in Incarnations, Dies(n) PROVE Aging
    BY <1>3 DEF Dies
  <1>4. ASSUME NEW c \in Commands, Interrupted(c) PROVE Aging
    BY <1>4 DEF Interrupted
  <1> QED
    BY <1>1, <1>2, <1>3, <1>4 DEF Next

-----------------------------------------------------------------------------

\* Every step keeps the variables typed.
LEMMA StepsTyped == TypeOK /\ Next => TypeOK'
  <1> SUFFICES ASSUME TypeOK, Next PROVE TypeOK'
    OBVIOUS
  <1> USE BoundsAssumption DEF TypeOK, Maybe, Steps, Holds, files, Smooth
  <1>1. ASSUME NEW c \in Commands, Bury(c) PROVE TypeOK'
    BY <1>1 DEF Bury, At, Fails, Mishap
  <1>2. ASSUME NEW c \in Commands, ClearDead(c) PROVE TypeOK'
    <2>1. WhenDown(verb[c]) \in Steps
      BY FirstSteps
    <2> QED
      BY <1>2, <2>1 DEF ClearDead, At, Unlinks, Fails, Mishap
  <1>3. ASSUME NEW c \in Commands, SpawnRefused(c) PROVE TypeOK'
    BY <1>3 DEF SpawnRefused, At
  <1>4. ASSUME NEW c \in Commands, Spawn(c) PROVE TypeOK'
    BY <1>4 DEF Spawn, At, Unborn
  <1>5. ASSUME NEW c \in Commands, WriteRecord(c) PROVE TypeOK'
    BY <1>5 DEF WriteRecord, At, Fails, Mishap
  <1>6. ASSUME NEW c \in Commands, Undo(c) PROVE TypeOK'
    BY <1>6 DEF Undo, Return, Kill
  <1>7. ASSUME NEW c \in Commands, Supersede(c) PROVE TypeOK'
    BY <1>7 DEF Supersede, Return, Unlinks, Fails, Mishap
  <1>8. ASSUME NEW c \in Commands, StopKill(c) PROVE TypeOK'
    BY <1>8 DEF StopKill, At, Kill
  <1>9. ASSUME NEW c \in Commands, StopClear(c) PROVE TypeOK'
    BY <1>9 DEF StopClear, Return, Unlinks, Fails, Mishap
  <1>10. ASSUME NEW c \in Commands, ReadTomb(c) PROVE TypeOK'
    BY <1>10 DEF ReadTomb, At
  <1>11. ASSUME NEW c \in Commands, UnlinkTomb(c) PROVE TypeOK'
    BY <1>11 DEF UnlinkTomb, At, Unlinks, Fails, Mishap
  <1>14. ASSUME NEW c \in Commands, TellDeath(c) PROVE TypeOK'
    <2>1. reported' \in [Incarnations -> 0..2]
      BY <1>14 DEF TellDeath
    <2> QED
      BY <1>14, <2>1 DEF TellDeath, Return
  <1>15. ASSUME NEW c \in Commands, Interrupted(c) PROVE TypeOK'
    BY <1>15 DEF Interrupted, Return, Mishap
  <1>12. ASSUME NEW c \in Commands, NEW v \in Verbs[c], Begin(c, v) PROVE TypeOK'
    <2>1. v \in {"start", "stop", "check", "status"}
      OBVIOUS
    <2>2. WhenDown(v) \in Steps /\ WhenUp(v) \in Steps
      BY <2>1, FirstSteps
    <2> QED
      BY <1>12, <2>1, <2>2 DEF Begin
  <1>13. ASSUME NEW n \in Incarnations, Dies(n) PROVE TypeOK'
    BY <1>13 DEF Dies
  <1> QED
    BY <1>1, <1>2, <1>3, <1>4, <1>5, <1>6, <1>7, <1>8, <1>9, <1>10, <1>11, <1>12, <1>13, <1>14, <1>15
    DEF Next, Continue

-----------------------------------------------------------------------------

\* The state file names a launched process after every step: only WriteRecord
\* gives it a new name, the one it launched.
LEMMA RecordStays == IInv /\ Next => RecordLaunched'
  <1> SUFFICES ASSUME IInv, Next PROVE RecordLaunched'
    OBVIOUS
  <1> USE DEF files
  <1>1. Aging
    BY StepsAge DEF IInv
  <1>2. record \in Maybe /\ \A c \in Commands : state[c] \in Maybe
    BY DEF IInv, TypeOK
  <1>3. CASE record' = record \/ record' = None
    BY <1>1, <1>2, <1>3, NoneIsNobody DEF IInv, RecordLaunched, Aging, Maybe
  <1>4. ASSUME NEW c \in Commands, WriteRecord(c) PROVE RecordLaunched'
    BY <1>1, <1>2, <1>3, <1>4 DEF WriteRecord, At, IInv, HeldCopies, Fit, RecordLaunched, Aging, Maybe
  <1> QED
    BY <1>3, <1>4
    DEF Next, Continue, Begin, Dies, Interrupted, Bury, ClearDead, SpawnRefused, Spawn, Undo,
        Supersede, StopKill, StopClear, ReadTomb, UnlinkTomb, TellDeath, Unlinks

\* What a command holds is fit for its next step, whoever steps.
LEMMA CopiesStay == IInv /\ Next => HeldCopies'
  <1> SUFFICES ASSUME IInv, Next, NEW d \in Commands PROVE Fit(d)'
    BY DEF HeldCopies
  <1> USE DEF files
  <1>1. Aging
    BY StepsAge DEF IInv
  <1>2. TypeOK /\ Fit(d)
    BY DEF IInv, HeldCopies
  <1>3. CASE pc'[d] = pc[d] /\ state'[d] = state[d]
    BY <1>1, <1>2, <1>3 DEF Fit, Aging, Gone, TypeOK, Maybe
  <1>4. CASE pc'[d] \notin {"write", "supersede", "bury", "unlink", "report"}
    BY <1>4 DEF Fit
  <1>5. ASSUME NEW c \in Commands, Continue(c), c # d PROVE Fit(d)'
    <2>1. pc'[d] = pc[d] /\ state'[d] = state[d]
      BY <1>2, <1>5
      DEF Continue, Bury, ClearDead, SpawnRefused, Spawn, WriteRecord, Undo, Supersede,
          StopKill, StopClear, ReadTomb, UnlinkTomb, TellDeath, At, Holds, Return, TypeOK
    <2> QED
      BY <1>3, <2>1
  <1>6. CASE Spawn(d)
    BY <1>6, <1>2, NoneIsNobody DEF Spawn, At, Holds, Unborn, Fit, TypeOK
  <1>7. CASE WriteRecord(d)
    BY <1>7, <1>2 DEF WriteRecord, At, Fit, TypeOK
  <1>8. CASE ReadTomb(d)
    BY <1>8, <1>2 DEF ReadTomb, At, Holds, Fit, TypeOK, IInv, DeathsAreReal, Gone
  <1>9. CASE ClearDead(d)
    <2>1. WhenDown(verb[d]) \in {"spawn", "consume", "idle"}
      BY <1>2, FirstSteps DEF TypeOK
    <2>2. pc'[d] = WhenDown(verb[d])
      BY <1>9, <1>2 DEF ClearDead, At, TypeOK
    <2> QED
      BY <1>4, <2>1, <2>2
  <1>10. CASE Bury(d) \/ SpawnRefused(d) \/ Undo(d) \/ Supersede(d)
                \/ StopKill(d) \/ StopClear(d) \/ TellDeath(d) \/ Interrupted(d)
    <2>1. pc'[d] \in {"clearDead", "idle", "clear"}
      BY <1>10, <1>2
      DEF Bury, SpawnRefused, Undo, Supersede, StopKill, StopClear, TellDeath, Interrupted,
          At, Return, TypeOK
    <2> QED
      BY <1>4, <2>1
  <1>11. ASSUME NEW c \in Commands, NEW v \in Verbs[c], Begin(c, v) PROVE Fit(d)'
    <2>1. v \in {"start", "stop", "check", "status"}
      BY BoundsAssumption
    <2>2. WhenDown(v) \in {"spawn", "consume", "idle"} /\ WhenUp(v) \in {"kill", "idle"}
      BY <2>1, FirstSteps
    <2>3. CASE c = d /\ pc'[d] = "bury"
      <3>1. record # None /\ ~Live(record) /\ state'[d] = record /\ proc' = proc
        BY <1>11, <2>2, <2>3, <1>2 DEF Begin, Holds, TypeOK
      <3>2. proc[record] \in {"unborn", "live", "died", "killed"}
        BY <3>1, <1>2 DEF TypeOK, Maybe
      <3>3. proc'[state'[d]] \in {"died", "killed"} /\ state'[d] # None
        BY <3>1, <3>2 DEF Live, IInv, RecordLaunched
      <3> QED
        BY <2>3, <3>3 DEF Fit, Gone
    <2>4. CASE c = d /\ pc'[d] # "bury"
      <3>1. pc'[d] \in {"spawn", "consume", "idle", "kill"}
        BY <1>11, <2>2, <2>4, <1>2 DEF Begin, TypeOK
      <3> QED
        BY <3>1, <1>4
    <2>5. CASE c # d
      <3>1. pc'[d] = pc[d] /\ state'[d] = state[d]
        BY <1>11, <2>5, <1>2 DEF Begin, Holds, TypeOK
      <3> QED
        BY <3>1, <1>3
    <2> QED
      BY <2>3, <2>4, <2>5
  <1>12. ASSUME NEW n \in Incarnations, Dies(n) PROVE Fit(d)'
    BY <1>12, <1>3 DEF Dies
  <1>14. CASE UnlinkTomb(d)
    BY <1>14, <1>2 DEF UnlinkTomb, At, Fit, TypeOK, Gone
  <1>13. ASSUME NEW c \in Commands, Continue(c) PROVE Fit(d)'
    BY <1>5, <1>6, <1>7, <1>8, <1>9, <1>10, <1>13, <1>14 DEF Continue
  <1>15. ASSUME NEW c \in Commands, Interrupted(c) PROVE Fit(d)'
    <2>1. CASE c = d
      BY <1>15, <1>10, <2>1
    <2>2. CASE c # d
      <3>1. pc'[d] = pc[d] /\ state'[d] = state[d]
        BY <1>15, <2>2, <1>2 DEF Interrupted, Holds, Return, TypeOK
      <3> QED
        BY <3>1, <1>3
    <2> QED
      BY <2>1, <2>2
  <1> QED
    BY <1>11, <1>12, <1>13, <1>15 DEF Next

\* The tombstone and the reports name the dead after every step: Bury writes a
\* dead copy, TellDeath reports a dead one, and the dead stay dead.
LEMMA DeathsStayReal == IInv /\ Next => DeathsAreReal'
  <1> SUFFICES ASSUME IInv, Next PROVE DeathsAreReal'
    OBVIOUS
  <1> USE DEF files
  <1>1. Aging
    BY StepsAge DEF IInv
  <1>2. TypeOK /\ TypeOK'
    BY StepsTyped DEF IInv
  <1>3. CASE /\ tomb' = tomb \/ tomb' = None
             /\ reported' = reported
    BY <1>1, <1>2, <1>3, NoneIsNobody
    DEF IInv, DeathsAreReal, Aging, Gone, TypeOK, Maybe
  <1>4. ASSUME NEW c \in Commands, Bury(c) PROVE DeathsAreReal'
    BY <1>1, <1>2, <1>3, <1>4 DEF Bury, At, IInv, HeldCopies, Fit, DeathsAreReal, Gone, TypeOK, Maybe
  <1>5. ASSUME NEW c \in Commands, TellDeath(c) PROVE DeathsAreReal'
    <2>1. tomb' = tomb /\ proc' = proc
      BY <1>5 DEF TellDeath
    <2>2. ASSUME NEW n \in Incarnations, reported'[n] > 0 PROVE Gone(n)'
      <3>1. reported[n] > 0 \/ (n = state[c] /\ state[c] # None)
        BY <1>2, <1>5, <2>2 DEF TellDeath, TypeOK
      <3>2. Gone(n)
        BY <3>1, <1>5 DEF TellDeath, IInv, HeldCopies, Fit, DeathsAreReal
      <3> QED
        BY <2>1, <3>2 DEF Gone
    <2>3. tomb # None => Gone(tomb)
      BY DEF IInv, DeathsAreReal
    <2> QED
      BY <2>1, <2>2, <2>3 DEF DeathsAreReal, Gone
  <1> QED
    BY <1>3, <1>4, <1>5
    DEF Next, Continue, Begin, Dies, Interrupted, ClearDead, SpawnRefused, Spawn, WriteRecord, Undo,
        Supersede, StopKill, StopClear, ReadTomb, UnlinkTomb, Unlinks

\* The invariant is preserved by every step, stuttering included.
LEMMA NextIInv == IInv /\ [Next]_vars => IInv'
  <1> SUFFICES ASSUME IInv, [Next]_vars PROVE IInv'
    OBVIOUS
  <1>1. CASE Next
    BY <1>1, StepsTyped, RecordStays, CopiesStay, DeathsStayReal DEF IInv
  <1>2. CASE UNCHANGED vars
    BY <1>2
    DEF vars, files, IInv, TypeOK, RecordLaunched, HeldCopies, Fit, DeathsAreReal, Gone
  <1> QED
    BY <1>1, <1>2

-----------------------------------------------------------------------------
(* Commands one at a time.  A live process is the one the state file names,  *)
(* or the one a start is about to record or to undo; a process that was      *)
(* reported is named nowhere any more; and a killed one is named only by the *)
(* state file its stop is about to clear.  Each holds but for the mishaps    *)
(* that take it away: a start cut short, a file naming the dead that could   *)
(* not be unlinked, a stop that did not clear its file.                      *)

\* At most one command is under way.
Alone == \A c, d \in Commands : pc[c] # "idle" /\ pc[d] # "idle" => c = d

\* What a command that is alone knows of the files.
KnowsFile(c) ==
  /\ pc[c] \in {"bury", "clearDead", "spawn", "consume", "unlink", "report", "write", "undo"} => ~Live(record)
  /\ pc[c] \in {"spawn", "consume", "unlink", "report", "write", "undo"} /\ ~Failed("clearDead") => record = None
  /\ pc[c] = "report" /\ ~Failed("unlink") => tomb = None
  /\ pc[c] = "kill" => state[c] = record

StartsWhole == ~Cut("write") /\ ~Cut("undo")
Unlinked    == ~Failed("clearDead") /\ ~Failed("unlink")
StopsWhole  == ~Failed("clear") /\ ~Cut("clear")

Tracked(n) ==
  Live(n) /\ StartsWhole => \/ record = n /\ \A c \in Commands : pc[c] \in {"idle", "supersede", "kill"}
                            \/ \E c \in Commands : pc[c] \in {"write", "undo"} /\ state[c] = n

KilledIsForgotten(n) ==
  proc[n] = "killed" /\ StopsWhole =>
    /\ tomb # n /\ reported[n] = 0
    /\ record = n => \E c \in Commands : pc[c] = "clear"
    /\ \A c \in Commands : pc[c] \in {"bury", "unlink", "report", "write", "undo"} => state[c] # n

ReportedIsForgotten(n) ==
  reported[n] > 0 /\ Unlinked =>
    /\ reported[n] = 1 /\ record # n /\ tomb # n
    /\ \A c \in Commands : pc[c] # "idle" => state[c] # n

Serial ==
  ~overlapped =>
    /\ Alone
    /\ \A c \in Commands : KnowsFile(c)
    /\ \A n \in Incarnations : Tracked(n) /\ KilledIsForgotten(n) /\ ReportedIsForgotten(n)

\* The same, seen from the one command that may be under way.
Single(c, n) ==
  /\ Live(n) /\ StartsWhole => \/ record = n /\ pc[c] \in {"idle", "supersede", "kill"}
                               \/ pc[c] \in {"write", "undo"} /\ state[c] = n
  /\ proc[n] = "killed" /\ StopsWhole =>
       /\ tomb # n /\ reported[n] = 0
       /\ record = n => pc[c] = "clear"
       /\ pc[c] \in {"bury", "unlink", "report", "write", "undo"} => state[c] # n
  /\ reported[n] > 0 /\ Unlinked =>
       /\ reported[n] = 1 /\ record # n /\ tomb # n
       /\ pc[c] # "idle" => state[c] # n

OthersIdle(c) == \A d \in Commands : d # c => pc[d] = "idle"

\* The two views agree while the other commands are idle.
LEMMA SerialToSingle ==
  ASSUME Serial, ~overlapped, NEW c \in Commands, OthersIdle(c)
  PROVE  KnowsFile(c) /\ \A n \in Incarnations : Single(c, n)
  <1>1. KnowsFile(c)
    BY DEF Serial
  <1>2. ASSUME NEW n \in Incarnations PROVE Single(c, n)
    <2>1. Tracked(n) /\ KilledIsForgotten(n) /\ ReportedIsForgotten(n)
      BY DEF Serial
    <2>2. \A d \in Commands : pc[d] \in {"write", "undo", "clear"} => d = c
      BY DEF OthersIdle
    <2> QED
      BY <2>1, <2>2 DEF Tracked, KilledIsForgotten, ReportedIsForgotten, Single
  <1> QED
    BY <1>1, <1>2

\* What one command's view comes to, and that it is all there is to say.
OneView(c) == OthersIdle(c) /\ KnowsFile(c) /\ \A n \in Incarnations : Single(c, n)

OneViewIsAll == \A c \in Commands : OneView(c) => Serial

\* It is all.
LEMMA SingleToSerial == OneViewIsAll
  <1> SUFFICES ASSUME NEW c \in Commands, OthersIdle(c), KnowsFile(c),
                      \A n \in Incarnations : Single(c, n)
               PROVE  Serial
    BY DEF OneViewIsAll, OneView
  <1>1. Alone
    BY DEF OthersIdle, Alone
  <1>2. ASSUME NEW d \in Commands PROVE KnowsFile(d)
    <2>1. CASE d = c
      BY <2>1
    <2>2. CASE d # c
      BY <2>2 DEF OthersIdle, KnowsFile
    <2> QED
      BY <2>1, <2>2
  <1>3. ASSUME NEW n \in Incarnations
        PROVE  Tracked(n) /\ KilledIsForgotten(n) /\ ReportedIsForgotten(n)
    <2>1. \A d \in Commands : d = c \/ pc[d] = "idle"
      BY DEF OthersIdle
    <2> QED
      BY <2>1 DEF Single, Tracked, KilledIsForgotten, ReportedIsForgotten
  <1> QED
    BY <1>1, <1>2, <1>3 DEF Serial

\* The same after a step.
LEMMA SingleToSerialNext == OneViewIsAll'
  BY SingleToSerial, PTL

\* Nobody is under way when the first command starts.
LEMMA InitSerial == Init => Serial
  <1> SUFFICES ASSUME Init PROVE Serial
    OBVIOUS
  <1>1. ASSUME NEW n \in Incarnations
        PROVE  Tracked(n) /\ KilledIsForgotten(n) /\ ReportedIsForgotten(n)
    BY <1>1 DEF Init, Tracked, Live, KilledIsForgotten, ReportedIsForgotten
  <1> QED
    BY <1>1 DEF Init, Serial, Alone, KnowsFile

\* A step of the only command under way leaves the other commands idle, and the
\* files, the processes and the reports as Serial says.
LEMMA ContinueSerial ==
  ASSUME IInv, Serial, ~overlapped, NEW c \in Commands, Continue(c) \/ Interrupted(c)
  PROVE  Serial'
  <1> USE DEF files, At, Holds
  <1>0. TypeOK /\ Fit(c) /\ RecordLaunched /\ DeathsAreReal /\ TypeOK'
    BY StepsTyped DEF IInv, HeldCopies, Next
  <1>1. pc[c] # "idle"
    <2>1. WhenDown(verb[c]) \in {"spawn", "consume", "idle"}
      BY <1>0, FirstSteps DEF TypeOK
    <2> QED
      BY DEF Continue, Interrupted, Bury, ClearDead, SpawnRefused, Spawn, WriteRecord, Undo, Supersede,
             StopKill, StopClear, ReadTomb, UnlinkTomb, TellDeath
  <1>2. OthersIdle(c)
    BY <1>1 DEF Serial, Alone, OthersIdle
  <1>3. KnowsFile(c) /\ \A n \in Incarnations : Single(c, n)
    BY <1>2, SerialToSingle
  <1>4. OthersIdle(c)'
    <2>1. \A d \in Commands : d # c => pc'[d] = pc[d]
      BY <1>0
      DEF Continue, Interrupted, Bury, ClearDead, SpawnRefused, Spawn, WriteRecord, Undo, Supersede,
          StopKill, StopClear, ReadTomb, UnlinkTomb, TellDeath, Return, TypeOK
    <2> QED
      BY <1>2, <2>1 DEF OthersIdle
  <1> SUFFICES ASSUME NEW n PROVE KnowsFile(c)' /\ (n \in Incarnations => Single(c, n)')
    <2>1. KnowsFile(c)' /\ \A n \in Incarnations : Single(c, n)'
      OBVIOUS
    <2> QED
      BY <1>4, <2>1, SingleToSerialNext DEF OneViewIsAll, OneView
  <1>5. n \in Incarnations => Single(c, n) /\ n # None
    BY <1>3, NoneIsNobody
  <1> USE DEF StartsWhole, Unlinked, StopsWhole, Failed, Cut, Smooth, Unlinks, Fails, Mishap
  <1>6. CASE Bury(c)
    BY <1>0, <1>3, <1>5, <1>6 DEF Bury, Fit, Gone, TypeOK, Single, KnowsFile, Live
  <1>7. CASE ClearDead(c)
    <2>1. WhenDown(verb[c]) \in {"spawn", "consume", "idle"}
      BY <1>0, FirstSteps DEF TypeOK
    <2> QED
      BY <1>0, <1>3, <1>5, <1>7, <2>1 DEF ClearDead, TypeOK, Single, KnowsFile, Live
  <1>8. CASE SpawnRefused(c)
    BY <1>0, <1>3, <1>5, <1>8 DEF SpawnRefused, TypeOK, Single, KnowsFile, Live
  <1>9. CASE Spawn(c)
    BY <1>0, <1>3, <1>5, <1>9 DEF Spawn, Unborn, RecordLaunched, DeathsAreReal, Gone, TypeOK, Single, KnowsFile, Live
  <1>10. CASE WriteRecord(c)
    BY <1>0, <1>3, <1>5, <1>10 DEF WriteRecord, TypeOK, Single, KnowsFile, Live
  <1>11. CASE Undo(c)
    BY <1>0, <1>3, <1>5, <1>11 DEF Undo, Return, Kill, DeathsAreReal, Gone, TypeOK, Single, KnowsFile, Live
  <1>12. CASE Supersede(c)
    BY <1>0, <1>3, <1>5, <1>12 DEF Supersede, Return, TypeOK, Single, KnowsFile, Live
  <1>13. CASE StopKill(c)
    BY <1>0, <1>3, <1>5, <1>13 DEF StopKill, Kill, DeathsAreReal, Gone, TypeOK, Single, KnowsFile, Live
  <1>14. CASE StopClear(c)
    BY <1>0, <1>3, <1>5, <1>14 DEF StopClear, Return, TypeOK, Single, KnowsFile, Live
  <1>15. CASE ReadTomb(c)
    BY <1>0, <1>3, <1>5, <1>15 DEF ReadTomb, TypeOK, Single, KnowsFile, Live
  <1>16. CASE UnlinkTomb(c)
    BY <1>0, <1>3, <1>5, <1>16 DEF UnlinkTomb, TypeOK, Single, KnowsFile, Live
  <1>17. CASE TellDeath(c)
    BY <1>0, <1>3, <1>5, <1>17 DEF TellDeath, Return, TypeOK, Single, KnowsFile, Live
  <1>18. CASE Interrupted(c)
    BY <1>0, <1>3, <1>5, <1>18 DEF Interrupted, Return, TypeOK, Single, KnowsFile, Live
  <1> QED
    BY <1>6, <1>7, <1>8, <1>9, <1>10, <1>11, <1>12, <1>13, <1>14, <1>15, <1>16, <1>17, <1>18 DEF Continue

\* A command that starts alone finds the files as its first step expects them.
LEMMA BeginSerial ==
  ASSUME IInv, Serial, ~overlapped', NEW c \in Commands, NEW v \in Verbs[c], Begin(c, v)
  PROVE  Serial'
  <1> USE DEF files, Holds
  <1>0. TypeOK /\ RecordLaunched /\ DeathsAreReal /\ TypeOK'
    BY StepsTyped DEF IInv, Next
  <1>1. ~overlapped /\ (\A d \in Commands : pc[d] = "idle")
    BY DEF Begin
  <1>2. OthersIdle(c)
    BY <1>1 DEF OthersIdle
  <1>3. KnowsFile(c) /\ \A n \in Incarnations : Single(c, n)
    BY <1>1, <1>2, SerialToSingle
  <1>4. OthersIdle(c)'
    BY <1>0, <1>1 DEF Begin, OthersIdle, TypeOK
  <1>5. WhenDown(v) \in {"spawn", "consume", "idle"} /\ WhenUp(v) \in {"kill", "idle"}
    BY BoundsAssumption, FirstSteps
  <1> SUFFICES ASSUME NEW n PROVE KnowsFile(c)' /\ (n \in Incarnations => Single(c, n)')
    <2>1. KnowsFile(c)' /\ \A n \in Incarnations : Single(c, n)'
      OBVIOUS
    <2> QED
      BY <1>4, <2>1, SingleToSerialNext DEF OneViewIsAll, OneView
  <1>6. n \in Incarnations => Single(c, n) /\ n # None
    BY <1>3, NoneIsNobody
  <1> USE DEF StartsWhole, Unlinked, StopsWhole, Failed, Cut
  <1>7. CASE record = None
    BY <1>0, <1>1, <1>5, <1>6, <1>7 DEF Begin, TypeOK, Single, KnowsFile, Live
  <1>8. CASE record # None /\ Live(record)
    BY <1>0, <1>1, <1>5, <1>6, <1>8 DEF Begin, TypeOK, Single, KnowsFile, Live
  <1>9. CASE record # None /\ ~Live(record)
    BY <1>0, <1>1, <1>5, <1>6, <1>9 DEF Begin, TypeOK, Single, KnowsFile, Live
  <1> QED
    BY <1>7, <1>8, <1>9

\* The death of a process, whoever is under way.
LEMMA DiesSerial ==
  ASSUME IInv, Serial, NEW n \in Incarnations, Dies(n)
  PROVE  Serial'
  <1> USE DEF files, StartsWhole, Unlinked, StopsWhole, Failed, Cut
  <1>1. CASE overlapped
    BY <1>1 DEF Dies, Serial
  <1>2. CASE ~overlapped
    <2>1. Alone' /\ \A c \in Commands : KnowsFile(c)'
      <3>1. Live(record)' => Live(record)
        BY DEF Dies, Live, IInv, TypeOK
      <3> QED
        BY <1>2, <3>1 DEF Dies, Serial, Alone, KnowsFile
    <2>2. ASSUME NEW m \in Incarnations
          PROVE  Tracked(m)' /\ KilledIsForgotten(m)' /\ ReportedIsForgotten(m)'
      <3>1. Tracked(m) /\ KilledIsForgotten(m) /\ ReportedIsForgotten(m)
        BY <1>2 DEF Serial
      <3>2. proc' [m] = proc[m] \/ proc'[m] = "died"
        BY DEF Dies, IInv, TypeOK
      <3> QED
        BY <3>1, <3>2 DEF Dies, Tracked, Live, KilledIsForgotten, ReportedIsForgotten
    <2> QED
      BY <2>1, <2>2 DEF Serial, KnowsFile
  <1> QED
    BY <1>1, <1>2

\* Serial is preserved by every step, stuttering included.
LEMMA NextSerial == IInv /\ Serial /\ [Next]_vars => Serial'
  <1> SUFFICES ASSUME IInv, Serial, [Next]_vars PROVE Serial'
    OBVIOUS
  <1>1. CASE overlapped'
    BY <1>1 DEF Serial
  <1>2. ASSUME ~overlapped', NEW c \in Commands, Continue(c) \/ Interrupted(c) PROVE Serial'
    <2>1. ~overlapped
      BY <1>2
      DEF Continue, Interrupted, Bury, ClearDead, SpawnRefused, Spawn, WriteRecord, Undo, Supersede,
          StopKill, StopClear, ReadTomb, UnlinkTomb, TellDeath
    <2> QED
      BY <1>2, <2>1, ContinueSerial
  <1>3. ASSUME ~overlapped', NEW c \in Commands, NEW v \in Verbs[c], Begin(c, v) PROVE Serial'
    BY <1>3, BeginSerial
  <1>4. ASSUME NEW n \in Incarnations, Dies(n) PROVE Serial'
    BY <1>4, DiesSerial
  <1>5. CASE UNCHANGED vars
    BY <1>5 DEF vars, files, Serial, Alone, KnowsFile, Tracked, Live, KilledIsForgotten,
                ReportedIsForgotten, StartsWhole, Unlinked, StopsWhole, Failed, Cut
  <1> QED
    BY <1>1, <1>2, <1>3, <1>4, <1>5 DEF Next

\* Serial says what its two parts promise.
LEMMA SerialIsExact == TypeOK /\ Serial => OneAtATimeIsExact
  <1> SUFFICES ASSUME TypeOK, Serial PROVE OneAtATimeIsExact
    OBVIOUS
  <1>1. NoneUntracked
    BY DEF Serial, NoneUntracked, Quiet, Tracked, StartsWhole
  <1>2. ASSUME ~overlapped, NEW n \in Incarnations
        PROVE  /\ reported[n] > 1 => Failed("clearDead") \/ Failed("unlink")
               /\ reported[n] > 0 /\ proc[n] = "killed" => Failed("clear") \/ Cut("clear")
    <2>1. KilledIsForgotten(n) /\ ReportedIsForgotten(n) /\ reported[n] \in 0..2
      BY <1>2 DEF Serial, TypeOK
    <2> QED
      BY <2>1 DEF KilledIsForgotten, ReportedIsForgotten, Unlinked, StopsWhole
  <1> QED
    BY <1>1, <1>2 DEF DeathReportedOnce, OneAtATimeIsExact

-----------------------------------------------------------------------------

\* Every reachable state satisfies the invariant (supervisor.py as a whole).
THEOREM Invariance == Spec => []IInv
  BY InitIInv, NextIInv, PTL DEF Spec

\* Every variable stays within its type, for any commands and bounds.
THEOREM TypeCorrect == Spec => []TypeOK
  <1>1. IInv => TypeOK
    BY DEF IInv
  <1> QED
    BY <1>1, Invariance, PTL

\* liveness_check never reports, and _record_death never buries, a process that
\* is alive: however many commands interleave, a live service is not alerted.
THEOREM DeathsAreRealHolds == Spec => []DeathsAreReal
  <1>1. IInv => DeathsAreReal
    BY DEF IInv
  <1> QED
    BY <1>1, Invariance, PTL

\* Commands that never overlap keep the state file and the alerts exact: what
\* runs is what the file names, a death is reported once and a stop never.
THEOREM OneAtATimeIsExactHolds == Spec => []OneAtATimeIsExact
  <1>1. IInv => TypeOK
    BY DEF IInv
  <1>2. Init /\ [][Next]_vars /\ []IInv => []Serial
    BY InitSerial, NextSerial, PTL
  <1> QED
    BY <1>1, <1>2, Invariance, SerialIsExact, PTL DEF Spec

-----------------------------------------------------------------------------
(* Campaign: every batch is accounted for (BatchIsAccounted), and, when    *)
(* invocations do not overlap, no project has two handled runs.            *)
(*                                                                         *)
(* BatchInv strengthens BatchIsAccounted with where the loop is: what is   *)
(* still to be visited or stopped is supervised (Turn), a batch over or    *)
(* not yet planned has nothing pending, and the cap is on what is          *)
(* supervised (Books).  It needs no assumption on how invocations overlap. *)
(*                                                                         *)
(* AloneInv adds, for invocations one at a time, that what is pending is   *)
(* handled by nobody: nothing is launched between the derivation of the    *)
(* batch and its launches but by the invocation itself.                    *)

\* What an outcome says of the record it was read from.
Recorded(i, out) ==
  LET recorded == store[<<i, out.project>>]
  IN  \/ out.state \in TERMINAL /\ recorded = out.state
      \/ (out.state \in TERMINAL \/ out.timedOut) /\ recorded = "cleared"

\* The accounts of an invocation.
Books(i) ==
  /\ \A m, n \in DOMAIN outcomes[i] : outcomes[i][m].project = outcomes[i][n].project => m = n
  /\ pending[i] \cap active[i] = {} /\ pending[i] \cap Reported(i) = {} /\ active[i] \cap Reported(i) = {}
  /\ \A p \in Projects : store[<<i, p>>] # "none" <=> p \in active[i] \cup Reported(i)
  /\ \A n \in DOMAIN outcomes[i] : Recorded(i, outcomes[i][n])
  /\ Cardinality(active[i]) <= MaxConcurrent

\* Where it is in its loop.
Turn(i) ==
  /\ phase[i] \in {"plan", "done"} => pending[i] = {} /\ active[i] = {}
  /\ phase[i] = "plan" => outcomes[i] = <<>>
  /\ phase[i] \notin {"reap", "stop", "kill"} => toReap[i] = {}
  /\ phase[i] \notin {"stop", "kill"} => victim[i] = {}
  /\ toReap[i] \subseteq active[i]
  /\ victim[i] \subseteq active[i] \ toReap[i]

\* What a clear has found settled is settled when it unlinks it: the campaign gives no
\* settled record a second life.
Forgettable == \A x \in clearing : store[x] \in TERMINAL \cup {"cleared"}

BatchInv == BatchTypeOK /\ Forgettable /\ \A i \in Invocations : Books(i) /\ Turn(i)

-----------------------------------------------------------------------------
(* Typing. *)

\* The initial values are of their kinds.
LEMMA TypeInit == BatchInit => BatchTypeOK
  BY PolicyAssumption DEF BatchInit, BatchTypeOK, Phases, RunIds, TERMINAL, Outcome

\* What a step of the loop does to one variable keeps its type.
LEMMA PartsTyped ==
  ASSUME BatchTypeOK, NEW i \in Invocations, NEW p \in Projects
  PROVE  /\ \A place \in Phases : PhaseTo(i, place) => phase' \in [Invocations -> Phases]
         /\ \A out \in Outcome : Report(i, out) => outcomes' \in [Invocations -> Seq(Outcome)]
         /\ Retire(i, p) => /\ active' \in [Invocations -> SUBSET Projects]
                            /\ age' \in [RunIds -> 0..Timeout]
         /\ Visited(i, p) => toReap' \in [Invocations -> SUBSET Projects]
         /\ Resume(i) => /\ phase' \in [Invocations -> Phases]
                         /\ victim' \in [Invocations -> SUBSET Projects]
  <1> USE PolicyAssumption DEF BatchTypeOK
  <1>1. \A place \in Phases : PhaseTo(i, place) => phase' \in [Invocations -> Phases]
    BY DEF PhaseTo
  <1>2. ASSUME NEW out \in Outcome, Report(i, out)
        PROVE  outcomes' \in [Invocations -> Seq(Outcome)]
    <2>1. Append(outcomes[i], out) \in Seq(Outcome)
      OBVIOUS
    <2> QED
      BY <1>2, <2>1 DEF Report
  <1>3. Retire(i, p) => active' \in [Invocations -> SUBSET Projects] /\ age' \in [RunIds -> 0..Timeout]
    BY DEF Retire, RunIds
  <1>4. Visited(i, p) => toReap' \in [Invocations -> SUBSET Projects]
    BY DEF Visited
  <1>5. "reap" \in Phases
    BY DEF Phases
  <1>6. Resume(i) => phase' \in [Invocations -> Phases] /\ victim' \in [Invocations -> SUBSET Projects]
    BY <1>1, <1>5 DEF Resume
  <1> QED
    BY <1>1, <1>2, <1>3, <1>4, <1>6

\* A project that is supervised was launched.
LEMMA SupervisedIsLaunched ==
  ASSUME BatchInv, NEW i \in Invocations, NEW p \in active[i]
  PROVE  p \in Projects /\ <<i, p>> \in RunIds /\ store[<<i, p>>] \in TERMINAL \cup {"running", "cleared"}
  <1>1. p \in Projects
    BY DEF BatchInv, BatchTypeOK
  <1> QED
    BY <1>1 DEF BatchInv, BatchTypeOK, Books, RunIds

\* The steps of one invocation.
LEMMA LoopTyped ==
  ASSUME BatchInv, NEW i \in Invocations,
         Plan(i) \/ Launch(i) \/ EndFill(i) \/ BeginReap(i) \/ EndReap(i)
  PROVE  BatchTypeOK'
  <1>0. BatchTypeOK
    BY DEF BatchInv
  <1>1. CASE Plan(i)
    <2>1. Outstanding \in SUBSET Projects /\ First(Outstanding) \in SUBSET Projects
      BY DEF Outstanding, First
    <2> QED
      BY <1>0, <1>1, <2>1 DEF Plan, BatchTypeOK, PhaseTo, Phases
  <1>2. CASE Launch(i)
    <2>1. PICK p \in First(pending[i]), result \in {"running", "failed", "abandoned"} :
            /\ pending' = [pending EXCEPT ![i] = @ \ {p}]
            /\ store' = [store EXCEPT ![<<i, p>>] = result]
            /\ IF result \in TERMINAL
               THEN Report(i, Timely(p, result)) /\ UNCHANGED <<active, age>>
               ELSE /\ active' = [active EXCEPT ![i] = @ \cup {p}]
                    /\ age' = [age EXCEPT ![<<i, p>>] = 0]
                    /\ UNCHANGED outcomes
      BY <1>2 DEF Launch
    <2>2. p \in Projects
      BY <1>0, <2>1 DEF First, BatchTypeOK
    <2>3. outcomes' \in [Invocations -> Seq(Outcome)]
      <3>1. result \in TERMINAL => Timely(p, result) \in Outcome
        BY <2>2 DEF Timely, Outcome
      <3> QED
        BY <1>0, <2>1, <2>2, <3>1, PartsTyped DEF BatchTypeOK
    <2>4. store' \in [RunIds -> {"none", "running", "cleared"} \cup TERMINAL]
      BY <1>0, <2>1, <2>2 DEF BatchTypeOK, RunIds, TERMINAL
    <2>5. pending' \in [Invocations -> SUBSET Projects]
      BY <1>0, <2>1 DEF BatchTypeOK
    <2>6. CASE result \in TERMINAL
      BY <1>0, <1>2, <2>1, <2>3, <2>4, <2>5, <2>6 DEF Launch, BatchTypeOK
    <2>7. CASE result \notin TERMINAL
      <3>1. active' = [active EXCEPT ![i] = @ \cup {p}] /\ age' = [age EXCEPT ![<<i, p>>] = 0]
        BY <2>1, <2>7
      <3>2. active' \in [Invocations -> SUBSET Projects]
        BY <1>0, <2>2, <3>1 DEF BatchTypeOK
      <3>3. age' \in [RunIds -> 0..Timeout]
        BY <1>0, <2>2, <3>1, PolicyAssumption DEF BatchTypeOK, RunIds
      <3> QED
        BY <1>0, <1>2, <2>3, <2>4, <2>5, <3>2, <3>3 DEF Launch, BatchTypeOK
    <2> QED
      BY <2>6, <2>7
  <1>3. CASE EndFill(i)
    BY <1>0, <1>3 DEF EndFill, BatchTypeOK, PhaseTo, Phases
  <1>4. CASE BeginReap(i)
    BY <1>0, <1>4 DEF BeginReap, BatchTypeOK, PhaseTo, Phases
  <1>5. CASE EndReap(i)
    BY <1>0, <1>5 DEF EndReap, BatchTypeOK, PhaseTo, Phases
  <1> QED
    BY <1>1, <1>2, <1>3, <1>4, <1>5

\* A poll and a stop.
LEMMA ReapTyped ==
  ASSUME BatchInv, NEW i \in Invocations, NEW p \in Projects,
         \/ ReapFinished(i, p) \/ ReapRunning(i, p) \/ ReapOverdue(i, p)
         \/ StopUnknown(i, p) \/ StopLoad(i, p) \/ StopFinish(i, p)
  PROVE  BatchTypeOK'
  <1>0. BatchTypeOK /\ toReap[i] \cup victim[i] \subseteq active[i]
    BY DEF BatchInv, Turn
  <1>1. CASE ReapFinished(i, p)
    <2> DEFINE out == Timely(p, IF store[<<i, p>>] = "cleared" THEN "failed" ELSE store[<<i, p>>])
    <2>1. store[<<i, p>>] \in TERMINAL \cup {"cleared"}
      BY <1>0, <1>1, SupervisedIsLaunched DEF ReapFinished
    <2>2. out \in Outcome
      BY <2>1 DEF Timely, Outcome, TERMINAL
    <2> QED
      BY <1>0, <1>1, <2>2, PartsTyped DEF ReapFinished, BatchTypeOK
  <1>2. CASE ReapRunning(i, p)
    BY <1>0, <1>2 DEF ReapRunning, Visited, BatchTypeOK
  <1>3. CASE ReapOverdue(i, p)
    BY <1>0, <1>3 DEF ReapOverdue, BatchTypeOK, PhaseTo, Phases
  <1>4. CASE StopUnknown(i, p)
    <2>1. Killed(p, "running") \in Outcome
      BY DEF Killed, Outcome
    <2> QED
      BY <1>0, <1>4, <2>1, PartsTyped DEF StopUnknown, BatchTypeOK
  <1>5. CASE StopLoad(i, p) /\ store[<<i, p>>] \in TERMINAL
    <2>1. Killed(p, store[<<i, p>>]) \in Outcome
      BY <1>5 DEF Killed, Outcome
    <2> QED
      BY <1>0, <1>5, <2>1, PartsTyped DEF StopLoad, BatchTypeOK
  <1>6. CASE StopLoad(i, p) /\ store[<<i, p>>] \notin TERMINAL
    BY <1>0, <1>6 DEF StopLoad, BatchTypeOK, PhaseTo, Phases
  <1>7. CASE StopFinish(i, p)
    <2> DEFINE settled == IF store[<<i, p>>] \in TERMINAL THEN store[<<i, p>>] ELSE "abandoned"
    <2>1. settled \in TERMINAL
      BY DEF TERMINAL
    <2>2. Killed(p, settled) \in Outcome
      BY <2>1 DEF Killed, Outcome
    <2>3. store' = [store EXCEPT ![<<i, p>>] = settled] /\ Report(i, Killed(p, settled))
      BY <1>7 DEF StopFinish
    <2>4. store' \in [RunIds -> {"none", "running", "cleared"} \cup TERMINAL]
      <3> HIDE DEF settled
      <3> QED
        BY <1>0, <2>1, <2>3 DEF BatchTypeOK, RunIds
    <2>5. outcomes' \in [Invocations -> Seq(Outcome)]
      <3> HIDE DEF settled
      <3> QED
        BY <1>0, <2>2, <2>3, PartsTyped
    <2> QED
      BY <1>0, <1>7, <2>4, <2>5, PartsTyped DEF StopFinish, BatchTypeOK
  <1> QED
    BY <1>1, <1>2, <1>3, <1>4, <1>5, <1>6, <1>7

\* The runs and the clock.
LEMMA EnvironmentTyped ==
  ASSUME BatchTypeOK, (\E x \in RunIds : RunEnds(x) \/ OperatorAsks(x) \/ OperatorClears(x)) \/ Tick
  PROVE  BatchTypeOK'
  <1>1. ASSUME NEW x \in RunIds, RunEnds(x)
        PROVE  BatchTypeOK'
    <2>1. store' \in [RunIds -> {"none", "running", "cleared"} \cup TERMINAL]
      BY <1>1, PolicyAssumption DEF RunEnds, BatchTypeOK, TERMINAL
    <2> QED
      BY <1>1, <2>1 DEF RunEnds, BatchTypeOK, loop
  <1>2. ASSUME NEW x \in RunIds, OperatorAsks(x)
        PROVE  BatchTypeOK'
    BY <1>2, PolicyAssumption DEF OperatorAsks, BatchTypeOK, loop
  <1>3. ASSUME NEW x \in RunIds, OperatorClears(x)
        PROVE  BatchTypeOK'
    BY <1>3, PolicyAssumption DEF OperatorClears, BatchTypeOK, loop
  <1>4. CASE Tick
    BY <1>4, PolicyAssumption DEF Tick, BatchTypeOK, RunIds
  <1> QED
    BY <1>1, <1>2, <1>3, <1>4

-----------------------------------------------------------------------------
(* The accounts. *)

\* What a step does not touch of an invocation.
Untouched(i) ==
  /\ phase'[i] = phase[i] /\ pending'[i] = pending[i] /\ active'[i] = active[i]
  /\ toReap'[i] = toReap[i] /\ victim'[i] = victim[i] /\ outcomes'[i] = outcomes[i]

\* A run that ends keeps its record, and a record that is settled is kept or forgotten.
Settles(i) ==
  \A p \in Projects :
    \/ store'[<<i, p>>] = store[<<i, p>>]
    \/ store[<<i, p>>] = "running" /\ store'[<<i, p>>] \in TERMINAL
    \/ store[<<i, p>>] \in TERMINAL /\ store'[<<i, p>>] = "cleared"

\* An outcome is about a project of the fleet.
LEMMA ReportedTyped ==
  ASSUME BatchTypeOK, NEW i \in Invocations
  PROVE  /\ \A n \in DOMAIN outcomes[i] : outcomes[i][n] \in Outcome /\ outcomes[i][n].project \in Projects
         /\ Reported(i) \subseteq Projects
  <1>1. outcomes[i] \in Seq(Outcome)
    BY DEF BatchTypeOK
  <1>2. ASSUME NEW n \in DOMAIN outcomes[i]
        PROVE  outcomes[i][n] \in Outcome /\ outcomes[i][n].project \in Projects
    <2>1. outcomes[i][n] \in Outcome
      BY <1>1, <1>2
    <2> QED
      BY <2>1 DEF Outcome
  <1> QED
    BY <1>2 DEF Reported

\* The accounts survive what happens to the records, as long as the loop stands still
\* or only moves what is pending to nowhere.
LEMMA BooksStand ==
  ASSUME BatchTypeOK, NEW i \in Invocations, Books(i), Settles(i),
         pending'[i] = pending[i], active'[i] = active[i], outcomes'[i] = outcomes[i]
  PROVE  Books(i)'
  <1>1. Reported(i)' = Reported(i)
    BY DEF Reported
  <1>2. \A p \in Projects : store[<<i, p>>] # "none" <=> store'[<<i, p>>] # "none"
    BY DEF Settles, TERMINAL
  <1>3. ASSUME NEW n \in DOMAIN outcomes[i]
        PROVE  Recorded(i, outcomes[i][n])'
    BY <1>3, ReportedTyped DEF Books, Recorded, Settles, TERMINAL
  <1> QED
    BY <1>1, <1>2, <1>3 DEF Books, Recorded

\* ... and so does all of an invocation that a step does not touch.
LEMMA OthersStand ==
  ASSUME BatchTypeOK, NEW i \in Invocations, Books(i), Turn(i), Settles(i), Untouched(i)
  PROVE  Books(i)' /\ Turn(i)'
  <1>1. Books(i)'
    BY BooksStand DEF Untouched
  <1> QED
    BY <1>1 DEF Untouched, Turn

\* A report adds one outcome and keeps the others.
LEMMA ReportAdds ==
  ASSUME BatchTypeOK, NEW i \in Invocations, NEW out \in Outcome, Report(i, out)
  PROVE  /\ \A n \in DOMAIN outcomes[i] : n \in DOMAIN outcomes'[i] /\ outcomes'[i][n] = outcomes[i][n]
         /\ \A n \in DOMAIN outcomes'[i] : n \in DOMAIN outcomes[i] \/ n = Len(outcomes[i]) + 1
         /\ Len(outcomes[i]) + 1 \notin DOMAIN outcomes[i]
         /\ outcomes'[i][Len(outcomes[i]) + 1] = out
         /\ Reported(i)' = Reported(i) \cup {out.project}
  <1>1. outcomes'[i] = Append(outcomes[i], out) /\ outcomes[i] \in Seq(Outcome)
    BY DEF Report, BatchTypeOK
  <1>2. Len(outcomes[i]) \in Nat /\ DOMAIN outcomes[i] = 1..Len(outcomes[i])
        /\ DOMAIN outcomes'[i] = 1..Len(outcomes[i]) + 1
    BY <1>1
  <1>3. \A n \in DOMAIN outcomes[i] : n \in DOMAIN outcomes'[i] /\ outcomes'[i][n] = outcomes[i][n]
    BY <1>1, <1>2
  <1>4. Len(outcomes[i]) + 1 \in DOMAIN outcomes'[i] /\ outcomes'[i][Len(outcomes[i]) + 1] = out
    BY <1>1, <1>2
  <1>5. \A n \in DOMAIN outcomes'[i] : n \in DOMAIN outcomes[i] \/ n = Len(outcomes[i]) + 1
    BY <1>2
  <1>6. Len(outcomes[i]) + 1 \notin DOMAIN outcomes[i]
    BY <1>2
  <1>7. Reported(i)' = Reported(i) \cup {out.project}
    BY <1>3, <1>4, <1>5 DEF Reported
  <1> QED
    BY <1>3, <1>4, <1>5, <1>6, <1>7

\* A report about a project that had none, of a record that bears it out, keeps the accounts.
LEMMA ReportBalances ==
  ASSUME BatchTypeOK, NEW i \in Invocations, Books(i), NEW out \in Outcome, Report(i, out),
         out.project \notin Reported(i),
         Recorded(i, out)',
         \A q \in Projects \ {out.project} : store'[<<i, q>>] = store[<<i, q>>],
         pending'[i] = pending[i] \ {out.project}, active'[i] = active[i] \ {out.project}
  PROVE  Books(i)'
  <1> DEFINE p == out.project
  <1>1. p \in Projects
    BY DEF Outcome
  <1>2. Reported(i)' = Reported(i) \cup {p}
    BY ReportAdds
  <1>3. store'[<<i, p>>] # "none"
    BY DEF Recorded, TERMINAL
  <1>4. \A q \in Projects : store'[<<i, q>>] # "none" <=> q \in active'[i] \cup Reported(i)'
    BY <1>2, <1>3 DEF Books
  <1>5. \A m, n \in DOMAIN outcomes'[i] : outcomes'[i][m].project = outcomes'[i][n].project => m = n
    <2>1. \A m \in DOMAIN outcomes[i] : outcomes[i][m].project # p
      BY DEF Reported
    <2> QED
      BY <2>1, ReportAdds DEF Books
  <1>6. ASSUME NEW n \in DOMAIN outcomes'[i]
        PROVE  Recorded(i, outcomes[i][n])'
    <2>1. CASE n \in DOMAIN outcomes[i]
      <3>1. outcomes'[i][n] = outcomes[i][n] /\ outcomes[i][n].project \in Projects \ {p}
        BY <2>1, ReportAdds, ReportedTyped DEF Reported
      <3>2. Recorded(i, outcomes[i][n])
        BY <2>1 DEF Books
      <3> QED
        BY <2>1, <3>1, <3>2 DEF Recorded
    <2>2. CASE n = Len(outcomes[i]) + 1
      BY <2>2, ReportAdds
    <2> QED
      BY <2>1, <2>2, <1>6, ReportAdds
  <1>7. Cardinality(active'[i]) <= MaxConcurrent
    <2>1. IsFiniteSet(active[i])
      BY FS_Subset, PolicyAssumption DEF BatchTypeOK
    <2>2. Cardinality(active[i]) \in Nat /\ Cardinality(active'[i]) \in Nat
          /\ Cardinality(active'[i]) <= Cardinality(active[i])
      BY <2>1, FS_Subset, FS_CardinalityType
    <2> QED
      BY <2>2, PolicyAssumption DEF Books
  <1> QED
    BY <1>2, <1>4, <1>5, <1>6, <1>7 DEF Books

-----------------------------------------------------------------------------
(* The steps of an invocation. *)

\* A step of one invocation leaves the loops of the others alone, and their records.
LEMMA OthersAreLeftAlone ==
  ASSUME BatchTypeOK, NEW i \in Invocations, Step(i), NEW j \in Invocations \ {i}
  PROVE  Untouched(j) /\ \A p \in Projects : store'[<<j, p>>] = store[<<j, p>>]
  <1> USE DEF BatchTypeOK, Untouched, PhaseTo, Report, Retire, Resume, Visited
  <1>1. CASE Plan(i)
    BY <1>1 DEF Plan
  <1>2. CASE Launch(i)
    <2>1. PICK p \in First(pending[i]), result \in {"running", "failed", "abandoned"} :
            /\ pending' = [pending EXCEPT ![i] = @ \ {p}]
            /\ store' = [store EXCEPT ![<<i, p>>] = result]
            /\ \/ Report(i, Timely(p, result)) /\ UNCHANGED active
               \/ active' = [active EXCEPT ![i] = @ \cup {p}] /\ UNCHANGED outcomes
      BY <1>2 DEF Launch
    <2> QED
      BY <1>2, <2>1 DEF Launch, RunIds
  <1>3. CASE EndFill(i) \/ BeginReap(i) \/ EndReap(i)
    BY <1>3 DEF EndFill, BeginReap, EndReap
  <1>4. ASSUME NEW p \in Projects, ReapFinished(i, p) \/ ReapRunning(i, p) \/ ReapOverdue(i, p)
        PROVE  Untouched(j) /\ UNCHANGED store
    BY <1>4 DEF ReapFinished, ReapRunning, ReapOverdue
  <1>5. ASSUME NEW p \in Projects, StopUnknown(i, p)
        PROVE  Untouched(j) /\ UNCHANGED store
    BY <1>5 DEF StopUnknown
  <1>6. ASSUME NEW p \in Projects, StopLoad(i, p)
        PROVE  Untouched(j) /\ UNCHANGED store
    <2>1. CASE store[<<i, p>>] \in TERMINAL
      BY <1>6, <2>1 DEF StopLoad
    <2>2. CASE store[<<i, p>>] \notin TERMINAL
      BY <1>6, <2>2 DEF StopLoad
    <2> QED
      BY <2>1, <2>2
  <1>7. ASSUME NEW p \in Projects, StopFinish(i, p)
        PROVE  Untouched(j) /\ \A q \in Projects : store'[<<j, q>>] = store[<<j, q>>]
    <2>1. \E s : store' = [store EXCEPT ![<<i, p>>] = s]
      BY <1>7 DEF StopFinish
    <2>2. \A q \in Projects : store'[<<j, q>>] = store[<<j, q>>]
      BY <2>1 DEF RunIds
    <2>3. Untouched(j)
      BY <1>7 DEF StopFinish
    <2> QED
      BY <2>2, <2>3
  <1> QED
    BY <1>1, <1>2, <1>3, <1>4, <1>5, <1>6, <1>7 DEF Step

\* The canary or the batch: nothing was launched yet.
LEMMA PlanWell ==
  ASSUME BatchInv, NEW i \in Invocations, Plan(i)
  PROVE  Books(i)' /\ Turn(i)'
  <1>1. phase[i] = "plan" /\ active[i] = {} /\ outcomes[i] = <<>> /\ toReap[i] = {} /\ victim[i] = {}
    BY DEF Plan, BatchInv, Turn
  <1>2. UNCHANGED <<store, active, outcomes, toReap, victim>>
    BY DEF Plan
  <1>3. phase'[i] = IF Outstanding = {} THEN "done" ELSE "fill"
    BY DEF Plan, PhaseTo, BatchInv, BatchTypeOK
  <1>4. pending'[i] \subseteq Outstanding
    <2>1. First(Outstanding) \subseteq Outstanding
      BY DEF First
    <2> QED
      BY <2>1 DEF Plan, BatchInv, BatchTypeOK
  <1>5. Reported(i) = {} /\ Reported(i)' = {}
    BY <1>1, <1>2 DEF Reported
  <1>6. Books(i)
    BY DEF BatchInv
  <1>7. Books(i)'
    BY <1>1, <1>2, <1>5, <1>6 DEF Books, Recorded
  <1>8. Turn(i)'
    BY <1>1, <1>2, <1>3, <1>4 DEF Turn
  <1> QED
    BY <1>7, <1>8

\* A turn of _fill: the project leaves the batch for the table or for its outcome.
LEMMA LaunchWell ==
  ASSUME BatchInv, NEW i \in Invocations, Launch(i)
  PROVE  Books(i)' /\ Turn(i)'
  <1>0. BatchTypeOK /\ Books(i) /\ Turn(i) /\ phase[i] = "fill" /\ Room(i) /\ UNCHANGED <<phase, toReap, victim>>
    BY DEF BatchInv, Launch
  <1>1. PICK p \in First(pending[i]), result \in {"running", "failed", "abandoned"} :
          /\ pending' = [pending EXCEPT ![i] = @ \ {p}]
          /\ store' = [store EXCEPT ![<<i, p>>] = result]
          /\ IF result \in TERMINAL
             THEN Report(i, Timely(p, result)) /\ UNCHANGED <<active, age>>
             ELSE /\ active' = [active EXCEPT ![i] = @ \cup {p}]
                  /\ age' = [age EXCEPT ![<<i, p>>] = 0]
                  /\ UNCHANGED outcomes
    BY DEF Launch
  <1>2. p \in pending[i] /\ p \in Projects /\ p \notin active[i] /\ p \notin Reported(i)
    BY <1>0, <1>1 DEF First, BatchTypeOK, Books
  <1>3. /\ pending'[i] = pending[i] \ {p} /\ store'[<<i, p>>] = result
        /\ \A q \in Projects \ {p} : store'[<<i, q>>] = store[<<i, q>>]
    BY <1>0, <1>1, <1>2 DEF BatchTypeOK, RunIds
  <1>4. CASE result \in TERMINAL
    <2> DEFINE out == Timely(p, result)
    <2>1. out \in Outcome /\ out.project = p /\ out.state = result /\ Report(i, out) /\ UNCHANGED active
      BY <1>1, <1>2, <1>4 DEF Timely, Outcome
    <2>2. Recorded(i, out)'
      BY <1>3, <1>4, <2>1 DEF Recorded
    <2>3. Books(i)'
      <3> HIDE DEF out
      <3> QED
        BY <1>0, <1>2, <1>3, <2>1, <2>2, ReportBalances
    <2> QED
      BY <1>0, <2>1, <2>3 DEF Turn
  <1>5. CASE result \notin TERMINAL
    <2>1. active'[i] = active[i] \cup {p} /\ UNCHANGED outcomes /\ result = "running"
      BY <1>0, <1>1, <1>5 DEF BatchTypeOK, TERMINAL
    <2>2. Reported(i)' = Reported(i)
      BY <2>1 DEF Reported
    <2>3. Cardinality(active'[i]) <= MaxConcurrent
      <3>1. IsFiniteSet(active[i])
        BY <1>0, FS_Subset, PolicyAssumption DEF BatchTypeOK
      <3>2. Cardinality(active'[i]) = Cardinality(active[i]) + 1 /\ Cardinality(active[i]) \in Nat
        BY <1>2, <2>1, <3>1, FS_AddElement, FS_CardinalityType
      <3> QED
        BY <1>0, <3>2, PolicyAssumption DEF Room
    <2>4. \A q \in Projects : store'[<<i, q>>] # "none" <=> q \in active'[i] \cup Reported(i)'
      BY <1>0, <1>3, <2>1, <2>2 DEF Books
    <2>5. ASSUME NEW n \in DOMAIN outcomes[i]
          PROVE  Recorded(i, outcomes[i][n])'
      <3>1. outcomes[i][n].project \in Projects \ {p} /\ Recorded(i, outcomes[i][n])
        BY <1>0, <1>2, ReportedTyped DEF Reported, Books
      <3> QED
        BY <1>3, <3>1, <2>1 DEF Recorded
    <2>6. Books(i)'
      BY <1>0, <1>2, <1>3, <2>1, <2>2, <2>3, <2>4, <2>5 DEF Books
    <2> QED
      BY <1>0, <2>1, <2>6 DEF Turn
  <1> QED
    BY <1>4, <1>5

\* _fill and _reap begin and end.
LEMMA LoopWell ==
  ASSUME BatchInv, NEW i \in Invocations, EndFill(i) \/ BeginReap(i) \/ EndReap(i)
  PROVE  Books(i)' /\ Turn(i)'
  <1>0. BatchTypeOK /\ Books(i) /\ Turn(i)
    BY DEF BatchInv
  <1>1. UNCHANGED <<store, pending, active, outcomes, victim>>
    BY DEF EndFill, BeginReap, EndReap
  <1>2. Books(i)'
    BY <1>0, <1>1, BooksStand DEF Settles
  <1>3. CASE EndFill(i)
    <2>1. active[i] = {} => pending[i] = {}
      BY <1>3, FS_EmptySet, PolicyAssumption DEF EndFill, Room
    <2>2. phase[i] = "fill" /\ phase'[i] = (IF active[i] = {} THEN "done" ELSE "sleep") /\ UNCHANGED toReap
      BY <1>0, <1>3 DEF EndFill, PhaseTo, BatchTypeOK
    <2> QED
      BY <1>0, <1>1, <1>2, <2>1, <2>2 DEF Turn
  <1>4. CASE BeginReap(i)
    <2>1. phase[i] = "sleep" /\ phase'[i] = "reap" /\ toReap'[i] = active[i]
      BY <1>0, <1>4 DEF BeginReap, PhaseTo, BatchTypeOK
    <2> QED
      BY <1>0, <1>1, <1>2, <2>1 DEF Turn
  <1>5. CASE EndReap(i)
    <2>1. /\ phase[i] = "reap" /\ toReap[i] = {} /\ UNCHANGED toReap
          /\ phase'[i] = (IF pending[i] = {} /\ active[i] = {} THEN "done" ELSE "fill")
      BY <1>0, <1>5 DEF EndReap, PhaseTo, BatchTypeOK
    <2> QED
      BY <1>0, <1>1, <1>2, <2>1 DEF Turn
  <1> QED
    BY <1>3, <1>4, <1>5

\* A run that is retired with an outcome its record bears out.
LEMMA RetireWell ==
  ASSUME BatchInv, NEW i \in Invocations, NEW p \in active[i], NEW out \in Outcome,
         out.project = p, Report(i, out), Retire(i, p), UNCHANGED pending,
         \A q \in Projects \ {p} : store'[<<i, q>>] = store[<<i, q>>],
         Recorded(i, out)'
  PROVE  Books(i)' /\ active'[i] = active[i] \ {p}
  <1>1. p \in Projects /\ active'[i] = active[i] \ {p} /\ BatchTypeOK /\ Books(i)
    BY DEF Retire, BatchInv, BatchTypeOK
  <1>2. p \notin Reported(i) /\ pending'[i] = pending[i] \ {p}
    BY <1>1 DEF Books
  <1> QED
    BY <1>1, <1>2, ReportBalances

\* A poll: of a run that is over, still going, or past its deadline.
LEMMA ReapWell ==
  ASSUME BatchInv, NEW i \in Invocations, NEW p \in Projects,
         ReapFinished(i, p) \/ ReapRunning(i, p) \/ ReapOverdue(i, p)
  PROVE  Books(i)' /\ Turn(i)'
  <1>0. BatchTypeOK /\ Books(i) /\ Turn(i) /\ phase[i] = "reap" /\ p \in toReap[i] /\ p \in active[i]
        /\ victim[i] = {} /\ toReap'[i] = toReap[i] \ {p} /\ UNCHANGED <<store, pending>>
    BY DEF BatchInv, Turn, BatchTypeOK, ReapFinished, ReapRunning, ReapOverdue, Visited
  <1>1. CASE ReapFinished(i, p)
    <2> DEFINE read == store[<<i, p>>]
    <2>1. read \in TERMINAL \cup {"cleared"}
      BY <1>0, <1>1, SupervisedIsLaunched DEF ReapFinished
    <2>2. PICK out \in Outcome : /\ out.project = p /\ Report(i, out)
                                 /\ out.state = IF read = "cleared" THEN "failed" ELSE read
      <3> DEFINE timely == Timely(p, IF read = "cleared" THEN "failed" ELSE read)
      <3>1. timely \in Outcome
        BY <2>1 DEF Timely, Outcome, TERMINAL
      <3>2. timely.project = p /\ timely.state = IF read = "cleared" THEN "failed" ELSE read
        BY DEF Timely
      <3>3. Report(i, timely)
        BY <1>1 DEF ReapFinished
      <3> QED
        BY <3>1, <3>2, <3>3
    <2>3. Recorded(i, out)'
      <3>1. read = "cleared" => "failed" \in TERMINAL
        BY DEF TERMINAL
      <3>2. store'[<<i, out.project>>] = read
        BY <1>0, <2>2
      <3> QED
        BY <2>1, <2>2, <3>1, <3>2 DEF Recorded
    <2>4. Retire(i, p) /\ UNCHANGED <<phase, victim>>
      BY <1>1 DEF ReapFinished
    <2>5. Books(i)' /\ active'[i] = active[i] \ {p}
      BY <1>0, <2>2, <2>3, <2>4, RetireWell
    <2> QED
      BY <1>0, <2>4, <2>5 DEF Turn
  <1>2. CASE ReapRunning(i, p)
    <2>1. UNCHANGED <<phase, active, outcomes, victim>>
      BY <1>2 DEF ReapRunning
    <2>2. Books(i)'
      BY <1>0, <2>1, BooksStand DEF Settles
    <2> QED
      BY <1>0, <2>1, <2>2 DEF Turn
  <1>3. CASE ReapOverdue(i, p)
    <2>1. phase'[i] = "stop" /\ victim'[i] = {p} /\ UNCHANGED <<active, outcomes>>
      BY <1>0, <1>3 DEF ReapOverdue, PhaseTo, BatchTypeOK
    <2>2. Books(i)'
      BY <1>0, <2>1, BooksStand DEF Settles
    <2> QED
      BY <1>0, <2>1, <2>2 DEF Turn
  <1> QED
    BY <1>1, <1>2, <1>3

\* work.stop and its return.
LEMMA StopWell ==
  ASSUME BatchInv, NEW i \in Invocations, NEW p \in Projects,
         StopUnknown(i, p) \/ StopLoad(i, p) \/ StopFinish(i, p)
  PROVE  Books(i)' /\ Turn(i)'
  <1>0. BatchTypeOK /\ Books(i) /\ Turn(i) /\ phase[i] \in {"stop", "kill"} /\ victim[i] = {p}
        /\ p \in active[i] /\ p \notin toReap[i] /\ UNCHANGED <<pending, toReap>>
    BY DEF BatchInv, Turn, StopUnknown, StopLoad, StopFinish
  <1>1. ASSUME Resume(i), Books(i)', active'[i] = active[i] \ {p}
        PROVE  Turn(i)'
    <2>1. phase'[i] = "reap" /\ victim'[i] = {}
      BY <1>0, <1>1 DEF Resume, PhaseTo, BatchTypeOK
    <2> QED
      BY <1>0, <1>1, <2>1 DEF Turn
  <1>2. CASE StopUnknown(i, p)
    <2> DEFINE out == Killed(p, "running")
    <2>1. out \in Outcome /\ out.project = p /\ out.timedOut
      BY DEF Killed, Outcome
    <2>2. Report(i, out) /\ Retire(i, p) /\ Resume(i) /\ UNCHANGED store /\ store[<<i, p>>] = "cleared"
      BY <1>2 DEF StopUnknown
    <2>3. Recorded(i, out)'
      BY <2>1, <2>2 DEF Recorded
    <2>4. Books(i)' /\ active'[i] = active[i] \ {p}
      <3> HIDE DEF out
      <3> QED
        BY <1>0, <2>1, <2>2, <2>3, RetireWell
    <2> QED
      BY <1>1, <2>2, <2>4
  <1>3. CASE StopLoad(i, p) /\ store[<<i, p>>] \in TERMINAL
    <2>1. PICK out \in Outcome : out.project = p /\ out.state = store[<<i, p>>] /\ Report(i, out)
      <3>1. Killed(p, store[<<i, p>>]) \in Outcome
        BY <1>3 DEF Killed, Outcome
      <3> QED
        BY <1>3, <3>1 DEF StopLoad, Killed
    <2>2. Retire(i, p) /\ Resume(i) /\ UNCHANGED store
      BY <1>3 DEF StopLoad
    <2>3. Recorded(i, out)'
      BY <1>3, <2>1, <2>2 DEF Recorded
    <2>4. Books(i)' /\ active'[i] = active[i] \ {p}
      BY <1>0, <2>1, <2>2, <2>3, RetireWell
    <2> QED
      BY <1>1, <2>2, <2>4
  <1>4. CASE StopLoad(i, p) /\ store[<<i, p>>] \notin TERMINAL
    <2>1. phase'[i] = "kill" /\ UNCHANGED <<store, active, victim, outcomes>>
      BY <1>0, <1>4 DEF StopLoad, PhaseTo, BatchTypeOK
    <2>2. Books(i)'
      BY <1>0, <2>1, BooksStand DEF Settles
    <2> QED
      BY <1>0, <2>1, <2>2 DEF Turn
  <1>5. CASE StopFinish(i, p)
    <2> DEFINE settled == IF store[<<i, p>>] \in TERMINAL THEN store[<<i, p>>] ELSE "abandoned"
    <2>1. settled \in TERMINAL
      BY DEF TERMINAL
    <2>2. /\ store' = [store EXCEPT ![<<i, p>>] = settled]
          /\ Report(i, Killed(p, settled)) /\ Retire(i, p) /\ Resume(i)
      BY <1>5 DEF StopFinish
    <2> HIDE DEF settled
    <2>3. PICK out \in Outcome : out.project = p /\ out.state = settled /\ Report(i, out)
      <3>1. Killed(p, settled) \in Outcome
        BY <2>1 DEF Killed, Outcome
      <3> QED
        BY <2>2, <3>1 DEF Killed
    <2>4. store'[<<i, p>>] = settled /\ \A q \in Projects \ {p} : store'[<<i, q>>] = store[<<i, q>>]
      BY <1>0, <2>2 DEF BatchTypeOK, RunIds
    <2>5. Recorded(i, out)'
      BY <2>1, <2>3, <2>4 DEF Recorded
    <2>6. Books(i)' /\ active'[i] = active[i] \ {p}
      BY <1>0, <2>2, <2>3, <2>4, <2>5, RetireWell
    <2> QED
      BY <1>1, <2>2, <2>6
  <1> QED
    BY <1>2, <1>3, <1>4, <1>5

-----------------------------------------------------------------------------
(* The invariant. *)

\* At the start nothing is planned.
LEMMA BatchStarts == BatchInit => BatchInv
  <1> SUFFICES ASSUME BatchInit, NEW i \in Invocations PROVE Books(i) /\ Turn(i)
    BY TypeInit DEF BatchInv, Forgettable, BatchInit
  <1>1. /\ phase[i] = "plan" /\ outcomes[i] = <<>>
        /\ pending[i] = {} /\ active[i] = {} /\ toReap[i] = {} /\ victim[i] = {}
        /\ \A p \in Projects : store[<<i, p>>] = "none"
    BY DEF BatchInit, RunIds
  <1>2. Reported(i) = {} /\ Cardinality(active[i]) = 0
    BY <1>1, FS_EmptySet DEF Reported
  <1> QED
    BY <1>1, <1>2, PolicyAssumption DEF Books, Turn

\* No step of an invocation takes a settled record back, and none launches where there is one.
LEMMA ForgettableStands ==
  ASSUME BatchInv, NEW i \in Invocations, Step(i)
  PROVE  Forgettable'
  <1>0. BatchTypeOK /\ Forgettable /\ Books(i)
    BY DEF BatchInv
  <1>1. UNCHANGED clearing /\ clearing \subseteq RunIds
    BY <1>0 DEF Step, Plan, Launch, EndFill, BeginReap, EndReap, ReapFinished, ReapRunning,
                ReapOverdue, StopUnknown, StopLoad, StopFinish, BatchTypeOK
  <1>2. \A x \in RunIds : store[x] \in TERMINAL \cup {"cleared"} => store'[x] \in TERMINAL \cup {"cleared"}
    <2>1. CASE UNCHANGED store
      BY <2>1
    <2>2. CASE Launch(i)
      <3>1. PICK p \in pending[i], result \in {"running", "failed", "abandoned"} :
              store' = [store EXCEPT ![<<i, p>>] = result]
        BY <2>2 DEF Launch, First
      <3>2. store[<<i, p>>] = "none"
        BY <1>0 DEF Books, BatchTypeOK
      <3> QED
        BY <1>0, <3>1, <3>2 DEF BatchTypeOK, TERMINAL, RunIds
    <2>3. ASSUME NEW p \in Projects, StopFinish(i, p)
          PROVE  \A x \in RunIds : store[x] \in TERMINAL \cup {"cleared"}
                                  => store'[x] \in TERMINAL \cup {"cleared"}
      <3>1. \E s \in TERMINAL : store' = [store EXCEPT ![<<i, p>>] = s]
        BY <2>3 DEF StopFinish, TERMINAL
      <3> QED
        BY <1>0, <3>1 DEF BatchTypeOK, RunIds
    <2> QED
      BY <2>1, <2>2, <2>3 DEF Step, Plan, EndFill, BeginReap, EndReap, ReapFinished, ReapRunning,
                              ReapOverdue, StopUnknown, StopLoad
  <1> QED
    BY <1>0, <1>1, <1>2 DEF Forgettable

\* A step keeps the books of the invocation that takes it, and touches no other's.
LEMMA BatchStep == BatchInv /\ [BatchNext]_batchVars => BatchInv'
  <1> SUFFICES ASSUME BatchInv, [BatchNext]_batchVars PROVE BatchInv'
    OBVIOUS
  <1>0. BatchTypeOK /\ Forgettable /\ \A j \in Invocations : Books(j) /\ Turn(j)
    BY DEF BatchInv
  <1>1. ASSUME NEW i \in Invocations, Step(i)
        PROVE  BatchInv'
    <2>1. BatchTypeOK'
      BY <1>1, LoopTyped, ReapTyped DEF Step
    <2>2. Books(i)' /\ Turn(i)'
      BY <1>1, PlanWell, LaunchWell, LoopWell, ReapWell, StopWell DEF Step
    <2>3. ASSUME NEW j \in Invocations \ {i}
          PROVE  Books(j)' /\ Turn(j)'
      BY <1>0, <1>1, OthersAreLeftAlone, OthersStand DEF Settles
    <2> QED
      BY <1>1, <2>1, <2>2, <2>3, ForgettableStands DEF BatchInv
  <1>2. ASSUME NEW x \in RunIds, RunEnds(x) \/ OperatorAsks(x) \/ OperatorClears(x)
        PROVE  BatchInv'
    <2>1. UNCHANGED loop /\ \A y \in RunIds : \/ store'[y] = store[y]
                                              \/ store[y] = "running" /\ store'[y] \in TERMINAL
                                              \/ store[y] \in TERMINAL /\ store'[y] = "cleared"
      <3>1. CASE RunEnds(x)
        BY <1>0, <3>1, PolicyAssumption DEF RunEnds, BatchTypeOK, TERMINAL
      <3>2. CASE OperatorAsks(x)
        BY <3>2 DEF OperatorAsks
      <3>3. CASE OperatorClears(x)
        BY <1>0, <3>3 DEF OperatorClears, Forgettable, BatchTypeOK
      <3> QED
        BY <1>2, <3>1, <3>2, <3>3
    <2>2. \A i \in Invocations : Settles(i) /\ Untouched(i)
      BY <2>1 DEF Settles, Untouched, RunIds, loop
    <2>3. Forgettable'
      <3>1. \A y \in clearing' : y \in clearing \/ store[y] \in TERMINAL
        BY <1>2 DEF RunEnds, OperatorAsks, OperatorClears
      <3>2. clearing' \subseteq RunIds
        BY <1>0, <1>2, EnvironmentTyped DEF BatchTypeOK
      <3> QED
        BY <1>0, <2>1, <3>1, <3>2 DEF Forgettable, TERMINAL
    <2> QED
      BY <1>0, <1>2, <2>2, <2>3, EnvironmentTyped, OthersStand DEF BatchInv
  <1>3. CASE Tick
    <2>1. Forgettable' /\ \A i \in Invocations : Settles(i) /\ Untouched(i)
      BY <1>0, <1>3 DEF Tick, Settles, Untouched, Forgettable
    <2> QED
      BY <1>0, <1>3, <2>1, EnvironmentTyped, OthersStand DEF BatchInv
  <1>4. CASE UNCHANGED batchVars
    <2>1. BatchTypeOK' /\ Forgettable' /\ \A i \in Invocations : Settles(i) /\ Untouched(i)
      BY <1>0, <1>4 DEF batchVars, loop, BatchTypeOK, Settles, Untouched, Forgettable
    <2> QED
      BY <1>0, <2>1, OthersStand DEF BatchInv
  <1> QED
    BY <1>1, <1>2, <1>3, <1>4 DEF BatchNext

\* Every reachable state has its accounts in order, overlapping invocations or not.
THEOREM BatchInvariance == BatchSpec => []BatchInv
  BY BatchStarts, BatchStep, PTL DEF BatchSpec

\* The accounts balance, nothing runs unsupervised or over the cap, and each outcome is
\* the settled state of its run's record (execute, _fill, _reap and work.stop), whatever
\* ends, is stopped or is forgotten meanwhile.
THEOREM BatchIsAccountedHolds == BatchSpec => []BatchIsAccounted
  <1>1. ASSUME BatchInv PROVE BatchIsAccounted
    <2>0. BatchTypeOK /\ \A i \in Invocations : Books(i) /\ Turn(i)
      BY <1>1 DEF BatchInv
    <2>1. OneOutcomeEach
      <3>1. ASSUME NEW i \in Invocations
            PROVE  /\ pending[i] \cap active[i] = {} /\ pending[i] \cap Reported(i) = {}
                   /\ active[i] \cap Reported(i) = {}
                   /\ {p \in Projects : store[<<i, p>>] # "none"} = active[i] \cup Reported(i)
                   /\ phase[i] = "done" => pending[i] = {} /\ active[i] = {}
        <4>1. active[i] \cup Reported(i) \subseteq Projects
          BY <2>0, ReportedTyped DEF BatchTypeOK
        <4> QED
          BY <2>0, <4>1 DEF Books, Turn
      <3> QED
        BY <2>0, <3>1 DEF OneOutcomeEach, Books
    <2>2. RunningIsSupervised
      <3> SUFFICES ASSUME NEW i \in Invocations
                   PROVE  LET going == {p \in Projects : store[<<i, p>>] = "running"}
                          IN  going \subseteq active[i] /\ Cardinality(going) <= MaxConcurrent
        BY DEF RunningIsSupervised
      <3> DEFINE going == {p \in Projects : store[<<i, p>>] = "running"}
      <3>1. going \subseteq active[i]
        <4> SUFFICES ASSUME NEW p \in Projects, store[<<i, p>>] = "running", p \in Reported(i)
                     PROVE  FALSE
          BY <2>0 DEF Books
        <4>1. PICK n \in DOMAIN outcomes[i] : outcomes[i][n].project = p
          BY DEF Reported
        <4> QED
          BY <2>0, <4>1 DEF Books, Recorded, TERMINAL
      <3>2. IsFiniteSet(active[i])
        BY <2>0, FS_Subset, PolicyAssumption DEF BatchTypeOK
      <3>3. /\ Cardinality(going) <= Cardinality(active[i])
            /\ Cardinality(going) \in Nat /\ Cardinality(active[i]) \in Nat
        <4> HIDE DEF going
        <4>1. IsFiniteSet(going) /\ Cardinality(going) <= Cardinality(active[i])
          BY <3>1, <3>2, FS_Subset
        <4> QED
          BY <3>2, <4>1, FS_CardinalityType
      <3> QED
        BY <2>0, <3>1, <3>3, PolicyAssumption DEF Books
    <2>3. NoPrMissed /\ OutcomesAreSettled
      BY <2>0 DEF NoPrMissed, OutcomesAreSettled, Books, Recorded, TERMINAL
    <2> QED
      BY <2>0, <2>1, <2>2, <2>3 DEF BatchIsAccounted
  <1> QED
    BY <1>1, BatchInvariance, PTL

-----------------------------------------------------------------------------
(* Invocations one at a time. *)

Busy(i) == phase[i] \notin {"plan", "done"}
Unclaimed(i) == \A p \in pending[i] : \A j \in Invocations : store[<<j, p>>] \notin HandledStates
AloneInv ==
  /\ \A i, j \in Invocations : Busy(i) /\ Busy(j) => i = j
  /\ \A i \in Invocations : Unclaimed(i)
  /\ OneHandledRun

\* When what counts as handled does not grow, and neither does what is pending or busy.
LEMMA AloneStands ==
  ASSUME BatchInv, AloneInv,
         \A j \in Invocations : \A p \in Projects :
           store'[<<j, p>>] \in HandledStates => store[<<j, p>>] \in HandledStates,
         \A j \in Invocations : pending'[j] \subseteq pending[j] /\ (Busy(j)' => Busy(j))
  PROVE  AloneInv'
  <1>1. \A i \in Invocations : pending'[i] \subseteq Projects
    BY DEF BatchInv, BatchTypeOK
  <1>2. \A i \in Invocations : Unclaimed(i)'
    BY <1>1 DEF AloneInv, Unclaimed
  <1>3. OneHandledRun'
    BY DEF AloneInv, OneHandledRun
  <1> QED
    BY <1>2, <1>3 DEF AloneInv

\* A batch is derived when nobody is launching, and holds what nobody has handled.
LEMMA AlonePlan ==
  ASSUME BatchInv, AloneInv, ~MayOverlap, NEW i \in Invocations, Plan(i)
  PROVE  AloneInv'
  <1>0. BatchTypeOK /\ UNCHANGED store
    BY DEF BatchInv, Plan
  <1>1. \A j \in Invocations : ~Busy(j)
    BY DEF Plan, Busy
  <1>2. \A j \in Invocations \ {i} : phase'[j] = phase[j] /\ pending'[j] = pending[j]
    BY <1>0 DEF Plan, PhaseTo, BatchTypeOK
  <1>3. pending'[i] \subseteq Outstanding
    BY <1>0 DEF Plan, First, BatchTypeOK
  <1>4. \A j, k \in Invocations : Busy(j)' /\ Busy(k)' => j = k
    BY <1>1, <1>2 DEF Busy
  <1>5. Unclaimed(i)'
    BY <1>0, <1>3 DEF Unclaimed, Outstanding, Handled
  <1>6. \A j \in Invocations \ {i} : Unclaimed(j)'
    BY <1>0, <1>2 DEF AloneInv, Unclaimed
  <1>7. OneHandledRun'
    BY <1>0 DEF AloneInv, OneHandledRun
  <1> QED
    BY <1>4, <1>5, <1>6, <1>7 DEF AloneInv

\* What is launched was pending, so nobody had handled it.
LEMMA AloneLaunch ==
  ASSUME BatchInv, AloneInv, NEW i \in Invocations, Launch(i)
  PROVE  AloneInv'
  <1>0. BatchTypeOK /\ Busy(i) /\ UNCHANGED phase
    BY DEF BatchInv, Launch, Busy
  <1>1. PICK p \in First(pending[i]), result \in {"running", "failed", "abandoned"} :
          pending' = [pending EXCEPT ![i] = @ \ {p}] /\ store' = [store EXCEPT ![<<i, p>>] = result]
    BY DEF Launch
  <1>2. p \in pending[i] /\ p \in Projects
    BY <1>0, <1>1 DEF First, BatchTypeOK
  <1>3. \A j \in Invocations : \A q \in Projects :
          <<j, q>> # <<i, p>> => store'[<<j, q>>] = store[<<j, q>>]
    BY <1>0, <1>1, <1>2 DEF BatchTypeOK, RunIds
  <1>4. \A j \in Invocations : store[<<j, p>>] \notin HandledStates
    BY <1>2 DEF AloneInv, Unclaimed
  <1>5. OneHandledRun'
    <2> SUFFICES ASSUME NEW q \in Projects, NEW j \in Invocations, NEW k \in Invocations,
                        store'[<<j, q>>] \in HandledStates, store'[<<k, q>>] \in HandledStates
                 PROVE  j = k
      BY DEF OneHandledRun
    <2>1. CASE q = p
      BY <1>3, <1>4, <2>1
    <2>2. CASE q # p
      BY <1>3, <2>2 DEF AloneInv, OneHandledRun
    <2> QED
      BY <2>1, <2>2
  <1>6. \A j \in Invocations \ {i} : pending[j] = {} /\ pending'[j] = pending[j]
    <2>1. \A j \in Invocations \ {i} : ~Busy(j)
      BY <1>0 DEF AloneInv
    <2> QED
      BY <1>0, <1>1, <2>1 DEF BatchInv, Turn, Busy, BatchTypeOK
  <1>7. \A j \in Invocations : Unclaimed(j)'
    <2>1. pending'[i] = pending[i] \ {p} /\ pending[i] \subseteq Projects
      BY <1>0, <1>1 DEF BatchTypeOK
    <2>2. Unclaimed(i)'
      BY <1>3, <2>1 DEF AloneInv, Unclaimed
    <2> QED
      BY <1>6, <2>2 DEF Unclaimed
  <1>8. \A j, k \in Invocations : Busy(j)' /\ Busy(k)' => j = k
    BY <1>0 DEF AloneInv, Busy
  <1> QED
    BY <1>5, <1>7, <1>8 DEF AloneInv

\* A poll and a stop only settle runs.
LEMMA AloneLoop ==
  ASSUME BatchInv, AloneInv, NEW i \in Invocations, NEW p,
         \/ EndFill(i) \/ BeginReap(i) \/ EndReap(i)
         \/ ReapFinished(i, p) \/ ReapRunning(i, p) \/ ReapOverdue(i, p)
         \/ StopUnknown(i, p) \/ StopLoad(i, p) \/ StopFinish(i, p)
  PROVE  AloneInv'
  <1>0. BatchTypeOK /\ Turn(i)
    BY DEF BatchInv
  <1>1. UNCHANGED pending /\ Busy(i) /\ \A j \in Invocations \ {i} : phase'[j] = phase[j]
    BY <1>0 DEF EndFill, BeginReap, EndReap, ReapFinished, ReapRunning, ReapOverdue, StopUnknown, StopLoad,
                StopFinish, PhaseTo, Resume, Busy, BatchTypeOK
  <1>2. \A j \in Invocations : Busy(j)' => Busy(j)
    BY <1>1 DEF Busy
  <1>3. ASSUME NEW j \in Invocations, NEW q \in Projects, store'[<<j, q>>] \in HandledStates
        PROVE  store[<<j, q>>] \in HandledStates
    <2>1. CASE UNCHANGED store
      BY <1>3, <2>1
    <2>2. CASE StopFinish(i, p)
      <3>1. store' = [store EXCEPT ![<<i, p>>] = IF store[<<i, p>>] \in TERMINAL THEN store[<<i, p>>]
                                                                              ELSE "abandoned"]
        BY <2>2 DEF StopFinish
      <3>2. store'[<<j, q>>] \in {store[<<j, q>>], "abandoned"}
        BY <1>0, <3>1 DEF BatchTypeOK, RunIds
      <3> QED
        BY <1>3, <3>2 DEF HandledStates
    <2> QED
      BY <2>1, <2>2 DEF EndFill, BeginReap, EndReap, ReapFinished, ReapRunning, ReapOverdue, StopUnknown,
                        StopLoad
  <1> QED
    BY <1>1, <1>2, <1>3, AloneStands

\* So does what happens to the runs.
LEMMA AloneWorld ==
  ASSUME BatchInv, AloneInv, NEW x \in RunIds, RunEnds(x) \/ OperatorAsks(x) \/ OperatorClears(x)
  PROVE  AloneInv'
  <1>1. UNCHANGED <<phase, pending>>
    BY DEF RunEnds, OperatorAsks, OperatorClears, loop
  <1>2. \A y \in RunIds : store'[y] \in HandledStates => store[y] \in HandledStates
    BY PolicyAssumption DEF RunEnds, OperatorAsks, OperatorClears, BatchInv, BatchTypeOK, HandledStates
  <1> QED
    BY <1>1, <1>2, AloneStands DEF RunIds, Busy

\* Every step keeps it.
LEMMA AloneStep == BatchInv /\ AloneInv /\ ~MayOverlap /\ [BatchNext]_batchVars => AloneInv'
  <1> SUFFICES ASSUME BatchInv, AloneInv, ~MayOverlap, [BatchNext]_batchVars PROVE AloneInv'
    OBVIOUS
  <1>1. ASSUME NEW i \in Invocations, Step(i)
        PROVE  AloneInv'
    <2>1. CASE Plan(i)
      BY <2>1, AlonePlan
    <2>2. CASE Launch(i)
      BY <2>2, AloneLaunch
    <2>3. CASE EndFill(i) \/ BeginReap(i) \/ EndReap(i)
      BY <2>3, AloneLoop
    <2>4. ASSUME NEW p \in Projects,
                 \/ ReapFinished(i, p) \/ ReapRunning(i, p) \/ ReapOverdue(i, p)
                 \/ StopUnknown(i, p) \/ StopLoad(i, p) \/ StopFinish(i, p)
          PROVE  AloneInv'
      BY <2>4, AloneLoop
    <2> QED
      BY <1>1, <2>1, <2>2, <2>3, <2>4 DEF Step
  <1>2. ASSUME NEW x \in RunIds, RunEnds(x) \/ OperatorAsks(x) \/ OperatorClears(x)
        PROVE  AloneInv'
    BY <1>2, AloneWorld
  <1>3. CASE Tick \/ UNCHANGED batchVars
    BY <1>3, AloneStands DEF Tick, batchVars, loop, Busy
  <1> QED
    BY <1>1, <1>2, <1>3 DEF BatchNext

\* "Must not launch a second run on it" (campaign.py): when no two invocations are alive
\* at once, no project has two runs of the campaign that count as handled, whatever is
\* stopped, fails or is cleared.  The hypothesis is needed: campaign_overlap shows what
\* two overlapping ones do.
THEOREM OneHandledRunHolds == ~MayOverlap => (BatchSpec => []OneHandledRun)
  <1> SUFFICES ASSUME ~MayOverlap PROVE BatchSpec => []OneHandledRun
    OBVIOUS
  <1>1. BatchInit => AloneInv
    BY DEF BatchInit, AloneInv, Busy, Unclaimed, OneHandledRun, HandledStates, RunIds
  <1>2. BatchInv /\ AloneInv /\ [BatchNext]_batchVars => AloneInv'
    BY AloneStep
  <1>3. AloneInv => OneHandledRun
    BY DEF AloneInv
  <1> QED
    BY <1>1, <1>2, <1>3, BatchInvariance, PTL DEF BatchSpec

-----------------------------------------------------------------------------
(* Heartbeat: how old the record may be.                                   *)
(*                                                                         *)
(* OnSchedule is why a live watch alarms nobody: while the timer fires and *)
(* every pass is recorded, the record is at most one pass older than the   *)
(* schedule, and the schedule starts a pass before it is one interval old. *)

Beat == [stamp : Nat, interval : {0, Interval}]
ClockTyped ==
  /\ clock \in Nat /\ back \in Nat /\ since \in 0..Interval /\ silence \in Nat
  /\ beat \in {Hrt!None} \cup Beat
  /\ set \in BOOLEAN /\ timer \in BOOLEAN /\ running \in BOOLEAN /\ unrecorded \in BOOLEAN

\* What the wall clock says of a record is at least its age, but for what it was set back.
AgeShows == /\ ~set => back = 0
            /\ beat # Hrt!None => silence <= clock - beat.stamp + back
OnSchedule ==
  timer /\ ~set /\ ~unrecorded /\ beat # Hrt!None =>
    0 <= clock - beat.stamp /\ clock - beat.stamp <= since + IF running THEN Interval ELSE 0
HeartbeatInv == ClockTyped /\ AgeShows /\ OnSchedule

\* At the start no pass was recorded.
LEMMA HeartbeatInit == Hrt!HeartbeatAssumption /\ Hrt!Init => HeartbeatInv
  <1> SUFFICES ASSUME Hrt!HeartbeatAssumption, Hrt!Init PROVE HeartbeatInv
    OBVIOUS
  <1>1. beat = Hrt!None
    BY DEF Hrt!Init
  <1>2. ClockTyped
    <2>1. set \in BOOLEAN /\ timer \in BOOLEAN /\ running \in BOOLEAN /\ unrecorded \in BOOLEAN
      BY Zenon DEF Hrt!Init
    <2>2. clock \in Nat /\ back \in Nat /\ since \in 0..Interval /\ silence \in Nat
      BY DEF Hrt!HeartbeatAssumption, Hrt!Init
    <2> QED
      BY <1>1, <2>1, <2>2 DEF ClockTyped
  <1>3. ~set => back = 0
    BY DEF Hrt!Init
  <1> QED
    BY <1>1, <1>2, <1>3 DEF HeartbeatInv, AgeShows, OnSchedule

\* A record made now is no age at all.
LEMMA RecordsNow ==
  ASSUME Hrt!HeartbeatAssumption, ClockTyped, NEW interval \in {0, Interval}, Hrt!RecordPass(interval)
  PROVE  /\ beat' \in Beat /\ beat' # Hrt!None /\ beat'.stamp = clock /\ silence' = 0
  BY DEF Hrt!HeartbeatAssumption, ClockTyped, Hrt!RecordPass, Hrt!None, Beat

\* Time passes, passes start, end and go unrecorded, and the clock is set.
LEMMA HeartbeatStep ==
  ASSUME Hrt!HeartbeatAssumption, HeartbeatInv, [Hrt!Next]_(Hrt!vars)
  PROVE  HeartbeatInv'
  <1> USE DEF HeartbeatInv, ClockTyped, AgeShows, OnSchedule
  <1>0. Interval \in Nat \ {0} /\ MaxClock \in Nat /\ (beat # Hrt!None => beat \in Beat)
    BY DEF Hrt!HeartbeatAssumption
  <1>a. beat # Hrt!None => beat.stamp \in Nat
    BY <1>0 DEF Beat
  <1>1. CASE Hrt!Start
    BY <1>0, <1>a, <1>1 DEF Hrt!Start
  <1>2. CASE Hrt!Complete
    <2>1. CASE Hrt!RecordPass(Interval) /\ UNCHANGED unrecorded
      <3>1. beat' \in Beat /\ beat' # Hrt!None /\ beat'.stamp = clock /\ silence' = 0
        BY <2>1, RecordsNow
      <3>2. ClockTyped'
        <4>1. set' \in BOOLEAN /\ timer' \in BOOLEAN /\ running' \in BOOLEAN /\ unrecorded' \in BOOLEAN
          BY <1>2, <2>1, Zenon DEF Hrt!Complete
        <4> QED
          BY <1>0, <1>2, <2>1, <3>1, <4>1 DEF Hrt!Complete
      <3> QED
        BY <1>0, <1>2, <2>1, <3>1, <3>2 DEF Hrt!Complete
    <2>2. CASE unrecorded' = TRUE /\ UNCHANGED <<beat, silence>>
      BY <1>0, <1>2, <2>2 DEF Hrt!Complete
    <2> QED
      BY <1>2, <2>1, <2>2 DEF Hrt!Complete
  <1>3. CASE Hrt!ByHand
    <2>1. PICK interval \in {0, Interval} : Hrt!RecordPass(interval)
      BY <1>3 DEF Hrt!ByHand
    <2> QED
      BY <1>0, <1>3, <2>1, RecordsNow DEF Hrt!ByHand
  <1>4. CASE Hrt!Die
    BY <1>0, <1>4 DEF Hrt!Die
  <1>5. CASE Hrt!Tick
    BY <1>0, <1>a, <1>5 DEF Hrt!Tick
  <1>6. CASE Hrt!SetClock
    BY <1>0, <1>a, <1>6 DEF Hrt!SetClock
  <1>7. CASE UNCHANGED Hrt!vars
    BY <1>7 DEF Hrt!vars
  <1> QED
    BY <1>1, <1>2, <1>3, <1>4, <1>5, <1>6, <1>7 DEF Hrt!Next

\* A record the clock says is fresh is, and one whose timer lives is not stale.
LEMMA HeartbeatTells ==
  ASSUME Hrt!HeartbeatAssumption, HeartbeatInv
  PROVE  Hrt!SilenceIsTold
  <1>0. Interval \in Nat \ {0} /\ (beat # Hrt!None => beat \in Beat)
    BY DEF Hrt!HeartbeatAssumption, HeartbeatInv, ClockTyped
  <1>1. CASE beat = Hrt!None
    BY <1>1 DEF Hrt!SilenceIsTold, Hrt!NeedsAttention, Hrt!Status
  <1>2. CASE beat # Hrt!None
    <2>1. beat.stamp \in Nat /\ beat.interval \in {0, Interval} /\ Hrt!Delta = clock - beat.stamp
      BY <1>0, <1>2 DEF Beat, Hrt!Delta
    <2>2. /\ Hrt!Delta \in Int
          /\ Hrt!NeedsAttention <=> Hrt!Delta < 0 \/ (beat.interval # 0 /\ Hrt!Delta > beat.interval * 2)
      BY <1>2, <2>1
      DEF Hrt!NeedsAttention, Hrt!Status, Hrt!StaleIntervals, HeartbeatInv, ClockTyped
    <2>3. ~Hrt!NeedsAttention /\ beat.interval > 0 => silence <= 2 * Interval + back
      BY <1>0, <1>2, <2>1, <2>2 DEF HeartbeatInv, ClockTyped, AgeShows
    <2>4. Hrt!NeedsAttention => set \/ unrecorded \/ ~timer
      BY <1>0, <1>2, <2>1, <2>2 DEF HeartbeatInv, ClockTyped, OnSchedule
    <2> QED
      BY <2>3, <2>4 DEF Hrt!SilenceIsTold
  <1> QED
    BY <1>1, <1>2

-----------------------------------------------------------------------------
(* Watch: the alerts a pass reads back, and the history passes share.      *)
(*                                                                         *)
(* FindsLast is what makes reading the cache back sound: until p has       *)
(* raised its alerts, whatever another pass wrote since is in later, and   *)
(* everything else in the cache is what p found or reused.                 *)

HistoryEntry == [task : Wtc!Tasks, status : {"pass", "fail"}]
WatchPass ==
  [kind : {"idle", "killed", "watch", "checks", "ci"}, pc : Nat,
   found : [Wtc!Tasks -> Wtc!Statuses], reusable : Nat, later : SUBSET Wtc!Tasks,
   loaded : Seq(HistoryEntry), mishaps : SUBSET Wtc!Mishaps, rc : {0, 1}]

WorldTyped ==
  /\ turns \in 0..MaxTurns /\ tip \in 1..turns + 1
  /\ gate \in [1..MaxTurns + 1 -> {"pass", "fail"}] /\ build \in {"pass", "fail"}
  /\ owns \in BOOLEAN
WatchTyped ==
  /\ WorldTyped
  /\ cache \in [Wtc!Tasks -> Wtc!Statuses] /\ stamp \in Nat
  /\ history \in Seq(HistoryEntry) /\ log \in Seq(HistoryEntry)
  /\ lock \in {"free"} \cup Passes /\ apart \in BOOLEAN
  /\ pass \in [Passes -> WatchPass]

\* What a pass r has looked at by its step, and may have reused.
LooksIn(r) ==
  /\ r.kind \in {"watch", "checks", "ci"} => r.pc > 0
  /\ r.kind = "ci" => r.found["test"] = "none"
  /\ r.found["test"] # "unknown"
  /\ r.kind \in {"watch", "checks"} /\ r.pc > 1 /\ r.found["test"] = "none" => r.reusable > 0
  /\ r.kind = "watch" /\ r.pc > 2 => r.found["ci"] # "none"
  /\ r.kind = "idle" => r.mishaps = {}

\* What of the cache c a pass r that has not raised its alerts may rely on.
FindsLast(r, c) ==
  /\ r.found["test"] = "none" /\ r.reusable > 0 /\ "test" \notin r.later => c["test"] # "fail"
  /\ r.kind = "watch" /\ r.pc > 3 /\ ~owns /\ r.found["process"] = "none" /\ "process" \notin r.later
       => c["process"] = "none" \/ "drop" \in r.mishaps
  /\ r.kind = "watch" /\ r.pc > 4 /\ "save" \notin r.mishaps
       => \A t \in Wtc!Tasks \ r.later : r.found[t] # "none" => c[t] = r.found[t]

Alerted(r) ==
  /\ {"save", "alerts"} \cap r.mishaps = {} => \A t \in Wtc!Tasks \ r.later : r.found[t] = "fail" => r.rc = 1
  /\ r.rc = 1 => owns \/ r.later # {} \/ Wtc!Failing(r.found) \/ {"drop", "save"} \cap r.mishaps # {}

PassesTell ==
  \A p \in Passes :
    /\ LooksIn(pass[p])
    /\ Wtc!Active(p) => FindsLast(pass[p], cache)
    /\ Wtc!Finished(p) /\ pass[p].kind = "watch" => Alerted(pass[p])

\* The lock of the log is held from its load to its write, while every pass can have it.
Guarded(passes) == \A p \in Passes : "load" \notin passes[p].mishaps
LogLocked == Guarded(pass) =>
  /\ history = Wtc!Kept(log)
  /\ \A p \in Passes : Wtc!At(p, "write") => lock = p /\ pass[p].loaded = history

\* The trend's last outcome; one that is saved and not yet recorded is still to come.
Trend(entries, status1) ==
  \A i \in DOMAIN entries : Wtc!IsLastOutcome(entries, i) => entries[i].status = status1
Unrecorded(r) ==
  /\ \/ r.kind = "watch" /\ r.pc \in {5, 6}
     \/ r.kind = "checks" /\ r.pc \in {3, 4}
  /\ r.found["test"] # "none"
TrendFollows ==
  apart => /\ \A p, q \in Passes : Wtc!Active(p) /\ Wtc!Active(q) => p = q
           /\ \A p \in Passes : Unrecorded(pass[p]) => cache["test"] = pass[p].found["test"]
           /\ Guarded(pass) /\ (\A p \in Passes : ~Unrecorded(pass[p])) => Trend(history, cache["test"])

WatchInv == WatchTyped /\ PassesTell /\ LogLocked /\ TrendFollows

\* Where each step of each kind of pass is.
StepOf(k, n, step) == /\ k \in DOMAIN Wtc!Steps /\ n \in DOMAIN Wtc!Steps[k]
                      /\ Wtc!Steps[k][n] = step
LEMMA StepsOfKinds ==
  ASSUME NEW k, NEW n \in Nat
  PROVE  /\ StepOf(k, n, "gates")   <=> k \in {"watch", "checks"} /\ n = 1
         /\ StepOf(k, n, "ci")      <=> (k = "watch" /\ n = 2) \/ (k = "ci" /\ n = 1)
         /\ StepOf(k, n, "process") <=> k = "watch" /\ n = 3
         /\ StepOf(k, n, "save")    <=> (k = "watch" /\ n = 4) \/ (k \in {"checks", "ci"} /\ n = 2)
         /\ StepOf(k, n, "load")    <=> (k = "watch" /\ n = 5) \/ (k = "checks" /\ n = 3)
         /\ StepOf(k, n, "write")   <=> (k = "watch" /\ n = 6) \/ (k = "checks" /\ n = 4)
         /\ StepOf(k, n, "alerts")  <=> k = "watch" /\ n = 7
         /\ k \in DOMAIN Wtc!Steps  <=> k \in {"watch", "checks", "ci"}
         /\ k \in DOMAIN Wtc!Steps  => Len(Wtc!Steps[k]) = IF k = "watch" THEN 7 ELSE IF k = "checks" THEN 4 ELSE 2
  <1>1. CASE k = "watch"
    BY <1>1 DEF StepOf, Wtc!Steps
  <1>2. CASE k = "checks"
    BY <1>2 DEF StepOf, Wtc!Steps
  <1>3. CASE k = "ci"
    BY <1>3 DEF StepOf, Wtc!Steps
  <1>4. CASE k \notin {"watch", "checks", "ci"}
    BY <1>4 DEF StepOf, Wtc!Steps
  <1> QED
    BY <1>1, <1>2, <1>3, <1>4

Going(r) == \/ r.kind = "watch" /\ r.pc <= 7
            \/ r.kind = "checks" /\ r.pc <= 4
            \/ r.kind = "ci" /\ r.pc <= 2
Done(r)  == \/ r.kind = "watch" /\ r.pc > 7
            \/ r.kind = "checks" /\ r.pc > 4
            \/ r.kind = "ci" /\ r.pc > 2
Writing(r) == (r.kind = "watch" /\ r.pc = 6) \/ (r.kind = "checks" /\ r.pc = 4)

\* What a pass is at, before a step and after it.
LEMMA StepsOfPasses ==
  ASSUME NEW p \in Passes, pass \in [Passes -> WatchPass]
  PROVE  /\ \A step : Wtc!At(p, step) <=> StepOf(pass[p].kind, pass[p].pc, step)
         /\ Wtc!At(p, "write") <=> Writing(pass[p])
         /\ Wtc!Active(p) <=> Going(pass[p])
         /\ Wtc!Finished(p) <=> Done(pass[p])
  <1>1. pass[p].pc \in Nat
    BY DEF WatchPass
  <1>2. \A step : Wtc!At(p, step) <=> StepOf(pass[p].kind, pass[p].pc, step)
    BY DEF StepOf, Wtc!At
  <1>3. Wtc!At(p, "write") <=> Writing(pass[p])
    BY <1>1, <1>2, StepsOfKinds DEF Writing
  <1>4. (Wtc!Active(p) <=> Going(pass[p])) /\ (Wtc!Finished(p) <=> Done(pass[p]))
    <2> DEFINE k == pass[p].kind
               n == pass[p].pc
    <2>1. /\ Wtc!Finished(p) <=> k \in DOMAIN Wtc!Steps /\ n > Len(Wtc!Steps[k])
          /\ Wtc!Active(p) <=> k \in DOMAIN Wtc!Steps /\ ~(n > Len(Wtc!Steps[k]))
      BY DEF Wtc!Active, Wtc!Finished
    <2>2. /\ k \in DOMAIN Wtc!Steps <=> k \in {"watch", "checks", "ci"}
          /\ k \in DOMAIN Wtc!Steps =>
               Len(Wtc!Steps[k]) = IF k = "watch" THEN 7 ELSE IF k = "checks" THEN 4 ELSE 2
      BY <1>1, StepsOfKinds
    <2>3. Going(pass[p]) <=> k \in {"watch", "checks", "ci"} /\ n <= IF k = "watch" THEN 7 ELSE IF k = "checks" THEN 4 ELSE 2
      BY DEF Going
    <2>4. Done(pass[p]) <=> k \in {"watch", "checks", "ci"} /\ n > IF k = "watch" THEN 7 ELSE IF k = "checks" THEN 4 ELSE 2
      BY DEF Done
    <2> HIDE DEF k
    <2> QED
      BY <1>1, <2>1, <2>2, <2>3, <2>4
  <1> QED
    BY <1>2, <1>3, <1>4

LEMMA StepsAfter ==
  ASSUME NEW p \in Passes, pass' \in [Passes -> WatchPass]
  PROVE  /\ Wtc!At(p, "write")' <=> Writing(pass'[p])
         /\ Wtc!Active(p)' <=> Going(pass'[p])
         /\ Wtc!Finished(p)' <=> Done(pass'[p])
  <1> DEFINE k == pass'[p].kind
             n == pass'[p].pc
             length == IF k = "watch" THEN 7 ELSE IF k = "checks" THEN 4 ELSE 2
  <1>1. n \in Nat
    BY DEF WatchPass
  <1>2. /\ StepOf(k, n, "write") <=> (k = "watch" /\ n = 6) \/ (k = "checks" /\ n = 4)
        /\ k \in DOMAIN Wtc!Steps <=> k \in {"watch", "checks", "ci"}
        /\ k \in DOMAIN Wtc!Steps => Len(Wtc!Steps[k]) = length
    BY <1>1, StepsOfKinds
  <1>3. Wtc!At(p, "write")' <=> Writing(pass'[p])
    <2>1. Wtc!At(p, "write")' <=> StepOf(k, n, "write")
      BY DEF StepOf, Wtc!At, Wtc!Steps
    <2> QED
      BY <1>2, <2>1 DEF Writing
  <1>4. /\ Wtc!Finished(p)' <=> k \in DOMAIN Wtc!Steps /\ n > Len(Wtc!Steps[k])
        /\ Wtc!Active(p)' <=> k \in DOMAIN Wtc!Steps /\ ~(n > Len(Wtc!Steps[k]))
    BY DEF Wtc!Active, Wtc!Finished, Wtc!Steps
  <1>5. /\ Going(pass'[p]) <=> k \in {"watch", "checks", "ci"} /\ n <= length
        /\ Done(pass'[p]) <=> k \in {"watch", "checks", "ci"} /\ n > length
    BY DEF Going, Done
  <1> HIDE DEF k, n
  <1> QED
    BY <1>1, <1>2, <1>3, <1>4, <1>5

-----------------------------------------------------------------------------
(* The history. *)

\* Kept is the end of a sequence.
LEMMA KeptIsTheEnd ==
  ASSUME MaxEntries \in Nat \ {0}, NEW S, NEW s \in Seq(S)
  PROVE  /\ Wtc!Kept(s) \in Seq(S)
         /\ Len(Wtc!Kept(s)) = IF Len(s) > MaxEntries THEN MaxEntries ELSE Len(s)
         /\ \A i \in DOMAIN Wtc!Kept(s) : /\ Len(s) - Len(Wtc!Kept(s)) + i \in DOMAIN s
                                          /\ Wtc!Kept(s)[i] = s[Len(s) - Len(Wtc!Kept(s)) + i]
  <1> DEFINE first == IF Len(s) > MaxEntries THEN Len(s) - MaxEntries + 1 ELSE 1
  <1>1. Len(s) \in Nat /\ first \in 1..Len(s) + 1 /\ DOMAIN s = 1..Len(s)
    OBVIOUS
  <1>2. \A i \in first..Len(s) : s[i] \in S
    BY <1>1
  <1>3. /\ SubSeq(s, first, Len(s)) \in Seq(S)
        /\ Len(SubSeq(s, first, Len(s))) = IF first <= Len(s) THEN Len(s) - first + 1 ELSE 0
        /\ \A i \in 1..Len(s) - first + 1 : SubSeq(s, first, Len(s))[i] = s[first + i - 1]
    BY <1>1, <1>2, SubSeqProperties
  <1> DEFINE k == Wtc!Kept(s)
  <1>4. k = SubSeq(s, first, Len(s))
    BY DEF Wtc!Kept
  <1>6. Len(s) - first + 1 = IF Len(s) > MaxEntries THEN MaxEntries ELSE Len(s)
    BY <1>1
  <1> HIDE DEF first
  <1>5. k \in Seq(S) /\ Len(k) = Len(s) - first + 1 /\ \A i \in 1..Len(k) : k[i] = s[first + i - 1]
    <2>1. (IF first <= Len(s) THEN Len(s) - first + 1 ELSE 0) = Len(s) - first + 1
      BY <1>1
    <2> QED
      BY <1>3, <1>4, <2>1
  <1> HIDE DEF k
  <1>7. ASSUME NEW i \in DOMAIN k PROVE Len(s) - Len(k) + i \in DOMAIN s /\ k[i] = s[Len(s) - Len(k) + i]
    <2>1. i \in 1..Len(k) /\ k[i] = s[first + i - 1]
      BY <1>5
    <2>2. Len(k) = Len(s) - first + 1
      BY <1>5
    <2>3. first + i - 1 = Len(s) - Len(k) + i /\ first + i - 1 \in 1..Len(s)
      BY <1>1, <2>1, <2>2
    <2> QED
      BY <1>1, <2>1, <2>3
  <1> QED
    BY <1>5, <1>6, <1>7 DEF k

\* What is dropped once needs no second look.
LEMMA KeptOfKept ==
  ASSUME MaxEntries \in Nat \ {0}, NEW S, NEW s \in Seq(S), NEW r \in Seq(S)
  PROVE  Wtc!Kept(Wtc!Kept(s) \o r) = Wtc!Kept(s \o r)
  <1> DEFINE k  == Wtc!Kept(s)
             kr == k \o r
             sr == s \o r
             a  == Wtc!Kept(kr)
             b  == Wtc!Kept(sr)
  <1>1. /\ k \in Seq(S) /\ Len(k) = IF Len(s) > MaxEntries THEN MaxEntries ELSE Len(s)
        /\ \A i \in DOMAIN k : Len(s) - Len(k) + i \in DOMAIN s /\ k[i] = s[Len(s) - Len(k) + i]
    BY KeptIsTheEnd
  <1> HIDE DEF k
  <1>2. /\ kr \in Seq(S) /\ Len(kr) = Len(k) + Len(r)
        /\ \A i \in 1..Len(kr) : kr[i] = IF i <= Len(k) THEN k[i] ELSE r[i - Len(k)]
    <2>1. k \in Seq(S)
      BY <1>1
    <2> QED
      BY <2>1
  <1>3. /\ sr \in Seq(S) /\ Len(sr) = Len(s) + Len(r)
        /\ \A i \in 1..Len(sr) : sr[i] = IF i <= Len(s) THEN s[i] ELSE r[i - Len(s)]
    OBVIOUS
  <1> HIDE DEF kr, sr
  <1>4. /\ a \in Seq(S) /\ Len(a) = IF Len(kr) > MaxEntries THEN MaxEntries ELSE Len(kr)
        /\ \A i \in DOMAIN a : Len(kr) - Len(a) + i \in DOMAIN kr /\ a[i] = kr[Len(kr) - Len(a) + i]
    BY <1>2, KeptIsTheEnd
  <1>5. /\ b \in Seq(S) /\ Len(b) = IF Len(sr) > MaxEntries THEN MaxEntries ELSE Len(sr)
        /\ \A i \in DOMAIN b : Len(sr) - Len(b) + i \in DOMAIN sr /\ b[i] = sr[Len(sr) - Len(b) + i]
    BY <1>3, KeptIsTheEnd
  <1> HIDE DEF a, b
  <1>6. Len(s) \in Nat /\ Len(r) \in Nat /\ Len(k) \in Nat /\ Len(k) <= Len(s)
    BY <1>1
  <1>7. /\ Len(a) = Len(b) /\ Len(a) \in Nat
        /\ Len(kr) - Len(a) - Len(k) = Len(sr) - Len(b) - Len(s)
    <2>1. Len(k) = IF Len(s) > MaxEntries THEN MaxEntries ELSE Len(s)
      BY <1>1
    <2>2. Len(kr) = Len(k) + Len(r) /\ Len(sr) = Len(s) + Len(r)
      BY <1>2, <1>3
    <2>3. Len(a) = IF Len(kr) > MaxEntries THEN MaxEntries ELSE Len(kr)
      BY <1>4
    <2>4. Len(b) = IF Len(sr) > MaxEntries THEN MaxEntries ELSE Len(sr)
      BY <1>5
    <2>5. CASE Len(s) > MaxEntries
      <3>1. Len(k) = MaxEntries /\ Len(kr) = MaxEntries + Len(r) /\ Len(sr) > MaxEntries
        BY <1>6, <2>1, <2>2, <2>5
      <3>2. Len(b) = MaxEntries /\ Len(a) = MaxEntries
        BY <1>6, <2>3, <2>4, <3>1
      <3> QED
        BY <1>6, <2>2, <3>1, <3>2
    <2>6. CASE ~(Len(s) > MaxEntries)
      BY <1>6, <2>1, <2>2, <2>3, <2>4, <2>6
    <2> QED
      BY <2>5, <2>6
  <1>8. ASSUME NEW i \in 1..Len(a) PROVE a[i] = b[i]
    <2> DEFINE x == Len(kr) - Len(a) + i
               y == Len(sr) - Len(b) + i
    <2>1. /\ x \in 1..Len(kr) /\ y \in 1..Len(sr) /\ a[i] = kr[x] /\ b[i] = sr[y]
      <3>1. DOMAIN a = 1..Len(a) /\ DOMAIN b = 1..Len(a) /\ DOMAIN kr = 1..Len(kr) /\ DOMAIN sr = 1..Len(sr)
        BY <1>2, <1>3, <1>4, <1>5, <1>7
      <3> QED
        BY <1>4, <1>5, <3>1
    <2>2. x - Len(k) = y - Len(s)
      BY <1>2, <1>3, <1>6, <1>7
    <2> HIDE DEF x, y
    <2>3. CASE x > Len(k)
      <3>1. kr[x] = r[x - Len(k)] /\ sr[y] = r[y - Len(s)]
        BY <1>2, <1>3, <1>6, <2>1, <2>2, <2>3
      <3> QED
        BY <2>1, <2>2, <3>1
    <2>4. CASE x <= Len(k)
      <3>1. kr[x] = k[x] /\ sr[y] = s[y] /\ x \in 1..Len(k)
        BY <1>2, <1>3, <1>6, <2>1, <2>2, <2>4
      <3>2. k[x] = s[Len(s) - Len(k) + x] /\ Len(s) - Len(k) + x = y
        <4>1. x \in DOMAIN k
          BY <1>1, <3>1
        <4>2. k[x] = s[Len(s) - Len(k) + x]
          BY <1>1, <4>1
        <4> QED
          BY <1>6, <2>1, <2>2, <3>1, <4>2
      <3> QED
        BY <2>1, <3>1, <3>2
    <2> QED
      BY <1>6, <2>1, <2>3, <2>4
  <1>9. a = b
    BY <1>4, <1>5, <1>7, <1>8
  <1> QED
    BY <1>9 DEF a, b, kr, sr, k

\* What a pass records: its gate first, if it ran, and no other entry is the gate's.
LEMMA RecordedIs ==
  ASSUME NEW p \in Passes, pass[p] \in WatchPass, pass[p].found["test"] # "unknown"
  PROVE  /\ Wtc!Recorded(p) \in Seq(HistoryEntry)
         /\ pass[p].found["test"] # "none" =>
              /\ Len(Wtc!Recorded(p)) > 0
              /\ Wtc!Recorded(p)[1] = [task |-> "test", status |-> pass[p].found["test"]]
         /\ \A j \in 1..Len(Wtc!Recorded(p)) :
              Wtc!Recorded(p)[j].task = "test" => j = 1 /\ pass[p].found["test"] # "none"
  <1> DEFINE a == Wtc!Entry(p, "test")
             b == Wtc!Entry(p, "ci")
             c == Wtc!Entry(p, "process")
  <1>1. pass[p].found \in [Wtc!Tasks -> Wtc!Statuses] /\ Wtc!Tasks = {"test", "ci", "process"}
    BY DEF WatchPass, Wtc!Tasks
  <1>2. ASSUME NEW t \in Wtc!Tasks
        PROVE  /\ Wtc!Entry(p, t) \in Seq(HistoryEntry)
               /\ \/ Wtc!Entry(p, t) = <<>>
                  \/ Wtc!Entry(p, t) = <<[task |-> t, status |-> pass[p].found[t]]>>
    <2>1. CASE pass[p].found[t] \in {"pass", "fail"}
      <3>1. [task |-> t, status |-> pass[p].found[t]] \in HistoryEntry
        BY <2>1 DEF HistoryEntry
      <3> QED
        BY <2>1, <3>1 DEF Wtc!Entry
    <2>2. CASE pass[p].found[t] \notin {"pass", "fail"}
      <3>1. <<>> \in Seq(HistoryEntry)
        OBVIOUS
      <3> QED
        BY <2>2, <3>1 DEF Wtc!Entry
    <2> QED
      BY <2>1, <2>2
  <1>3. /\ a \in Seq(HistoryEntry) /\ b \in Seq(HistoryEntry) /\ c \in Seq(HistoryEntry)
        /\ b = <<>> \/ b = <<[task |-> "ci", status |-> pass[p].found["ci"]]>>
        /\ c = <<>> \/ c = <<[task |-> "process", status |-> pass[p].found["process"]]>>
    BY <1>1, <1>2
  <1>4. a = IF pass[p].found["test"] # "none" THEN <<[task |-> "test", status |-> pass[p].found["test"]]>> ELSE <<>>
    <2>1. pass[p].found["test"] \in {"pass", "fail"} <=> pass[p].found["test"] # "none"
      BY <1>1 DEF Wtc!Statuses
    <2> QED
      BY <2>1 DEF Wtc!Entry
  <1>5. Wtc!Recorded(p) = a \o b \o c
    BY DEF Wtc!Recorded
  <1> HIDE DEF a, b, c
  <1>6. /\ a \in Seq(HistoryEntry) /\ b \o c \in Seq(HistoryEntry)
        /\ \A j \in 1..Len(b \o c) : (b \o c)[j].task # "test"
    BY <1>3
  <1>7. a \o b \o c = a \o (b \o c)
    BY <1>3
  <1> DEFINE bc == b \o c
             r  == Wtc!Recorded(p)
  <1>8. r = a \o bc /\ bc \in Seq(HistoryEntry) /\ \A j \in 1..Len(bc) : bc[j].task # "test"
    BY <1>5, <1>6, <1>7
  <1> HIDE DEF bc, r
  <1>9. r \in Seq(HistoryEntry)
    BY <1>6, <1>8
  <1>10. CASE pass[p].found["test"] # "none"
    <2>1. Len(a) = 1 /\ a[1] = [task |-> "test", status |-> pass[p].found["test"]]
      BY <1>4, <1>10
    <2>2. Len(r) = 1 + Len(bc) /\ r[1] = a[1] /\ \A j \in 2..Len(r) : r[j] = bc[j - 1]
      <3>1. /\ Len(a \o bc) = Len(a) + Len(bc)
            /\ \A j \in 1..Len(a) + Len(bc) : (a \o bc)[j] = IF j <= Len(a) THEN a[j] ELSE bc[j - Len(a)]
        BY <1>6, <1>8
      <3>2. Len(bc) \in Nat
        BY <1>8
      <3> QED
        BY <1>8, <2>1, <3>1, <3>2
    <2>3. \A j \in 1..Len(r) : r[j].task = "test" => j = 1
      BY <1>6, <1>8, <2>2
    <2> QED
      BY <1>8, <1>9, <1>10, <2>1, <2>2, <2>3 DEF r
  <1>11. CASE pass[p].found["test"] = "none"
    <2>1. a = <<>> /\ r = bc
      BY <1>4, <1>8, <1>11
    <2> QED
      BY <1>8, <1>9, <1>11, <2>1 DEF r
  <1> QED
    BY <1>10, <1>11

-----------------------------------------------------------------------------
(* What the other passes keep while one writes the tasks of the cache. *)

Beside(p, tasks) ==
  /\ UNCHANGED owns
  /\ pass' \in [Passes -> WatchPass] /\ cache' \in [Wtc!Tasks -> Wtc!Statuses]
  /\ \A t \in Wtc!Tasks \ tasks : cache'[t] = cache[t]
  /\ \A q \in Passes \ {p} :
       \/ pass'[q] = pass[q] /\ (Wtc!Active(q) => tasks = {})
       \/ Wtc!Active(q) /\ pass'[q] = [pass[q] EXCEPT !.later = @ \cup tasks]
  /\ pass[p].mishaps \subseteq pass'[p].mishaps

\* Its kind, its step and what it found and loaded are its own.
LEMMA OthersAsTheyAre ==
  ASSUME NEW p \in Passes, NEW tasks, Beside(p, tasks), NEW q \in Passes \ {p}, pass[q] \in WatchPass
  PROVE  /\ pass'[q].kind = pass[q].kind /\ pass'[q].pc = pass[q].pc /\ pass'[q].found = pass[q].found
         /\ pass'[q].loaded = pass[q].loaded /\ pass'[q].mishaps = pass[q].mishaps
  <1>1. CASE pass'[q] = pass[q]
    BY <1>1
  <1>2. CASE pass'[q] = [pass[q] EXCEPT !.later = @ \cup tasks]
    BY <1>2 DEF WatchPass
  <1> QED
    BY <1>1, <1>2 DEF Beside

\* What failed has failed.
LEMMA GuardedBefore ==
  ASSUME NEW p \in Passes, NEW tasks, Beside(p, tasks), pass \in [Passes -> WatchPass], Guarded(pass')
  PROVE  Guarded(pass)
  <1>1. ASSUME NEW q \in Passes PROVE pass[q].mishaps \subseteq pass'[q].mishaps
    <2>1. CASE q = p
      BY <2>1 DEF Beside
    <2>2. CASE q # p
      BY <2>2, OthersAsTheyAre
    <2> QED
      BY <2>1, <2>2
  <1> QED
    BY <1>1 DEF Guarded

\* They rely on less, and what they rely on still holds.
LEMMA RelyOnLess ==
  ASSUME NEW r \in WatchPass, NEW tasks \in SUBSET Wtc!Tasks,
         NEW c \in [Wtc!Tasks -> Wtc!Statuses], NEW d \in [Wtc!Tasks -> Wtc!Statuses],
         \A t \in Wtc!Tasks \ tasks : d[t] = c[t], FindsLast(r, c), LooksIn(r),
         NEW s, s = [r EXCEPT !.later = @ \cup tasks]
  PROVE  /\ FindsLast(s, d) /\ LooksIn(s)
         /\ s.kind = r.kind /\ s.pc = r.pc /\ s.mishaps = r.mishaps /\ s.found = r.found /\ s.loaded = r.loaded
  <1>1. /\ s.kind = r.kind /\ s.pc = r.pc /\ s.mishaps = r.mishaps /\ s.found = r.found
        /\ s.reusable = r.reusable /\ s.loaded = r.loaded /\ s.later = r.later \cup tasks
    BY DEF WatchPass
  <1>2. {"test", "ci", "process"} = Wtc!Tasks
    BY DEF Wtc!Tasks
  <1>3. LooksIn(s)
    BY <1>1 DEF LooksIn
  <1>4. FindsLast(s, d)
    BY <1>1, <1>2 DEF FindsLast
  <1> QED
    BY <1>1, <1>3, <1>4

\* So the others tell the truth if the one that moved does.
LEMMA OthersTell ==
  ASSUME WatchTyped, PassesTell, NEW p \in Passes, NEW tasks \in SUBSET Wtc!Tasks, Beside(p, tasks),
         LooksIn(pass'[p]), Going(pass'[p]) => FindsLast(pass'[p], cache'),
         Done(pass'[p]) /\ pass'[p].kind = "watch" => Alerted(pass'[p])
  PROVE  PassesTell'
  <1>0. pass \in [Passes -> WatchPass] /\ cache \in [Wtc!Tasks -> Wtc!Statuses]
    BY DEF WatchTyped
  <1>1. ASSUME NEW q \in Passes
        PROVE  /\ LooksIn(pass'[q]) /\ (Going(pass'[q]) => FindsLast(pass'[q], cache'))
               /\ Done(pass'[q]) /\ pass'[q].kind = "watch" => Alerted(pass'[q])
    <2>1. CASE q = p
      BY <2>1
    <2>2. CASE q # p /\ pass'[q] = pass[q] /\ (Wtc!Active(q) => tasks = {})
      <3>1. /\ LooksIn(pass[q]) /\ (Going(pass[q]) => FindsLast(pass[q], cache))
            /\ Done(pass[q]) /\ pass[q].kind = "watch" => Alerted(pass[q])
        BY <1>0, StepsOfPasses DEF PassesTell
      <3>2. Going(pass[q]) => cache' = cache
        BY <1>0, <2>2, StepsOfPasses DEF Beside
      <3> QED
        BY <2>2, <3>1, <3>2
    <2>3. CASE q # p /\ Wtc!Active(q) /\ pass'[q] = [pass[q] EXCEPT !.later = @ \cup tasks]
      <3>1. LooksIn(pass[q]) /\ FindsLast(pass[q], cache) /\ Going(pass[q]) /\ pass[q] \in WatchPass
        BY <1>0, <2>3, StepsOfPasses DEF PassesTell
      <3>2. /\ FindsLast(pass'[q], cache') /\ LooksIn(pass'[q])
            /\ pass'[q].kind = pass[q].kind /\ pass'[q].pc = pass[q].pc
        <4>1. /\ cache' \in [Wtc!Tasks -> Wtc!Statuses] /\ \A t \in Wtc!Tasks \ tasks : cache'[t] = cache[t]
          BY DEF Beside
        <4> QED
          BY <1>0, <2>3, <3>1, <4>1, RelyOnLess
      <3>3. ~Done(pass'[q])
        BY <3>1, <3>2 DEF Going, Done, WatchPass
      <3> QED
        BY <3>2, <3>3
    <2> QED
      BY <2>1, <2>2, <2>3 DEF Beside
  <1>2. pass' \in [Passes -> WatchPass] /\ owns' = owns
    BY DEF Beside
  <1> QED
    BY <1>1, <1>2, StepsAfter DEF PassesTell, FindsLast, Alerted, LooksIn

\* Neither the log nor its lock is theirs.
LEMMA OthersLocked ==
  ASSUME WatchTyped, LogLocked, NEW p \in Passes, NEW tasks \in SUBSET Wtc!Tasks, Beside(p, tasks),
         UNCHANGED <<history, log, lock>>,
         Writing(pass'[p]) => Writing(pass[p]) /\ pass'[p].loaded = pass[p].loaded
  PROVE  LogLocked'
  <1>0. pass \in [Passes -> WatchPass] /\ pass' \in [Passes -> WatchPass]
    BY DEF WatchTyped, Beside
  <1>1. ASSUME NEW q \in Passes, Writing(pass'[q]) PROVE Writing(pass[q]) /\ pass'[q].loaded = pass[q].loaded
    <2>1. CASE q = p
      BY <1>1, <2>1
    <2>2. CASE q # p
      <3>1. /\ pass'[q].kind = pass[q].kind /\ pass'[q].pc = pass[q].pc /\ pass'[q].loaded = pass[q].loaded
        BY <1>0, <2>2, OthersAsTheyAre
      <3> QED
        BY <1>1, <3>1 DEF Writing
    <2> QED
      BY <2>1, <2>2
  <1>2. Guarded(pass') => \A q \in Passes : Writing(pass'[q]) => lock' = q /\ pass'[q].loaded = history'
    BY <1>0, <1>1, StepsOfPasses, GuardedBefore DEF LogLocked
  <1>3. Guarded(pass') => history' = Wtc!Kept(log')
    BY <1>0, GuardedBefore DEF LogLocked
  <1> QED
    BY <1>0, <1>2, <1>3, StepsAfter DEF LogLocked, Guarded, Wtc!Kept

\* Nor is the trend.
LEMMA OthersFollow ==
  ASSUME WatchTyped, TrendFollows, NEW p \in Passes, NEW tasks \in SUBSET Wtc!Tasks, Beside(p, tasks),
         UNCHANGED history, cache'["test"] = cache["test"], apart' => apart,
         Going(pass'[p]) => Going(pass[p]),
         Unrecorded(pass'[p]) <=> Unrecorded(pass[p]), pass'[p].found["test"] = pass[p].found["test"] \/ ~Unrecorded(pass[p])
  PROVE  TrendFollows'
  <1>0. pass \in [Passes -> WatchPass] /\ pass' \in [Passes -> WatchPass]
    BY DEF WatchTyped, Beside
  <1>1. ASSUME NEW q \in Passes \ {p}
        PROVE  /\ pass'[q].kind = pass[q].kind /\ pass'[q].pc = pass[q].pc /\ pass'[q].found = pass[q].found
    BY <1>0, <1>1, OthersAsTheyAre
  <1>2. \A q \in Passes : /\ Going(pass'[q]) => Going(pass[q])
                          /\ Unrecorded(pass'[q]) <=> Unrecorded(pass[q])
                          /\ pass'[q].found["test"] = pass[q].found["test"] \/ ~Unrecorded(pass[q])
    BY <1>1 DEF Going, Unrecorded
  <1>3. SUFFICES ASSUME apart' PROVE
          /\ \A q, w \in Passes : Going(pass'[q]) /\ Going(pass'[w]) => q = w
          /\ \A q \in Passes : Unrecorded(pass'[q]) => cache'["test"] = pass'[q].found["test"]
          /\ Guarded(pass') /\ (\A q \in Passes : ~Unrecorded(pass'[q])) => Trend(history', cache'["test"])
    BY <1>0, <1>3, StepsAfter DEF TrendFollows, Trend, Guarded, Unrecorded, Wtc!IsLastOutcome
  <1>4. apart
    BY <1>3
  <1>5. /\ \A q, w \in Passes : Going(pass[q]) /\ Going(pass[w]) => q = w
        /\ \A q \in Passes : Unrecorded(pass[q]) => cache["test"] = pass[q].found["test"]
        /\ Guarded(pass) /\ (\A q \in Passes : ~Unrecorded(pass[q])) => Trend(history, cache["test"])
    BY <1>0, <1>4, StepsOfPasses DEF TrendFollows
  <1> QED
    BY <1>0, <1>2, <1>5, GuardedBefore

-----------------------------------------------------------------------------
(* The steps of a pass. *)

\* One that writes nothing.
LEMMA Moves ==
  ASSUME WatchTyped, NEW p \in Passes, NEW r \in WatchPass, pass' = [pass EXCEPT ![p] = r],
         UNCHANGED <<owns, cache>>, pass[p].mishaps \subseteq r.mishaps
  PROVE  Beside(p, {}) /\ pass'[p] = r
  BY DEF WatchTyped, Beside

\* One that writes some tasks of the cache.
LEMMA Writes ==
  ASSUME WatchTyped, NEW p \in Passes, NEW r \in WatchPass, NEW tasks \in SUBSET Wtc!Tasks,
         pass' = Wtc!Wrote(p, r, tasks), UNCHANGED owns, pass[p].mishaps \subseteq r.mishaps,
         cache' \in [Wtc!Tasks -> Wtc!Statuses], \A t \in Wtc!Tasks \ tasks : cache'[t] = cache[t]
  PROVE  Beside(p, tasks) /\ pass'[p] = [r EXCEPT !.later = @ \ tasks]
  <1>1. [r EXCEPT !.later = @ \ tasks] \in WatchPass
    BY DEF WatchPass
  <1>2. \A q \in Passes : [pass[q] EXCEPT !.later = @ \cup tasks] \in WatchPass
    BY DEF WatchTyped, WatchPass
  <1>3. \A q \in Passes \ {p} : pass'[q] = IF Wtc!Active(q) THEN [pass[q] EXCEPT !.later = @ \cup tasks] ELSE pass[q]
    BY DEF Wtc!Wrote
  <1>4. pass'[p] = [r EXCEPT !.later = @ \ tasks] /\ pass'[p].mishaps = r.mishaps
    BY DEF Wtc!Wrote, WatchPass
  <1>5. pass' \in [Passes -> WatchPass]
    <2>1. \A q \in Passes : pass'[q] \in WatchPass
      BY <1>1, <1>2, <1>3, <1>4 DEF WatchTyped
    <2> QED
      BY <2>1 DEF Wtc!Wrote
  <1> QED
    BY <1>3, <1>4, <1>5 DEF Beside

\* The next step, and the next step despite a mishap.
LEMMA Advances ==
  ASSUME WatchTyped, NEW p \in Passes
  PROVE  /\ Wtc!Advanced(p) \in WatchPass /\ Wtc!Advanced(p) = [pass[p] EXCEPT !.pc = pass[p].pc + 1]
         /\ pass[p] \in WatchPass
  <1>1. pass[p] \in WatchPass
    BY DEF WatchTyped
  <1>2. [pass[p] EXCEPT !.pc = pass[p].pc + 1] \in WatchPass
    BY <1>1 DEF WatchPass
  <1> QED
    BY <1>1, <1>2 DEF Wtc!Advanced

LEMMA GoesOn ==
  ASSUME WatchTyped, NEW p \in Passes, NEW m \in Wtc!Mishaps,
         NEW r, r = Wtc!Despite(p, m)
  PROVE  /\ r \in WatchPass /\ r.kind = pass[p].kind /\ r.pc = pass[p].pc + 1 /\ r.found = pass[p].found
         /\ r.reusable = pass[p].reusable /\ r.later = pass[p].later /\ r.loaded = pass[p].loaded
         /\ r.mishaps = pass[p].mishaps \cup {m} /\ r.rc = pass[p].rc
  <1>1. /\ pass[p] \in WatchPass /\ Wtc!Advanced(p) \in WatchPass
        /\ Wtc!Advanced(p) = [pass[p] EXCEPT !.pc = pass[p].pc + 1]
    BY Advances
  <1> DEFINE a == Wtc!Advanced(p)
             had == a.mishaps \cup {m}
  <1>2. r = [a EXCEPT !.mishaps = had]
    BY DEF Wtc!Despite
  <1>3. /\ a.kind = pass[p].kind /\ a.pc = pass[p].pc + 1 /\ a.found = pass[p].found
        /\ a.reusable = pass[p].reusable /\ a.later = pass[p].later /\ a.loaded = pass[p].loaded
        /\ a.mishaps = pass[p].mishaps /\ a.rc = pass[p].rc
    BY <1>1 DEF WatchPass
  <1>4. had \in SUBSET Wtc!Mishaps /\ had = pass[p].mishaps \cup {m} /\ a \in WatchPass
    BY <1>1, <1>3 DEF WatchPass
  <1> HIDE DEF a, had
  <1> QED
    BY <1>2, <1>3, <1>4 DEF WatchPass

\* A pass begins: what it may reuse is in the cache.
LEMMA BeginKeeps ==
  ASSUME WatchInv, NEW p \in Passes, NEW kind \in DOMAIN Wtc!Steps, Wtc!Begin(p, kind)
  PROVE  WatchInv'
  <1>1. PICK reusable \in {0} \cup IF kind # "ci" /\ cache.test = "pass" THEN {stamp} ELSE {} :
          pass' = [pass EXCEPT ![p] = [Wtc!Idle EXCEPT !.kind = kind, !.pc = 1, !.reusable = reusable]]
    BY DEF Wtc!Begin
  <1> DEFINE r == [Wtc!Idle EXCEPT !.kind = kind, !.pc = 1, !.reusable = reusable]
  <1>2. kind \in {"watch", "checks", "ci"}
    BY StepsOfKinds DEF Wtc!Steps
  <1>a. reusable \in Nat /\ (reusable > 0 => cache["test"] = "pass")
    BY <1>1 DEF WatchInv, WatchTyped
  <1>3. Wtc!Idle \in WatchPass /\ Wtc!Idle.found = Wtc!Nothing /\ Wtc!Idle.mishaps = {}
    <2>1. <<>> \in Seq(HistoryEntry) /\ Wtc!Nothing \in [Wtc!Tasks -> Wtc!Statuses]
      BY DEF Wtc!Nothing, Wtc!Statuses
    <2> QED
      BY <2>1 DEF Wtc!Idle, WatchPass
  <1>4. /\ r \in WatchPass /\ r.kind = kind /\ r.pc = 1 /\ r.found = Wtc!Nothing /\ r.reusable = reusable
        /\ r.mishaps = {}
    <2> QED
      BY <1>2, <1>3, <1>a DEF WatchPass
  <1>5. UNCHANGED <<cache, stamp, history, lock, log>> /\ UNCHANGED <<gate, tip, build, sup, turns, owns>>
    BY DEF Wtc!Begin, Wtc!world
  <1> HIDE DEF r
  <1>b. pass[p].mishaps = {}
    BY DEF Wtc!Begin, WatchInv, PassesTell, LooksIn
  <1>c. pass' = [pass EXCEPT ![p] = r] /\ pass[p].mishaps \subseteq r.mishaps
    <2>1. pass' = [pass EXCEPT ![p] = r]
      BY <1>1 DEF r
    <2> QED
      BY <1>4, <1>b, <2>1
  <1>6. Beside(p, {}) /\ pass'[p] = r
    BY <1>4, <1>5, <1>c, Moves DEF WatchInv
  <1>7. LooksIn(r) /\ FindsLast(r, cache) /\ ~Writing(r) /\ ~Done(r) /\ ~Unrecorded(r)
    <2>1. r.found["test"] = "none" /\ r.found["ci"] = "none"
      BY <1>4 DEF Wtc!Nothing, Wtc!Tasks
    <2>2. ~Writing(r) /\ ~Done(r) /\ ~Unrecorded(r)
      BY <1>2, <1>4 DEF Writing, Done, Unrecorded
    <2>3. LooksIn(r)
      BY <1>2, <1>4, <2>1 DEF LooksIn
    <2>4. FindsLast(r, cache)
      <3>1. ~(r.pc > 3) /\ ~(r.pc > 4)
        BY <1>4
      <3>2. r.reusable > 0 => cache["test"] # "fail"
        BY <1>4, <1>a
      <3> QED
        BY <3>1, <3>2 DEF FindsLast
    <2> QED
      BY <2>2, <2>3, <2>4
  <1>8. PassesTell'
    BY <1>5, <1>6, <1>7, OthersTell DEF WatchInv
  <1>9. LogLocked'
    BY <1>5, <1>6, <1>7, OthersLocked DEF WatchInv
  <1>10. TrendFollows'
    <2>1. apart' = (apart /\ \A q \in Passes : ~Wtc!Active(q)) /\ pass \in [Passes -> WatchPass]
      BY DEF Wtc!Begin, WatchInv, WatchTyped
    <2>2. SUFFICES ASSUME apart' PROVE
            /\ \A q, w \in Passes : Going(pass'[q]) /\ Going(pass'[w]) => q = w
            /\ \A q \in Passes : ~Unrecorded(pass'[q])
            /\ Guarded(pass') => Trend(history', cache'["test"])
      BY <1>6, <2>2, StepsAfter DEF TrendFollows, Beside, Trend, Guarded, Unrecorded, Wtc!IsLastOutcome
    <2>3. apart /\ \A q \in Passes : ~Going(pass[q])
      BY <2>1, <2>2, StepsOfPasses
    <2>4. \A q \in Passes \ {p} : pass'[q] = pass[q]
      BY <1>1, <2>1
    <2>5. \A q \in Passes : Unrecorded(pass[q]) => Going(pass[q])
      BY DEF Unrecorded, Going
    <2>6. Guarded(pass') => Trend(history, cache["test"])
      BY <1>6, <2>1, <2>3, <2>5, GuardedBefore DEF WatchInv, TrendFollows
    <2> QED
      BY <1>5, <1>6, <1>7, <2>3, <2>4, <2>5, <2>6
  <1>11. WatchTyped'
    <2>1. apart' \in BOOLEAN
      BY DEF Wtc!Begin, WatchInv, WatchTyped
    <2> QED
      BY <1>5, <1>6, <2>1 DEF WatchInv, WatchTyped, WorldTyped, Beside
  <1> QED
    BY <1>8, <1>9, <1>10, <1>11 DEF WatchInv

\* A step of one pass that leaves the history and the gate's status alone.
LEMMA QuietStep ==
  ASSUME WatchInv, NEW p \in Passes, NEW tasks \in SUBSET Wtc!Tasks, Beside(p, tasks), WorldTyped',
         UNCHANGED <<stamp, history, lock, log, apart>>, cache'["test"] = cache["test"],
         LooksIn(pass'[p]), Going(pass'[p]) => FindsLast(pass'[p], cache'),
         Done(pass'[p]) /\ pass'[p].kind = "watch" => Alerted(pass'[p]),
         ~Writing(pass'[p]), Going(pass'[p]) => Going(pass[p]),
         Unrecorded(pass'[p]) <=> Unrecorded(pass[p]),
         pass'[p].found["test"] = pass[p].found["test"] \/ ~Unrecorded(pass[p])
  PROVE  WatchInv'
  <1>1. PassesTell'
    BY OthersTell DEF WatchInv
  <1>2. LogLocked'
    BY OthersLocked DEF WatchInv
  <1>3. TrendFollows'
    BY OthersFollow DEF WatchInv
  <1>4. WatchTyped'
    BY DEF WatchInv, WatchTyped, Beside
  <1> QED
    BY <1>1, <1>2, <1>3, <1>4 DEF WatchInv

\* What a pass is at its step.
LEMMA AtStep ==
  ASSUME WatchInv, NEW p \in Passes, NEW step, Wtc!At(p, step)
  PROVE  /\ StepOf(pass[p].kind, pass[p].pc, step) /\ pass[p].pc \in Nat
         /\ Going(pass[p]) /\ Wtc!Active(p) /\ LooksIn(pass[p]) /\ FindsLast(pass[p], cache)
  <1>1. pass \in [Passes -> WatchPass] /\ pass[p] \in WatchPass /\ pass[p].pc \in Nat
    BY DEF WatchInv, WatchTyped, WatchPass
  <1>2. StepOf(pass[p].kind, pass[p].pc, step)
    BY <1>1, StepsOfPasses
  <1>3. Wtc!Active(p)
    BY <1>1 DEF Wtc!At, Wtc!Active, Wtc!Finished, Wtc!Steps
  <1> QED
    BY <1>1, <1>2, <1>3, StepsOfPasses DEF WatchInv, PassesTell

\* The gates run, or a cached pass at this head stands for them.
LEMMA GatesKeep ==
  ASSUME WatchInv, NEW p \in Passes, Wtc!Gates(p)
  PROVE  WatchInv'
  <1> DEFINE a == Wtc!Advanced(p)
             r == IF pass[p].reusable = tip THEN a
                  ELSE [a EXCEPT !.found.test = gate[tip], !.reusable = tip]
  <1>1. /\ pass' = [pass EXCEPT ![p] = r] /\ UNCHANGED <<cache, stamp, history, lock, log, apart>>
        /\ UNCHANGED <<gate, tip, build, sup, turns, owns>>
    BY DEF Wtc!Gates, Wtc!world
  <1>2. pass[p].kind \in {"watch", "checks"} /\ pass[p].pc = 1 /\ LooksIn(pass[p]) /\ FindsLast(pass[p], cache)
    <2>1. Wtc!At(p, "gates")
      BY DEF Wtc!Gates
    <2> QED
      BY <2>1, AtStep, StepsOfKinds
  <1>3. /\ a \in WatchPass /\ a.kind = pass[p].kind /\ a.pc = 2 /\ a.found = pass[p].found
        /\ a.reusable = pass[p].reusable /\ a.later = pass[p].later /\ a.mishaps = pass[p].mishaps
        /\ pass[p] \in WatchPass
    BY <1>2, Advances DEF WatchInv, WatchPass
  <1>4. tip \in Nat /\ tip > 0 /\ gate[tip] \in {"pass", "fail"}
    <2>1. MaxTurns \in Nat /\ turns \in 0..MaxTurns /\ tip \in 1..turns + 1
      BY JudgementsAssumption DEF JudgementsAssumption, Wtc!WatchAssumption, WatchInv, WatchTyped, WorldTyped
    <2>2. tip \in 1..MaxTurns + 1
      BY <2>1
    <2> QED
      BY <2>1, <2>2 DEF WatchInv, WatchTyped, WorldTyped
  <1> HIDE DEF a
  <1>5. /\ r \in WatchPass /\ r.kind = pass[p].kind /\ r.pc = 2 /\ LooksIn(r) /\ FindsLast(r, cache)
        /\ r.mishaps = pass[p].mishaps
    <2>1. CASE pass[p].reusable = tip
      BY <1>2, <1>3, <1>4, <2>1 DEF LooksIn, FindsLast
    <2>2. CASE pass[p].reusable # tip
      <3>1. "test" \in Wtc!Tasks /\ "ci" \in Wtc!Tasks /\ gate[tip] \in Wtc!Statuses
        BY <1>4 DEF Wtc!Tasks, Wtc!Statuses
      <3>2. /\ [a.found EXCEPT !["test"] = gate[tip]] \in [Wtc!Tasks -> Wtc!Statuses]
            /\ [a.found EXCEPT !["test"] = gate[tip]]["test"] = gate[tip]
        BY <1>3, <3>1 DEF WatchPass
      <3>3. r = [a EXCEPT !.found = [a.found EXCEPT !["test"] = gate[tip]], !.reusable = tip]
        BY <1>3, <2>2 DEF WatchPass
      <3>4. /\ r \in WatchPass /\ r.kind = a.kind /\ r.pc = a.pc /\ r.found["test"] = gate[tip]
            /\ r.mishaps = a.mishaps
        BY <1>3, <1>4, <3>2, <3>3 DEF WatchPass
      <3> QED
        BY <1>2, <1>3, <1>4, <3>4 DEF LooksIn, FindsLast
    <2> QED
      BY <2>1, <2>2
  <1> HIDE DEF r
  <1>6. Beside(p, {}) /\ pass'[p] = r
    BY <1>1, <1>5, Moves DEF WatchInv
  <1>7. ~Writing(r) /\ ~Done(r) /\ ~Unrecorded(r) /\ ~Unrecorded(pass[p]) /\ Going(pass[p])
    BY <1>2, <1>5 DEF Writing, Done, Unrecorded, Going
  <1>8. WorldTyped'
    BY <1>1 DEF WatchInv, WatchTyped, WorldTyped
  <1> QED
    BY <1>1, <1>5, <1>6, <1>7, <1>8, QuietStep

\* The remote CI says what it says, or cannot be asked.
LEMMA ProbeCiKeeps ==
  ASSUME WatchInv, NEW p \in Passes, Wtc!ProbeCi(p)
  PROVE  WatchInv'
  <1>1. PICK answer \in {build, "unknown"} : pass' = [pass EXCEPT ![p] = [Wtc!Advanced(p) EXCEPT !.found.ci = answer]]
    BY DEF Wtc!ProbeCi
  <1> DEFINE a == Wtc!Advanced(p)
             r == [a EXCEPT !.found.ci = answer]
  <1>2. UNCHANGED <<cache, stamp, history, lock, log, apart>> /\ UNCHANGED <<gate, tip, build, sup, turns, owns>>
    BY DEF Wtc!ProbeCi, Wtc!world
  <1>3. /\ (pass[p].kind = "watch" /\ pass[p].pc = 2) \/ (pass[p].kind = "ci" /\ pass[p].pc = 1)
        /\ LooksIn(pass[p]) /\ FindsLast(pass[p], cache)
    <2>1. Wtc!At(p, "ci")
      BY DEF Wtc!ProbeCi
    <2> QED
      BY <2>1, AtStep, StepsOfKinds
  <1>4. /\ a \in WatchPass /\ a.kind = pass[p].kind /\ a.pc = pass[p].pc + 1 /\ a.found = pass[p].found
        /\ a.reusable = pass[p].reusable /\ a.later = pass[p].later /\ a.mishaps = pass[p].mishaps
        /\ pass[p] \in WatchPass
    BY <1>3, Advances DEF WatchInv, WatchPass
  <1>5. answer \in Wtc!Statuses /\ answer # "none"
    BY DEF WatchInv, WatchTyped, WorldTyped, Wtc!Statuses
  <1> HIDE DEF a
  <1>6. /\ r \in WatchPass /\ r.kind = pass[p].kind /\ r.pc = pass[p].pc + 1 /\ r.found["ci"] = answer
        /\ r.found["test"] = pass[p].found["test"] /\ r.reusable = pass[p].reusable /\ r.later = pass[p].later
        /\ r.mishaps = pass[p].mishaps
    <2>1. "test" \in Wtc!Tasks /\ "ci" \in Wtc!Tasks /\ a.found \in [Wtc!Tasks -> Wtc!Statuses]
      BY <1>4 DEF Wtc!Tasks, WatchPass
    <2> DEFINE f == [a.found EXCEPT !["ci"] = answer]
    <2>2. f \in [Wtc!Tasks -> Wtc!Statuses] /\ f["ci"] = answer /\ f["test"] = pass[p].found["test"]
      BY <1>4, <1>5, <2>1
    <2>3. r = [a EXCEPT !.found = f]
      BY <1>4 DEF WatchPass
    <2> HIDE DEF f
    <2> QED
      BY <1>4, <2>2, <2>3 DEF WatchPass
  <1>7. LooksIn(r) /\ FindsLast(r, cache)
    BY <1>3, <1>5, <1>6 DEF LooksIn, FindsLast
  <1> HIDE DEF r
  <1>8. Beside(p, {}) /\ pass'[p] = r
    BY <1>1, <1>2, <1>6, Moves DEF WatchInv, r, a
  <1>9. ~Writing(r) /\ ~Done(r) /\ ~Unrecorded(r) /\ ~Unrecorded(pass[p]) /\ Going(pass[p])
    BY <1>3, <1>6 DEF Writing, Done, Unrecorded, Going
  <1>10. WorldTyped'
    BY <1>2 DEF WatchInv, WatchTyped, WorldTyped
  <1> QED
    BY <1>2, <1>6, <1>7, <1>8, <1>9, <1>10, QuietStep

\* The supervised process is up, has died, or is not supervised here.
LEMMA LivenessKeeps ==
  ASSUME WatchInv, NEW p \in Passes, Wtc!Liveness(p)
  PROVE  WatchInv'
  <1> DEFINE a == Wtc!Advanced(p)
  <1>1. /\ UNCHANGED <<stamp, history, lock, log, apart>> /\ UNCHANGED <<gate, tip, build, turns, owns>>
    BY DEF Wtc!Liveness
  <1>2. pass[p].kind = "watch" /\ pass[p].pc = 3 /\ LooksIn(pass[p]) /\ FindsLast(pass[p], cache)
    <2>1. Wtc!At(p, "process")
      BY DEF Wtc!Liveness
    <2> QED
      BY <2>1, AtStep, StepsOfKinds
  <1>3. /\ a \in WatchPass /\ a.kind = "watch" /\ a.pc = 4 /\ a.found = pass[p].found
        /\ a.reusable = pass[p].reusable /\ a.later = pass[p].later /\ a.mishaps = pass[p].mishaps
        /\ pass[p] \in WatchPass
    BY <1>2, Advances DEF WatchInv, WatchPass
  <1>4. WorldTyped'
    BY <1>1 DEF WatchInv, WatchTyped, WorldTyped
  <1>5. "process" \in Wtc!Tasks /\ "test" \in Wtc!Tasks /\ "ci" \in Wtc!Tasks
    BY DEF Wtc!Tasks
  <1> HIDE DEF a
  <1>6. ASSUME owns, pass' = [pass EXCEPT ![p] = a], UNCHANGED cache PROVE WatchInv'
    <2>1. Beside(p, {}) /\ pass'[p] = a
      BY <1>1, <1>3, <1>6, Moves DEF WatchInv
    <2>2. LooksIn(a) /\ FindsLast(a, cache) /\ owns' = owns
      BY <1>1, <1>2, <1>3, <1>6 DEF LooksIn, FindsLast
    <2>3. ~Writing(a) /\ ~Done(a) /\ ~Unrecorded(a) /\ ~Unrecorded(pass[p]) /\ Going(pass[p])
      BY <1>2, <1>3 DEF Writing, Done, Unrecorded, Going
    <2> QED
      BY <1>1, <1>4, <1>6, <2>1, <2>2, <2>3, QuietStep
  <1>7. ASSUME NEW answer \in {"pass", "fail"}, UNCHANGED cache,
               pass' = [pass EXCEPT ![p] = [a EXCEPT !.found.process = answer]]
        PROVE  WatchInv'
    <2> DEFINE f == [a.found EXCEPT !["process"] = answer]
               r == [a EXCEPT !.found = f]
    <2>1. f \in [Wtc!Tasks -> Wtc!Statuses] /\ f["process"] = answer /\ \A t \in {"test", "ci"} : f[t] = pass[p].found[t]
      <3>1. a.found \in [Wtc!Tasks -> Wtc!Statuses] /\ answer \in Wtc!Statuses
        BY <1>3 DEF WatchPass, Wtc!Statuses
      <3> QED
        BY <1>3, <1>5, <3>1
    <2>2. [a EXCEPT !.found.process = answer] = r
      BY <1>3 DEF WatchPass
    <2> HIDE DEF f
    <2>3. /\ r \in WatchPass /\ r.kind = "watch" /\ r.pc = 4 /\ r.found = f /\ r.reusable = pass[p].reusable
          /\ r.later = pass[p].later /\ r.mishaps = pass[p].mishaps
      BY <1>3, <2>1 DEF WatchPass
    <2> HIDE DEF r
    <2>4. Beside(p, {}) /\ pass'[p] = r
      BY <1>1, <1>7, <2>2, <2>3, Moves DEF WatchInv
    <2>5. LooksIn(r) /\ FindsLast(r, cache)
      BY <1>2, <2>1, <2>3 DEF LooksIn, FindsLast
    <2>6. ~Writing(r) /\ ~Done(r) /\ ~Unrecorded(r) /\ ~Unrecorded(pass[p]) /\ Going(pass[p])
      BY <1>2, <2>3 DEF Writing, Done, Unrecorded, Going
    <2> QED
      BY <1>1, <1>4, <1>7, <2>4, <2>5, <2>6, QuietStep
  <1>8. ASSUME pass' = Wtc!Wrote(p, a, {"process"}), cache' = [cache EXCEPT !.process = "none"]
        PROVE  WatchInv'
    <2> DEFINE r == [a EXCEPT !.later = @ \ {"process"}]
    <2>1. /\ cache' \in [Wtc!Tasks -> Wtc!Statuses] /\ cache'["process"] = "none"
          /\ \A t \in Wtc!Tasks \ {"process"} : cache'[t] = cache[t]
      <3>1. "none" \in Wtc!Statuses
        BY DEF Wtc!Statuses
      <3> QED
        BY <1>5, <1>8, <3>1 DEF WatchInv, WatchTyped
    <2>2. Beside(p, {"process"}) /\ pass'[p] = r
      BY <1>1, <1>3, <1>5, <1>8, <2>1, Writes DEF WatchInv
    <2>3. /\ r.kind = "watch" /\ r.pc = 4 /\ r.found = pass[p].found /\ r.reusable = pass[p].reusable
          /\ r.later = pass[p].later \ {"process"} /\ r.mishaps = pass[p].mishaps
      BY <1>3 DEF WatchPass
    <2> HIDE DEF r
    <2>4. LooksIn(r) /\ FindsLast(r, cache')
      BY <1>2, <1>5, <2>1, <2>3 DEF LooksIn, FindsLast
    <2>5. ~Writing(r) /\ ~Done(r) /\ ~Unrecorded(r) /\ ~Unrecorded(pass[p]) /\ Going(pass[p])
      BY <1>2, <2>3 DEF Writing, Done, Unrecorded, Going
    <2>6. cache'["test"] = cache["test"] /\ pass'[p].found["test"] = pass[p].found["test"]
      BY <1>5, <2>1, <2>2, <2>3
    <2> QED
      BY <1>1, <1>4, <1>5, <2>2, <2>4, <2>5, <2>6, QuietStep
  <1>9. ASSUME pass' = [pass EXCEPT ![p] = Wtc!Despite(p, "drop")], UNCHANGED cache PROVE WatchInv'
    <2> DEFINE r == Wtc!Despite(p, "drop")
    <2>1. /\ r \in WatchPass /\ r.kind = "watch" /\ r.pc = 4 /\ r.found = pass[p].found
          /\ r.reusable = pass[p].reusable /\ r.later = pass[p].later
          /\ r.mishaps = pass[p].mishaps \cup {"drop"}
      <3>1. "drop" \in Wtc!Mishaps
        BY DEF Wtc!Mishaps
      <3> QED
        BY <1>2, <3>1, GoesOn DEF WatchInv
    <2> HIDE DEF r
    <2>2. Beside(p, {}) /\ pass'[p] = r
      BY <1>1, <1>9, <2>1, Moves DEF WatchInv, r
    <2>3. LooksIn(r) /\ FindsLast(r, cache)
      BY <1>2, <2>1 DEF LooksIn, FindsLast
    <2>4. ~Writing(r) /\ ~Done(r) /\ ~Unrecorded(r) /\ ~Unrecorded(pass[p]) /\ Going(pass[p])
      BY <1>2, <2>1 DEF Writing, Done, Unrecorded, Going
    <2> QED
      BY <1>1, <1>4, <1>9, <2>2, <2>3, <2>4, QuietStep
  <1> QED
    BY <1>6, <1>7, <1>8, <1>9 DEF Wtc!Liveness, a

\* The save replaces what was found; one that fails leaves the cache to the others.
LEMMA SaveKeeps ==
  ASSUME WatchInv, NEW p \in Passes, Wtc!Save(p)
  PROVE  WatchInv'
  <1> DEFINE a == Wtc!Advanced(p)
  <1>1. UNCHANGED <<history, lock, log>> /\ UNCHANGED <<gate, tip, build, sup, turns, owns>>
    BY DEF Wtc!Save, Wtc!world
  <1>2. /\ (pass[p].kind = "watch" /\ pass[p].pc = 4) \/ (pass[p].kind \in {"checks", "ci"} /\ pass[p].pc = 2)
        /\ LooksIn(pass[p]) /\ FindsLast(pass[p], cache) /\ Wtc!Active(p)
    <2>1. Wtc!At(p, "save")
      BY DEF Wtc!Save
    <2> QED
      BY <2>1, AtStep, StepsOfKinds
  <1>3. /\ a \in WatchPass /\ a.kind = pass[p].kind /\ a.pc = pass[p].pc + 1 /\ a.found = pass[p].found
        /\ a.reusable = pass[p].reusable /\ a.later = pass[p].later /\ a.mishaps = pass[p].mishaps
        /\ pass[p] \in WatchPass
    BY <1>2, Advances DEF WatchInv, WatchPass
  <1>4. WorldTyped'
    BY <1>1 DEF WatchInv, WatchTyped, WorldTyped
  <1>5. "process" \in Wtc!Tasks /\ "test" \in Wtc!Tasks /\ "ci" \in Wtc!Tasks
    BY DEF Wtc!Tasks
  <1> HIDE DEF a
  <1>6. ASSUME cache' = [t \in Wtc!Tasks |-> IF t \in Wtc!Saved(p) THEN pass[p].found[t] ELSE cache[t]],
               stamp' = IF "test" \in Wtc!Saved(p) THEN pass[p].reusable ELSE stamp,
               pass' = Wtc!Wrote(p, a, Wtc!Found(p)), UNCHANGED apart
        PROVE  WatchInv'
    <2> DEFINE tasks == Wtc!Found(p)
               r == [a EXCEPT !.later = @ \ tasks]
    <2>1. /\ tasks \subseteq Wtc!Tasks /\ cache' \in [Wtc!Tasks -> Wtc!Statuses]
          /\ \A t \in Wtc!Tasks : cache'[t] = IF pass[p].found[t] # "none" THEN pass[p].found[t] ELSE cache[t]
          /\ \A t \in Wtc!Tasks : t \in tasks <=> pass[p].found[t] # "none"
      <3>1. cache \in [Wtc!Tasks -> Wtc!Statuses] /\ pass[p].found \in [Wtc!Tasks -> Wtc!Statuses]
        BY <1>3 DEF WatchInv, WatchTyped, WatchPass
      <3> QED
        BY <1>6, <3>1 DEF Wtc!Saved, Wtc!Found
    <2> HIDE DEF tasks
    <2>2. Beside(p, tasks) /\ pass'[p] = r
      <3>1. \A t \in Wtc!Tasks \ tasks : cache'[t] = cache[t]
        BY <2>1
      <3> QED
        BY <1>1, <1>3, <1>6, <2>1, <3>1, Writes DEF WatchInv, tasks
    <2>3. /\ r.kind = pass[p].kind /\ r.pc = pass[p].pc + 1 /\ r.found = pass[p].found
          /\ r.reusable = pass[p].reusable /\ r.later = pass[p].later \ tasks
          /\ r.mishaps = pass[p].mishaps
      BY <1>3 DEF WatchPass
    <2> HIDE DEF r
    <2>4. LooksIn(r) /\ FindsLast(r, cache')
      <3>1. LooksIn(r)
        BY <1>2, <2>3 DEF LooksIn
      <3>2. r.found["test"] = "none" /\ r.reusable > 0 /\ "test" \notin r.later => cache'["test"] # "fail"
        BY <1>2, <1>5, <2>1, <2>3 DEF FindsLast
      <3>3. r.kind = "watch" /\ r.pc > 3 /\ ~owns' /\ r.found["process"] = "none" /\ "process" \notin r.later
              => cache'["process"] = "none" \/ "drop" \in r.mishaps
        BY <1>1, <1>2, <1>5, <2>1, <2>3 DEF FindsLast
      <3>4. \A t \in Wtc!Tasks \ r.later : r.found[t] # "none" => cache'[t] = r.found[t]
        BY <2>1, <2>3
      <3> QED
        BY <1>1, <3>1, <3>2, <3>3, <3>4 DEF FindsLast
    <2>5. ~Writing(r) /\ (Done(r) => r.kind = "ci") /\ ~Unrecorded(pass[p]) /\ Going(pass[p])
      BY <1>2, <2>3 DEF Writing, Done, Unrecorded, Going
    <2>6. PassesTell'
      BY <2>1, <2>2, <2>4, <2>5, OthersTell DEF WatchInv
    <2>7. LogLocked'
      BY <1>1, <2>1, <2>2, <2>5, OthersLocked DEF WatchInv
    <2>8. WatchTyped'
      <3>1. pass[p].reusable \in Nat /\ stamp \in Nat /\ apart \in BOOLEAN
        BY <1>3 DEF WatchPass, WatchInv, WatchTyped
      <3>2. stamp' \in Nat /\ apart' \in BOOLEAN
        BY <1>6, <3>1
      <3> QED
        BY <1>1, <1>4, <2>2, <3>2 DEF WatchInv, WatchTyped, Beside
    <2>9. TrendFollows'
      <3>1. SUFFICES ASSUME apart' PROVE
            /\ \A q, w \in Passes : Going(pass'[q]) /\ Going(pass'[w]) => q = w
            /\ \A q \in Passes : Unrecorded(pass'[q]) => cache'["test"] = pass'[q].found["test"]
            /\ Guarded(pass') /\ (\A q \in Passes : ~Unrecorded(pass'[q])) => Trend(history', cache'["test"])
        BY <2>2, <3>1, StepsAfter DEF TrendFollows, Beside, Trend, Guarded, Unrecorded, Wtc!IsLastOutcome
      <3>2. /\ apart /\ pass \in [Passes -> WatchPass]
        BY <1>6, <3>1 DEF WatchInv, WatchTyped
      <3>3. /\ \A q \in Passes \ {p} : ~Going(pass[q])
            /\ Guarded(pass) /\ (\A q \in Passes : ~Unrecorded(pass[q])) => Trend(history, cache["test"])
        <4>1. \A q, w \in Passes : Going(pass[q]) /\ Going(pass[w]) => q = w
          BY <3>2, StepsOfPasses DEF WatchInv, TrendFollows
        <4> QED
          BY <2>5, <3>2, <4>1 DEF WatchInv, TrendFollows
      <3>4. \A q \in Passes \ {p} : ~Going(pass'[q]) /\ ~Unrecorded(pass'[q]) /\ ~Unrecorded(pass[q])
        <4>1. \A q \in Passes \ {p} : pass'[q] = pass[q]
          BY <2>2, <3>2, <3>3, StepsOfPasses DEF Beside
        <4>2. \A q \in Passes : Unrecorded(pass[q]) => Going(pass[q])
          BY DEF Unrecorded, Going
        <4> QED
          BY <3>3, <4>1, <4>2
      <3>5. Guarded(pass') => Trend(history, cache["test"])
        BY <2>2, <2>5, <3>2, <3>3, <3>4, GuardedBefore
      <3>6. Unrecorded(r) => cache'["test"] = r.found["test"]
        BY <1>5, <2>1, <2>3 DEF Unrecorded
      <3>7. ~Unrecorded(r) => pass[p].found["test"] = "none"
        BY <1>2, <2>3 DEF Unrecorded, LooksIn
      <3>8. ~Unrecorded(r) => cache'["test"] = cache["test"]
        BY <1>5, <2>1, <3>7
      <3> QED
        BY <1>1, <2>2, <3>4, <3>5, <3>6, <3>8
    <2> QED
      BY <2>6, <2>7, <2>8, <2>9 DEF WatchInv
  <1>7. ASSUME pass' = [pass EXCEPT ![p] = Wtc!Despite(p, "save")], apart' = FALSE,
               UNCHANGED <<cache, stamp>>
        PROVE  WatchInv'
    <2> DEFINE r == Wtc!Despite(p, "save")
    <2>1. /\ r \in WatchPass /\ r.kind = pass[p].kind /\ r.pc = pass[p].pc + 1 /\ r.found = pass[p].found
          /\ r.reusable = pass[p].reusable /\ r.later = pass[p].later
          /\ r.mishaps = pass[p].mishaps \cup {"save"}
      <3>1. "save" \in Wtc!Mishaps
        BY DEF Wtc!Mishaps
      <3> QED
        BY <3>1, GoesOn DEF WatchInv
    <2> HIDE DEF r
    <2>2. Beside(p, {}) /\ pass'[p] = r
      BY <1>1, <1>7, <2>1, Moves DEF WatchInv, r
    <2>3. LooksIn(r) /\ FindsLast(r, cache)
      BY <1>2, <2>1 DEF LooksIn, FindsLast
    <2>4. ~Writing(r) /\ (Done(r) => r.kind = "ci")
      BY <1>2, <2>1 DEF Writing, Done
    <2>5. PassesTell'
      BY <1>7, <2>2, <2>3, <2>4, OthersTell DEF WatchInv
    <2>6. LogLocked'
      BY <1>1, <2>2, <2>4, OthersLocked DEF WatchInv
    <2>7. WatchTyped'
      <3>1. apart' \in BOOLEAN
        BY <1>7, Zenon
      <3> QED
        BY <1>1, <1>4, <1>7, <2>2, <3>1 DEF WatchInv, WatchTyped, Beside
    <2>8. TrendFollows'
      BY <1>7 DEF TrendFollows
    <2> QED
      BY <2>5, <2>6, <2>7, <2>8 DEF WatchInv
  <1>8. ASSUME cache' = [t \in Wtc!Tasks |-> IF t \in Wtc!Saved(p) THEN pass[p].found[t] ELSE "none"],
               stamp' = IF "test" \in Wtc!Saved(p) THEN pass[p].reusable ELSE 0,
               pass' = Wtc!Wrote(p, Wtc!Despite(p, "read"), Wtc!Tasks), apart' = FALSE
        PROVE  WatchInv'
    <2> DEFINE d == Wtc!Despite(p, "read")
               r == [d EXCEPT !.later = @ \ Wtc!Tasks]
    <2>1. /\ d \in WatchPass /\ d.kind = pass[p].kind /\ d.pc = pass[p].pc + 1 /\ d.found = pass[p].found
          /\ d.reusable = pass[p].reusable /\ d.later = pass[p].later
          /\ d.mishaps = pass[p].mishaps \cup {"read"}
      <3>1. "read" \in Wtc!Mishaps
        BY DEF Wtc!Mishaps
      <3> QED
        BY <3>1, GoesOn DEF WatchInv
    <2> HIDE DEF d
    <2>2. /\ cache' \in [Wtc!Tasks -> Wtc!Statuses]
          /\ \A t \in Wtc!Tasks : cache'[t] = IF pass[p].found[t] # "none" THEN pass[p].found[t] ELSE "none"
      <3>1. pass[p].found \in [Wtc!Tasks -> Wtc!Statuses] /\ "none" \in Wtc!Statuses
        BY <1>3 DEF WatchPass, Wtc!Statuses
      <3> QED
        BY <1>8, <3>1 DEF Wtc!Saved, Wtc!Found
    <2>3. Beside(p, Wtc!Tasks) /\ pass'[p] = r
      BY <1>1, <1>8, <2>1, <2>2, Writes DEF WatchInv, d
    <2>4. /\ r.kind = pass[p].kind /\ r.pc = pass[p].pc + 1 /\ r.found = pass[p].found
          /\ r.reusable = pass[p].reusable /\ r.later = {} /\ r.mishaps = pass[p].mishaps \cup {"read"}
      BY <1>3, <2>1 DEF WatchPass
    <2> HIDE DEF r
    <2>5. LooksIn(r) /\ FindsLast(r, cache')
      BY <1>2, <1>5, <2>2, <2>4 DEF LooksIn, FindsLast
    <2>6. ~Writing(r) /\ (Done(r) => r.kind = "ci")
      BY <1>2, <2>4 DEF Writing, Done
    <2>7. PassesTell'
      BY <1>1, <2>3, <2>5, <2>6, OthersTell DEF WatchInv, FindsLast
    <2>8. LogLocked'
      BY <1>1, <2>3, <2>6, OthersLocked DEF WatchInv
    <2>9. WatchTyped'
      <3>1. apart' \in BOOLEAN /\ stamp' \in Nat
        <4>1. apart' \in BOOLEAN
          BY <1>8, Zenon
        <4>2. pass[p].reusable \in Nat
          BY <1>3 DEF WatchPass
        <4> QED
          BY <1>8, <4>1, <4>2
      <3> QED
        BY <1>1, <1>4, <2>3, <3>1 DEF WatchInv, WatchTyped, Beside
    <2>10. TrendFollows'
      BY <1>8 DEF TrendFollows
    <2> QED
      BY <2>7, <2>8, <2>9, <2>10 DEF WatchInv
  <1> QED
    BY <1>6, <1>7, <1>8 DEF Wtc!Save, a

\* The log is loaded under its lock, or the mishap is on record.
LEMMA LoadKeeps ==
  ASSUME WatchInv, NEW p \in Passes, Wtc!Load(p)
  PROVE  WatchInv'
  <1>1. UNCHANGED <<cache, stamp, history, log, apart>> /\ UNCHANGED <<gate, tip, build, sup, turns, owns>>
    BY DEF Wtc!Load, Wtc!world
  <1>2. /\ (pass[p].kind = "watch" /\ pass[p].pc = 5) \/ (pass[p].kind = "checks" /\ pass[p].pc = 3)
        /\ LooksIn(pass[p]) /\ FindsLast(pass[p], cache)
    <2>1. Wtc!At(p, "load")
      BY DEF Wtc!Load
    <2> QED
      BY <2>1, AtStep, StepsOfKinds
  <1>3. PICK r \in WatchPass :
          /\ pass' = [pass EXCEPT ![p] = r]
          /\ r.kind = pass[p].kind /\ r.pc = pass[p].pc + 1 /\ r.found = pass[p].found
          /\ r.reusable = pass[p].reusable /\ r.later = pass[p].later /\ pass[p].mishaps \subseteq r.mishaps
          /\ r.mishaps \subseteq pass[p].mishaps \cup {"load"}
          /\ "load" \in r.mishaps \/ (r.loaded = history /\ lock = "free" /\ lock' = p)
    <2>0. history \in Seq(HistoryEntry) /\ pass[p] \in WatchPass
      BY DEF WatchInv, WatchTyped
    <2> DEFINE a == Wtc!Advanced(p)
               d == Wtc!Despite(p, "load")
    <2>1. /\ a \in WatchPass /\ a.kind = pass[p].kind /\ a.pc = pass[p].pc + 1 /\ a.found = pass[p].found
          /\ a.reusable = pass[p].reusable /\ a.later = pass[p].later /\ a.mishaps = pass[p].mishaps
      BY <1>2, Advances DEF WatchInv, WatchPass
    <2>2. /\ d \in WatchPass /\ d.kind = pass[p].kind /\ d.pc = pass[p].pc + 1 /\ d.found = pass[p].found
          /\ d.reusable = pass[p].reusable /\ d.later = pass[p].later
          /\ d.mishaps = pass[p].mishaps \cup {"load"}
      <3>1. "load" \in Wtc!Mishaps
        BY DEF Wtc!Mishaps
      <3> QED
        BY <3>1, GoesOn DEF WatchInv
    <2> HIDE DEF a, d
    <2>3. CASE pass' = [pass EXCEPT ![p] = [a EXCEPT !.loaded = history]] /\ Wtc!TakeLock(p)
      <3> DEFINE r == [a EXCEPT !.loaded = history]
      <3>1. /\ r \in WatchPass /\ r.kind = a.kind /\ r.pc = a.pc /\ r.found = a.found /\ r.reusable = a.reusable
            /\ r.later = a.later /\ r.mishaps = a.mishaps /\ r.loaded = history
        BY <2>0, <2>1 DEF WatchPass
      <3>2. pass' = [pass EXCEPT ![p] = r] /\ lock = "free" /\ lock' = p
        BY <2>3 DEF Wtc!TakeLock
      <3> HIDE DEF r
      <3> QED
        BY <2>1, <3>1, <3>2
    <2>4. CASE pass' = [pass EXCEPT ![p] = [d EXCEPT !.loaded = history]]
      <3> DEFINE r == [d EXCEPT !.loaded = history]
      <3>1. /\ r \in WatchPass /\ r.kind = d.kind /\ r.pc = d.pc /\ r.found = d.found /\ r.reusable = d.reusable
            /\ r.later = d.later /\ r.mishaps = d.mishaps
        BY <2>0, <2>2 DEF WatchPass
      <3>2. pass' = [pass EXCEPT ![p] = r]
        BY <2>4
      <3> HIDE DEF r
      <3> QED
        BY <2>2, <3>1, <3>2
    <2>5. CASE pass' = [pass EXCEPT ![p] = d]
      BY <2>2, <2>5
    <2> QED
      BY <2>3, <2>4, <2>5 DEF Wtc!Load, a, d
  <1>4. lock' \in {"free"} \cup Passes
    BY DEF Wtc!Load, Wtc!TakeLock, WatchInv, WatchTyped
  <1>5. Beside(p, {}) /\ pass'[p] = r
    BY <1>1, <1>3, Moves DEF WatchInv
  <1>6. LooksIn(r) /\ FindsLast(r, cache) /\ ~Done(r) /\ Going(pass[p]) /\ (Unrecorded(r) <=> Unrecorded(pass[p]))
    BY <1>2, <1>3 DEF LooksIn, FindsLast, Done, Going, Unrecorded
  <1>7. PassesTell'
    BY <1>1, <1>5, <1>6, OthersTell DEF WatchInv
  <1>8. TrendFollows'
    BY <1>1, <1>3, <1>5, <1>6, OthersFollow DEF WatchInv
  <1>9. WatchTyped'
    BY <1>1, <1>4, <1>5 DEF WatchInv, WatchTyped, WorldTyped, Beside
  <1>10. LogLocked'
    <2>1. pass \in [Passes -> WatchPass] /\ pass' \in [Passes -> WatchPass]
      BY <1>5 DEF WatchInv, WatchTyped, Beside
    <2>2. SUFFICES ASSUME Guarded(pass') PROVE
            history' = Wtc!Kept(log') /\ \A q \in Passes : Writing(pass'[q]) => lock' = q /\ pass'[q].loaded = history'
      BY <2>1, StepsAfter DEF LogLocked, Guarded, Wtc!Kept
    <2>3. /\ Guarded(pass) /\ history = Wtc!Kept(log) /\ lock = "free" /\ lock' = p /\ r.loaded = history
      BY <1>3, <1>5, <2>1, <2>2, GuardedBefore DEF WatchInv, LogLocked, Guarded
    <2>4. \A q \in Passes : ~Writing(pass[q])
      <3>1. "free" \notin Passes
        BY JudgementsAssumption DEF JudgementsAssumption, Wtc!WatchAssumption
      <3>2. ASSUME NEW q \in Passes, Writing(pass[q]) PROVE FALSE
        <4>1. Wtc!At(q, "write")
          BY <2>1, <3>2, StepsOfPasses
        <4> QED
          BY <2>3, <3>1, <3>2, <4>1 DEF WatchInv, LogLocked
      <3> QED
        BY <3>2
    <2>5. \A q \in Passes \ {p} : ~Writing(pass'[q])
      BY <1>3, <2>1, <2>4
    <2> QED
      BY <1>1, <1>3, <1>5, <2>3, <2>5
  <1> QED
    BY <1>7, <1>8, <1>9, <1>10 DEF WatchInv

\* Nothing of it is to be recorded: its gate did not run.
LEMMA RecordNothingKeeps ==
  ASSUME WatchInv, NEW p \in Passes, Wtc!RecordNothing(p)
  PROVE  WatchInv'
  <1> DEFINE r == [pass[p] EXCEPT !.pc = @ + 2]
  <1>1. /\ UNCHANGED <<cache, stamp, history, lock, log, apart>> /\ UNCHANGED <<gate, tip, build, sup, turns, owns>>
        /\ pass' = [pass EXCEPT ![p] = r] /\ Wtc!Recorded(p) = <<>>
    BY DEF Wtc!RecordNothing, Wtc!world
  <1>2. /\ (pass[p].kind = "watch" /\ pass[p].pc = 5) \/ (pass[p].kind = "checks" /\ pass[p].pc = 3)
        /\ LooksIn(pass[p]) /\ FindsLast(pass[p], cache)
    <2>1. Wtc!At(p, "load")
      BY DEF Wtc!RecordNothing
    <2> QED
      BY <2>1, AtStep, StepsOfKinds
  <1>3. pass[p] \in WatchPass
    BY DEF WatchInv, WatchTyped
  <1>4. /\ r \in WatchPass /\ r.kind = pass[p].kind /\ r.pc = pass[p].pc + 2 /\ r.found = pass[p].found
        /\ r.reusable = pass[p].reusable /\ r.later = pass[p].later /\ r.mishaps = pass[p].mishaps
    BY <1>3 DEF WatchPass
  <1> HIDE DEF r
  <1>5. pass[p].found["test"] = "none"
    <2>1. pass[p].found["test"] # "none" => Len(Wtc!Recorded(p)) > 0
      BY <1>2, <1>3, RecordedIs DEF LooksIn
    <2>2. Len(Wtc!Recorded(p)) = 0
      BY <1>1
    <2> QED
      BY <2>1, <2>2
  <1>6. Beside(p, {}) /\ pass'[p] = r
    BY <1>1, <1>4, Moves DEF WatchInv
  <1>7. LooksIn(r) /\ FindsLast(r, cache) /\ ~(Done(r) /\ r.kind = "watch") /\ Going(pass[p])
    BY <1>2, <1>4 DEF LooksIn, FindsLast, Done, Going
  <1>8. ~Unrecorded(r) /\ ~Unrecorded(pass[p]) /\ ~Writing(r)
    BY <1>2, <1>4, <1>5 DEF Unrecorded, Writing
  <1>9. WorldTyped'
    BY <1>1 DEF WatchInv, WatchTyped, WorldTyped
  <1> QED
    BY <1>1, <1>6, <1>7, <1>8, <1>9, QuietStep

\* The alerts are raised over the cache, where what was found last is.
LEMMA AlertsKeep ==
  ASSUME WatchInv, NEW p \in Passes, Wtc!Alerts(p)
  PROVE  WatchInv'
  <1>1. UNCHANGED <<cache, stamp, history, lock, log, apart>> /\ UNCHANGED <<gate, tip, build, sup, turns, owns>>
    BY DEF Wtc!Alerts, Wtc!world
  <1>2. pass[p].kind = "watch" /\ pass[p].pc = 7 /\ LooksIn(pass[p]) /\ FindsLast(pass[p], cache)
    <2>1. Wtc!At(p, "alerts")
      BY DEF Wtc!Alerts
    <2> QED
      BY <2>1, AtStep, StepsOfKinds
  <1>3. WorldTyped' /\ Going(pass[p]) /\ ~Unrecorded(pass[p])
    BY <1>1, <1>2 DEF WatchInv, WatchTyped, WorldTyped, Going, Unrecorded
  <1>4. ASSUME NEW r \in WatchPass, pass' = [pass EXCEPT ![p] = r], r.kind = "watch", r.pc = 8,
               r.found = pass[p].found, r.reusable = pass[p].reusable, r.later = pass[p].later,
               pass[p].mishaps \subseteq r.mishaps,
               "alerts" \notin r.mishaps => r.mishaps = pass[p].mishaps /\ (r.rc = 1 <=> Wtc!Failing(cache)),
               r.rc = 1 => Wtc!Failing(cache)
        PROVE  WatchInv'
    <2>1. Beside(p, {}) /\ pass'[p] = r
      BY <1>1, <1>4, Moves DEF WatchInv
    <2>2. LooksIn(r) /\ ~Going(r) /\ ~Unrecorded(r) /\ ~Writing(r)
      BY <1>2, <1>4 DEF LooksIn, Going, Unrecorded, Writing
    <2>3. "save" \notin r.mishaps => \A t \in Wtc!Tasks \ r.later : r.found[t] # "none" => cache[t] = r.found[t]
      BY <1>2, <1>4 DEF FindsLast
    <2>4. {"save", "alerts"} \cap r.mishaps = {} => \A t \in Wtc!Tasks \ r.later : r.found[t] = "fail" => r.rc = 1
      BY <1>4, <2>3 DEF Wtc!Failing
    <2>5. ASSUME r.rc = 1, ~owns, r.later = {}, {"drop", "save"} \cap r.mishaps = {} PROVE Wtc!Failing(r.found)
      <3>1. PICK t \in Wtc!Tasks : cache[t] = "fail"
        BY <1>4, <2>5 DEF Wtc!Failing
      <3>2. "drop" \notin pass[p].mishaps /\ "save" \notin r.mishaps
        BY <1>4, <2>5
      <3>3. r.found[t] # "none"
        BY <1>2, <1>4, <2>5, <3>1, <3>2 DEF LooksIn, FindsLast, Wtc!Tasks
      <3> QED
        BY <2>3, <2>5, <3>1, <3>2, <3>3 DEF Wtc!Failing
    <2>6. Alerted(r)
      BY <2>4, <2>5 DEF Alerted
    <2> QED
      BY <1>1, <1>3, <2>1, <2>2, <2>6, QuietStep
  <1>5. CASE pass' = [pass EXCEPT ![p] = [Wtc!Advanced(p) EXCEPT !.rc = IF Wtc!Failing(cache) THEN 1 ELSE 0]]
    <2> DEFINE a == Wtc!Advanced(p)
               exits == IF Wtc!Failing(cache) THEN 1 ELSE 0
               r == [a EXCEPT !.rc = exits]
    <2>1. /\ a \in WatchPass /\ a.kind = pass[p].kind /\ a.pc = 8 /\ a.found = pass[p].found
          /\ a.reusable = pass[p].reusable /\ a.later = pass[p].later /\ a.mishaps = pass[p].mishaps
      BY <1>2, Advances DEF WatchInv, WatchPass
    <2>2. exits \in {0, 1} /\ (exits = 1 <=> Wtc!Failing(cache))
      OBVIOUS
    <2> HIDE DEF a, exits
    <2>3. /\ r \in WatchPass /\ r.kind = "watch" /\ r.pc = 8 /\ r.found = pass[p].found
          /\ r.reusable = pass[p].reusable /\ r.later = pass[p].later /\ r.mishaps = pass[p].mishaps /\ r.rc = exits
      BY <1>2, <2>1, <2>2 DEF WatchPass
    <2>4. pass' = [pass EXCEPT ![p] = r]
      BY <1>5 DEF a, exits
    <2> HIDE DEF r
    <2> QED
      BY <1>4, <2>2, <2>3, <2>4
  <1>6. CASE pass' = [pass EXCEPT ![p] = [Wtc!Despite(p, "alerts") EXCEPT !.rc = 0]]
    <2> DEFINE d == Wtc!Despite(p, "alerts")
               r == [d EXCEPT !.rc = 0]
    <2>1. /\ d \in WatchPass /\ d.kind = pass[p].kind /\ d.pc = pass[p].pc + 1 /\ d.found = pass[p].found
          /\ d.reusable = pass[p].reusable /\ d.later = pass[p].later
          /\ d.mishaps = pass[p].mishaps \cup {"alerts"}
      <3>1. "alerts" \in Wtc!Mishaps
        BY DEF Wtc!Mishaps
      <3> QED
        BY <3>1, GoesOn DEF WatchInv
    <2> HIDE DEF d
    <2>2. /\ r \in WatchPass /\ r.kind = "watch" /\ r.pc = 8 /\ r.found = pass[p].found
          /\ r.reusable = pass[p].reusable /\ r.later = pass[p].later
          /\ r.mishaps = pass[p].mishaps \cup {"alerts"} /\ r.rc = 0
      BY <1>2, <2>1 DEF WatchPass
    <2>3. pass' = [pass EXCEPT ![p] = r]
      BY <1>6 DEF d
    <2> HIDE DEF r
    <2>4. "alerts" \in r.mishaps /\ pass[p].mishaps \subseteq r.mishaps /\ r.rc # 1
      BY <2>2
    <2> QED
      BY <1>4, <2>2, <2>3, <2>4
  <1> QED
    BY <1>5, <1>6 DEF Wtc!Alerts

\* The end of a trend is that trend.
LEMMA TrendOfKept ==
  ASSUME MaxEntries \in Nat \ {0}, NEW s \in Seq(HistoryEntry), NEW status1, Trend(s, status1)
  PROVE  Trend(Wtc!Kept(s), status1)
  <1> DEFINE k == Wtc!Kept(s)
             d == Len(s) - Len(k)
  <1>1. /\ k \in Seq(HistoryEntry) /\ Len(k) = IF Len(s) > MaxEntries THEN MaxEntries ELSE Len(s)
        /\ \A i \in DOMAIN k : d + i \in DOMAIN s /\ k[i] = s[d + i]
    BY KeptIsTheEnd
  <1> HIDE DEF k
  <1>2. Len(s) \in Nat /\ Len(k) \in Nat /\ d \in Nat /\ DOMAIN s = 1..Len(s) /\ DOMAIN k = 1..Len(k)
    BY <1>1
  <1>3. Len(s) = d + Len(k)
    BY <1>2
  <1> HIDE DEF d
  <1>4. ASSUME NEW i \in DOMAIN k, Wtc!IsLastOutcome(k, i) PROVE k[i].status = status1
    <2>1. d + i \in DOMAIN s /\ s[d + i] = k[i] /\ k[i].task = "test"
      BY <1>1, <1>4 DEF Wtc!IsLastOutcome
    <2>2. ASSUME NEW j \in DOMAIN s, j > d + i PROVE s[j].task # "test"
      <3>1. j - d \in DOMAIN k /\ j - d > i /\ d + (j - d) = j
        BY <1>2, <1>3, <2>2
      <3>2. k[j - d].task # "test"
        BY <1>4, <3>1 DEF Wtc!IsLastOutcome
      <3> QED
        BY <1>1, <3>1, <3>2
    <2>3. Wtc!IsLastOutcome(s, d + i)
      BY <2>1, <2>2 DEF Wtc!IsLastOutcome
    <2> QED
      BY <2>1, <2>3 DEF Trend
  <1> QED
    BY <1>4 DEF Trend, k

\* A pass that ran its gate sets the trend, and one that did not leaves it.
LEMMA TrendOfRecorded ==
  ASSUME NEW p \in Passes, pass[p] \in WatchPass, pass[p].found["test"] # "unknown",
         NEW s \in Seq(HistoryEntry), NEW status1,
         IF pass[p].found["test"] # "none" THEN pass[p].found["test"] = status1 ELSE Trend(s, status1)
  PROVE  Trend(s \o Wtc!Recorded(p), status1) /\ s \o Wtc!Recorded(p) \in Seq(HistoryEntry)
  <1> DEFINE r  == Wtc!Recorded(p)
             sr == s \o r
  <1>1. /\ r \in Seq(HistoryEntry)
        /\ pass[p].found["test"] # "none" =>
             /\ Len(r) > 0
             /\ r[1] = [task |-> "test", status |-> pass[p].found["test"]]
        /\ \A j \in 1..Len(r) : r[j].task = "test" => j = 1 /\ pass[p].found["test"] # "none"
    BY RecordedIs
  <1> HIDE DEF r
  <1>2. /\ sr \in Seq(HistoryEntry) /\ Len(sr) = Len(s) + Len(r) /\ DOMAIN sr = 1..Len(sr)
        /\ \A i \in 1..Len(sr) : sr[i] = IF i <= Len(s) THEN s[i] ELSE r[i - Len(s)]
    BY <1>1
  <1> HIDE DEF sr
  <1>3. Len(s) \in Nat /\ Len(r) \in Nat /\ DOMAIN s = 1..Len(s)
    BY <1>1
  <1>4. ASSUME NEW i \in DOMAIN sr, Wtc!IsLastOutcome(sr, i) PROVE sr[i].status = status1
    <2>1. i \in 1..Len(sr) /\ sr[i].task = "test" /\ \A j \in DOMAIN sr : j > i => sr[j].task # "test"
      BY <1>2, <1>4 DEF Wtc!IsLastOutcome
    <2>2. CASE pass[p].found["test"] # "none"
      <3>1. Len(s) + 1 \in DOMAIN sr /\ sr[Len(s) + 1] = r[1]
        <4>1. Len(s) + 1 \in 1..Len(sr) /\ ~(Len(s) + 1 <= Len(s)) /\ Len(s) + 1 - Len(s) = 1
          BY <1>1, <1>2, <1>3, <2>2
        <4> QED
          BY <1>2, <4>1
      <3>2. r[1].task = "test" /\ r[1].status = status1
        BY <1>1, <2>2
      <3>3. ~(Len(s) + 1 > i)
        BY <2>1, <3>1, <3>2
      <3>4. i = Len(s) + 1
        <4>1. sr[i] = r[i - Len(s)] /\ i - Len(s) \in 1..Len(r)
          BY <1>2, <1>3, <2>1, <3>3
        <4>2. i - Len(s) = 1
          BY <1>1, <2>1, <4>1
        <4> QED
          BY <1>3, <2>1, <4>2
      <3> QED
        BY <3>1, <3>2, <3>4
    <2>3. CASE pass[p].found["test"] = "none"
      <3>1. i <= Len(s) /\ i \in DOMAIN s /\ sr[i] = s[i]
        <4>1. ~(i > Len(s))
          <5>1. SUFFICES ASSUME i > Len(s) PROVE FALSE
            BY <1>3, <2>1
          <5>2. sr[i] = r[i - Len(s)] /\ i - Len(s) \in 1..Len(r)
            BY <1>2, <1>3, <2>1, <5>1
          <5> QED
            BY <1>1, <2>1, <2>3, <5>2
        <4>2. i <= Len(s) /\ i \in 1..Len(s)
          BY <1>2, <1>3, <2>1, <4>1
        <4> QED
          BY <1>2, <1>3, <2>1, <4>2
      <3>2. ASSUME NEW j \in DOMAIN s, j > i PROVE s[j].task # "test"
        <4>1. j \in 1..Len(sr) /\ j <= Len(s)
          BY <1>2, <1>3, <3>2
        <4> QED
          BY <1>2, <2>1, <3>2, <4>1
      <3>3. Wtc!IsLastOutcome(s, i)
        BY <2>1, <3>1, <3>2 DEF Wtc!IsLastOutcome
      <3> QED
        BY <2>3, <3>1, <3>3 DEF Trend
    <2> QED
      BY <2>2, <2>3
  <1>5. Trend(sr, status1)
    BY <1>4 DEF Trend
  <1> QED
    BY <1>2, <1>5 DEF sr, r

\* What was loaded and what is recorded are one history, and the lock is given back.
LEMMA RecordKeeps ==
  ASSUME WatchInv, NEW p \in Passes, Wtc!Record(p)
  PROVE  WatchInv'
  <1>0. MaxEntries \in Nat \ {0} /\ "free" \notin Passes
    BY JudgementsAssumption DEF JudgementsAssumption, Wtc!WatchAssumption
  <1>1. /\ UNCHANGED <<cache, stamp>> /\ UNCHANGED <<gate, tip, build, sup, turns, owns>>
        /\ lock' = IF lock = p THEN "free" ELSE lock
    BY DEF Wtc!Record, Wtc!world
  <1>2. /\ (pass[p].kind = "watch" /\ pass[p].pc = 6) \/ (pass[p].kind = "checks" /\ pass[p].pc = 4)
        /\ LooksIn(pass[p]) /\ FindsLast(pass[p], cache) /\ Wtc!At(p, "write")
    <2>1. Wtc!At(p, "write")
      BY DEF Wtc!Record
    <2> QED
      BY <2>1, AtStep, StepsOfKinds
  <1>a. pass[p] \in WatchPass
    BY DEF WatchInv, WatchTyped
  <1>3. PICK r \in WatchPass :
          /\ pass' = [pass EXCEPT ![p] = r]
          /\ r.kind = pass[p].kind /\ r.pc = pass[p].pc + 1 /\ r.found = pass[p].found
          /\ r.reusable = pass[p].reusable /\ r.later = pass[p].later /\ pass[p].mishaps \subseteq r.mishaps
          /\ r.mishaps \subseteq pass[p].mishaps \cup {"write"}
    <2> DEFINE a == Wtc!Advanced(p)
               d == Wtc!Despite(p, "write")
    <2>1. /\ a \in WatchPass /\ a.kind = pass[p].kind /\ a.pc = pass[p].pc + 1 /\ a.found = pass[p].found
          /\ a.reusable = pass[p].reusable /\ a.later = pass[p].later /\ a.mishaps = pass[p].mishaps
      BY <1>2, Advances DEF WatchInv, WatchPass
    <2>2. /\ d \in WatchPass /\ d.kind = pass[p].kind /\ d.pc = pass[p].pc + 1 /\ d.found = pass[p].found
          /\ d.reusable = pass[p].reusable /\ d.later = pass[p].later
          /\ d.mishaps = pass[p].mishaps \cup {"write"}
      <3>1. "write" \in Wtc!Mishaps
        BY DEF Wtc!Mishaps
      <3> QED
        BY <3>1, GoesOn DEF WatchInv
    <2>3. pass' = [pass EXCEPT ![p] = a] \/ pass' = [pass EXCEPT ![p] = d]
      BY DEF Wtc!Record
    <2> HIDE DEF a, d
    <2> QED
      BY <2>1, <2>2, <2>3
  <1>4. Beside(p, {}) /\ pass'[p] = r
    BY <1>1, <1>3, Moves DEF WatchInv
  <1>5. /\ LooksIn(r) /\ FindsLast(r, cache) /\ ~(Done(r) /\ r.kind = "watch") /\ Going(pass[p])
        /\ ~Writing(r) /\ ~Unrecorded(r)
    BY <1>2, <1>3 DEF LooksIn, FindsLast, Done, Going, Writing, Unrecorded
  <1>6. PassesTell'
    BY <1>1, <1>4, <1>5, OthersTell DEF WatchInv
  <1>7. /\ history \in Seq(HistoryEntry) /\ log \in Seq(HistoryEntry) /\ Wtc!Recorded(p) \in Seq(HistoryEntry)
        /\ pass[p].loaded \in Seq(HistoryEntry)
    BY <1>2, <1>a, RecordedIs DEF WatchInv, WatchTyped, LooksIn, WatchPass
  <1>8. pass \in [Passes -> WatchPass] /\ pass' \in [Passes -> WatchPass] /\ \A q \in Passes \ {p} : pass'[q] = pass[q]
    BY <1>3, <1>4 DEF WatchInv, WatchTyped, Beside
  <1>b. Guarded(pass') => Guarded(pass)
    BY <1>4, <1>8, GuardedBefore
  <1>c. Guarded(pass') => history = Wtc!Kept(log) /\ pass[p].loaded = history /\ lock = p
    BY <1>2, <1>b DEF WatchInv, LogLocked
  <1>9. Guarded(pass') => \A q \in Passes : ~Writing(pass'[q])
    <2>1. ASSUME Guarded(pass'), NEW q \in Passes \ {p} PROVE ~Writing(pass[q])
      BY <1>8, <1>b, <1>c, <2>1, StepsOfPasses DEF WatchInv, LogLocked
    <2> QED
      BY <1>4, <1>5, <1>8, <2>1
  <1>10. \/ /\ history' = Wtc!Kept(pass[p].loaded \o Wtc!Recorded(p)) /\ log' = log \o Wtc!Recorded(p)
            /\ apart' = apart
         \/ UNCHANGED <<history, log>> /\ apart' = FALSE
    BY DEF Wtc!Record
  <1>11. /\ Guarded(pass') => history' = Wtc!Kept(log')
         /\ history' \in Seq(HistoryEntry) /\ log' \in Seq(HistoryEntry)
    <2>1. CASE history' = Wtc!Kept(pass[p].loaded \o Wtc!Recorded(p)) /\ log' = log \o Wtc!Recorded(p)
      <3>1. Guarded(pass') => history' = Wtc!Kept(log')
        BY <1>0, <1>7, <1>c, <2>1, KeptOfKept
      <3>2. log' \in Seq(HistoryEntry) /\ pass[p].loaded \o Wtc!Recorded(p) \in Seq(HistoryEntry)
        BY <1>7, <2>1
      <3> QED
        BY <1>0, <2>1, <3>1, <3>2, KeptIsTheEnd
    <2>2. CASE UNCHANGED <<history, log>>
      BY <1>7, <1>c, <2>2 DEF Wtc!Kept
    <2> QED
      BY <1>10, <2>1, <2>2
  <1>12. LogLocked'
    <2>1. Guarded(pass') => history' = Wtc!Kept(log)'
      BY <1>11 DEF Wtc!Kept
    <2> QED
      BY <1>8, <1>9, <2>1, StepsAfter DEF LogLocked, Guarded
  <1>13. WatchTyped'
    <2>1. apart' \in BOOLEAN
      <3>1. CASE apart' = FALSE
        BY <3>1, Zenon
      <3>2. CASE apart' = apart
        BY <3>2 DEF WatchInv, WatchTyped
      <3> QED
        BY <1>10, <3>1, <3>2
    <2>2. lock' \in {"free"} \cup Passes
      BY <1>1 DEF WatchInv, WatchTyped
    <2> QED
      BY <1>1, <1>8, <1>11, <2>1, <2>2 DEF WatchInv, WatchTyped, WorldTyped
  <1>14. TrendFollows'
    <2>1. SUFFICES ASSUME apart' PROVE
            /\ \A q, w \in Passes : Going(pass'[q]) /\ Going(pass'[w]) => q = w
            /\ \A q \in Passes : ~Unrecorded(pass'[q])
            /\ Guarded(pass') => Trend(history', cache'["test"])
      BY <1>8, <2>1, StepsAfter DEF TrendFollows, Trend, Guarded, Unrecorded, Wtc!IsLastOutcome
    <2>2. /\ apart /\ (Guarded(pass') => history' = Wtc!Kept(history \o Wtc!Recorded(p)))
      BY <1>c, <1>10, <2>1
    <2>3. /\ \A q \in Passes \ {p} : ~Going(pass[q])
          /\ Unrecorded(pass[p]) => cache["test"] = pass[p].found["test"]
          /\ Guarded(pass) /\ (\A q \in Passes : ~Unrecorded(pass[q])) => Trend(history, cache["test"])
      <3>1. \A q, w \in Passes : Going(pass[q]) /\ Going(pass[w]) => q = w
        BY <1>8, <2>2, StepsOfPasses DEF WatchInv, TrendFollows
      <3> QED
        BY <1>5, <2>2, <3>1 DEF WatchInv, TrendFollows
    <2>4. \A q \in Passes \ {p} : ~Going(pass'[q]) /\ ~Unrecorded(pass'[q]) /\ ~Unrecorded(pass[q])
      <3>1. \A q \in Passes : Unrecorded(pass[q]) => Going(pass[q])
        BY DEF Unrecorded, Going
      <3> QED
        BY <1>8, <2>3, <3>1
    <2>5. Unrecorded(pass[p]) <=> pass[p].found["test"] # "none"
      BY <1>2 DEF Unrecorded
    <2>6. Guarded(pass') => IF pass[p].found["test"] # "none" THEN pass[p].found["test"] = cache["test"]
                            ELSE Trend(history, cache["test"])
      BY <1>b, <2>3, <2>4, <2>5
    <2>7. pass[p].found["test"] # "unknown"
      BY <1>2 DEF LooksIn
    <2>8. Guarded(pass') => Trend(history', cache["test"])
      BY <1>0, <1>a, <1>7, <2>2, <2>6, <2>7, TrendOfRecorded, TrendOfKept
    <2> QED
      BY <1>1, <1>4, <1>5, <2>4, <2>8
  <1> QED
    BY <1>6, <1>12, <1>13, <1>14 DEF WatchInv

\* A pass is killed at any of its steps.
LEMMA KilledKeeps ==
  ASSUME WatchInv, NEW p \in Passes, Wtc!Killed(p)
  PROVE  WatchInv'
  <1> DEFINE r == [Wtc!Idle EXCEPT !.kind = "killed", !.mishaps = pass[p].mishaps]
  <1>1. /\ UNCHANGED <<cache, stamp, history, log>> /\ UNCHANGED <<gate, tip, build, sup, turns, owns>>
        /\ pass' = [pass EXCEPT ![p] = r] /\ apart' = FALSE /\ lock' = IF lock = p THEN "free" ELSE lock
    BY DEF Wtc!Killed, Wtc!world
  <1>2. /\ r \in WatchPass /\ r.kind = "killed" /\ r.found["test"] = "none" /\ r.reusable = 0
        /\ r.mishaps = pass[p].mishaps
    <2>1. <<>> \in Seq(HistoryEntry) /\ Wtc!Nothing \in [Wtc!Tasks -> Wtc!Statuses] /\ Wtc!Nothing["test"] = "none"
      BY DEF Wtc!Nothing, Wtc!Statuses, Wtc!Tasks
    <2>2. Wtc!Idle \in WatchPass /\ Wtc!Idle.found = Wtc!Nothing /\ Wtc!Idle.reusable = 0
      BY <2>1 DEF Wtc!Idle, WatchPass
    <2>3. pass[p].mishaps \in SUBSET Wtc!Mishaps
      BY DEF WatchInv, WatchTyped, WatchPass
    <2> QED
      BY <2>1, <2>2, <2>3 DEF WatchPass
  <1> HIDE DEF r
  <1>3. Beside(p, {}) /\ pass'[p] = r
    BY <1>1, <1>2, Moves DEF WatchInv
  <1>4. LooksIn(r) /\ ~Going(r) /\ ~Done(r) /\ ~Writing(r)
    BY <1>2 DEF LooksIn, Going, Done, Writing
  <1>5. PassesTell'
    BY <1>1, <1>3, <1>4, OthersTell DEF WatchInv
  <1>6. pass \in [Passes -> WatchPass] /\ pass' \in [Passes -> WatchPass] /\ \A q \in Passes \ {p} : pass'[q] = pass[q]
    BY <1>1, <1>3 DEF WatchInv, WatchTyped, Beside
  <1>7. LogLocked'
    <2>0. Guarded(pass') => Guarded(pass)
      BY <1>3, <1>6, GuardedBefore
    <2>1. Guarded(pass') => \A q \in Passes : Writing(pass'[q]) => lock' = q /\ pass'[q].loaded = history'
      <3>1. ASSUME NEW q \in Passes, Writing(pass'[q]), Guarded(pass') PROVE lock' = q /\ pass'[q].loaded = history'
        <4>1. q # p /\ pass'[q] = pass[q]
          BY <1>3, <1>4, <1>6, <3>1
        <4>2. lock = q /\ pass[q].loaded = history
          BY <1>6, <2>0, <3>1, <4>1, StepsOfPasses DEF WatchInv, LogLocked
        <4> QED
          BY <1>1, <4>1, <4>2
      <3> QED
        BY <3>1
    <2>2. Guarded(pass') => history' = Wtc!Kept(log)'
      BY <1>1, <2>0 DEF WatchInv, LogLocked, Wtc!Kept
    <2> QED
      BY <1>6, <2>1, <2>2, StepsAfter DEF LogLocked, Guarded
  <1>8. WatchTyped'
    <2>1. apart' \in BOOLEAN
      BY <1>1, Zenon
    <2>2. lock' \in {"free"} \cup Passes
      BY <1>1 DEF WatchInv, WatchTyped
    <2> QED
      BY <1>1, <1>6, <2>1, <2>2 DEF WatchInv, WatchTyped, WorldTyped
  <1>9. TrendFollows'
    BY <1>1 DEF TrendFollows
  <1> QED
    BY <1>5, <1>7, <1>8, <1>9 DEF WatchInv

\* The project changes, and no pass.
LEMMA ShiftKeeps ==
  ASSUME WatchInv, Wtc!Shift
  PROVE  WatchInv'
  <1>1. /\ UNCHANGED <<owns, cache, stamp, history, lock, pass, log, apart>>
        /\ turns < MaxTurns /\ turns' = turns + 1
        /\ \/ /\ tip' = tip + 1 /\ UNCHANGED <<build, sup>>
              /\ \E v \in {"pass", "fail"} : gate' = [gate EXCEPT ![tip'] = v]
           \/ build' \in {"pass", "fail"} \ {build} /\ UNCHANGED <<gate, tip, sup>>
           \/ UNCHANGED <<gate, tip, build>>
    BY DEF Wtc!Shift
  <1>2. WorldTyped'
    <2>1. MaxTurns \in Nat /\ turns \in 0..MaxTurns /\ tip \in 1..turns + 1
      BY JudgementsAssumption DEF JudgementsAssumption, Wtc!WatchAssumption, WatchInv, WatchTyped, WorldTyped
    <2>2. turns' \in 0..MaxTurns /\ tip' \in 1..turns' + 1
      BY <1>1, <2>1
    <2>3. gate' \in [1..MaxTurns + 1 -> {"pass", "fail"}] /\ build' \in {"pass", "fail"}
      BY <1>1 DEF WatchInv, WatchTyped, WorldTyped
    <2> QED
      BY <1>1, <2>2, <2>3 DEF WatchInv, WatchTyped, WorldTyped
  <1>3. WatchTyped'
    BY <1>1, <1>2 DEF WatchInv, WatchTyped
  <1>4. pass \in [Passes -> WatchPass] /\ pass' \in [Passes -> WatchPass]
    BY <1>1 DEF WatchInv, WatchTyped
  <1>5. PassesTell'
    BY <1>1 DEF WatchInv, PassesTell, LooksIn, FindsLast, Alerted, Wtc!Active, Wtc!Finished
  <1>6. LogLocked'
    BY <1>1 DEF WatchInv, LogLocked, Guarded, Wtc!Kept, Wtc!At
  <1>7. TrendFollows'
    BY <1>1 DEF WatchInv, TrendFollows, Trend, Guarded, Unrecorded, Wtc!IsLastOutcome, Wtc!Active, Wtc!Finished
  <1> QED
    BY <1>3, <1>5, <1>6, <1>7 DEF WatchInv

\* At the start no pass was begun and nothing recorded.
LEMMA WatchInit == Wtc!Init => WatchInv
  <1> SUFFICES ASSUME Wtc!Init PROVE WatchInv
    OBVIOUS
  <1>0. MaxEntries \in Nat \ {0} /\ MaxTurns \in Nat
    BY JudgementsAssumption DEF JudgementsAssumption, Wtc!WatchAssumption
  <1>1. <<>> \in Seq(HistoryEntry) /\ Wtc!Nothing \in [Wtc!Tasks -> Wtc!Statuses]
    BY DEF Wtc!Nothing, Wtc!Statuses
  <1>2. Wtc!Idle \in WatchPass /\ Wtc!Idle.kind = "idle" /\ Wtc!Idle.found = Wtc!Nothing /\ Wtc!Idle.reusable = 0
        /\ Wtc!Idle.mishaps = {}
    BY <1>1 DEF Wtc!Idle, WatchPass
  <1>3. pass \in [Passes -> WatchPass] /\ \A p \in Passes : pass[p] = Wtc!Idle
    BY <1>2 DEF Wtc!Init
  <1>4. WatchTyped
    <2>1. cache \in [Wtc!Tasks -> Wtc!Statuses]
      <3>1. (IF owns THEN "fail" ELSE "none") \in Wtc!Statuses
        BY DEF Wtc!Statuses
      <3>2. cache = [Wtc!Nothing EXCEPT !["process"] = IF owns THEN "fail" ELSE "none"]
        BY DEF Wtc!Init
      <3> HIDE DEF Wtc!Nothing
      <3> QED
        BY <1>1, <3>1, <3>2
    <2>2. turns \in 0..MaxTurns /\ tip \in 1..turns + 1
      BY <1>0 DEF Wtc!Init
    <2>3. apart \in BOOLEAN
      BY Zenon DEF Wtc!Init
    <2> QED
      BY <1>1, <1>3, <2>1, <2>2, <2>3 DEF Wtc!Init, WatchTyped, WorldTyped
  <1>5. \A p \in Passes : ~Going(pass[p]) /\ ~Done(pass[p]) /\ ~Writing(pass[p]) /\ ~Unrecorded(pass[p]) /\ LooksIn(pass[p])
    <2>1. Wtc!Nothing["test"] = "none" /\ Wtc!Nothing["ci"] = "none"
      BY DEF Wtc!Nothing, Wtc!Tasks
    <2> QED
      BY <1>2, <1>3, <2>1 DEF Going, Done, Writing, Unrecorded, LooksIn
  <1>6. history = <<>> /\ log = <<>>
    BY DEF Wtc!Init
  <1>7. Wtc!Kept(<<>>) = <<>>
    <2>1. Wtc!Kept(<<>>) \in Seq(HistoryEntry) /\ Len(Wtc!Kept(<<>>)) = IF Len(<<>>) > MaxEntries THEN MaxEntries ELSE Len(<<>>)
      BY <1>0, <1>1, KeptIsTheEnd
    <2>2. Len(Wtc!Kept(<<>>)) = 0
      BY <1>0, <2>1
    <2> QED
      BY <2>1, <2>2
  <1>8. PassesTell /\ LogLocked
    BY <1>3, <1>5, <1>6, <1>7, StepsOfPasses DEF PassesTell, LogLocked
  <1>9. TrendFollows
    <2>1. Trend(history, cache["test"])
      BY <1>6 DEF Trend
    <2> QED
      BY <1>3, <1>5, <2>1, StepsOfPasses DEF TrendFollows
  <1> QED
    BY <1>4, <1>8, <1>9 DEF WatchInv

LEMMA WatchStep ==
  ASSUME WatchInv, [Wtc!Next]_(Wtc!vars)
  PROVE  WatchInv'
  <1>1. ASSUME NEW p \in Passes, NEW kind \in DOMAIN Wtc!Steps, Wtc!Begin(p, kind) PROVE WatchInv'
    BY <1>1, BeginKeeps
  <1>2. ASSUME NEW p \in Passes, Wtc!Gates(p) PROVE WatchInv'
    BY <1>2, GatesKeep
  <1>3. ASSUME NEW p \in Passes, Wtc!ProbeCi(p) PROVE WatchInv'
    BY <1>3, ProbeCiKeeps
  <1>4. ASSUME NEW p \in Passes, Wtc!Liveness(p) PROVE WatchInv'
    BY <1>4, LivenessKeeps
  <1>5. ASSUME NEW p \in Passes, Wtc!Save(p) PROVE WatchInv'
    BY <1>5, SaveKeeps
  <1>6. ASSUME NEW p \in Passes, Wtc!Load(p) PROVE WatchInv'
    BY <1>6, LoadKeeps
  <1>7. ASSUME NEW p \in Passes, Wtc!RecordNothing(p) PROVE WatchInv'
    BY <1>7, RecordNothingKeeps
  <1>8. ASSUME NEW p \in Passes, Wtc!Record(p) PROVE WatchInv'
    BY <1>8, RecordKeeps
  <1>9. ASSUME NEW p \in Passes, Wtc!Alerts(p) PROVE WatchInv'
    BY <1>9, AlertsKeep
  <1>10. ASSUME NEW p \in Passes, Wtc!Killed(p) PROVE WatchInv'
    BY <1>10, KilledKeeps
  <1>11. CASE Wtc!Shift
    BY <1>11, ShiftKeeps
  <1>12. CASE UNCHANGED Wtc!vars
    <2>1. UNCHANGED <<gate, tip, build, sup, turns, owns, cache, stamp, history, lock, pass, log, apart>>
      BY <1>12 DEF Wtc!vars, Wtc!world
    <2>2. WatchTyped'
      BY <2>1 DEF WatchInv, WatchTyped, WorldTyped
    <2>3. PassesTell'
      BY <2>1 DEF WatchInv, PassesTell, LooksIn, FindsLast, Alerted, Wtc!Active, Wtc!Finished
    <2>4. LogLocked'
      BY <2>1 DEF WatchInv, LogLocked, Guarded, Wtc!Kept, Wtc!At
    <2>5. TrendFollows'
      BY <2>1 DEF WatchInv, TrendFollows, Trend, Guarded, Unrecorded, Wtc!IsLastOutcome, Wtc!Active, Wtc!Finished
    <2> QED
      BY <2>2, <2>3, <2>4, <2>5 DEF WatchInv
  <1> QED
    BY <1>1, <1>2, <1>3, <1>4, <1>5, <1>6, <1>7, <1>8, <1>9, <1>10, <1>11, <1>12 DEF Wtc!Next

\* What the last of the passes leaves is what they found and recorded.
LEMMA WatchTells == WatchInv => Wtc!RedIsAlerted /\ Wtc!HistoryIsWhole
  <1> SUFFICES ASSUME WatchInv PROVE Wtc!RedIsAlerted /\ Wtc!HistoryIsWhole
    OBVIOUS
  <1>1. Wtc!RedIsAlerted
    BY DEF WatchInv, PassesTell, Alerted, Wtc!RedIsAlerted
  <1>2. Guarded(pass) /\ apart /\ (\A p \in Passes : ~Wtc!Active(p)) => Trend(history, cache["test"])
    <2>1. pass \in [Passes -> WatchPass]
      BY DEF WatchInv, WatchTyped
    <2>2. \A p \in Passes : Unrecorded(pass[p]) => Wtc!Active(p)
      BY <2>1, StepsOfPasses DEF Unrecorded, Going
    <2> QED
      BY <2>2 DEF WatchInv, TrendFollows
  <1>3. Wtc!HistoryIsWhole
    BY <1>2 DEF WatchInv, LogLocked, Guarded, Trend, Wtc!HistoryIsWhole
  <1> QED
    BY <1>1, <1>3

-----------------------------------------------------------------------------
(* The watch and its heartbeat among the questions: a step is a step of    *)
(* the module asked, or leaves its state alone.                            *)

WatchedInv == /\ question = "heartbeat" => HeartbeatInv
              /\ question = "watch"     => WatchInv

\* JudgeInit: the module asked starts in its own initial states.
LEMMA WatchedInit == JudgeInit => WatchedInv
  <1>1. JudgeInit /\ question = "heartbeat" => HeartbeatInv
    BY HeartbeatInit, JudgementsAssumption DEF JudgeInit, JudgementsAssumption
  <1>2. JudgeInit /\ question = "watch" => WatchInv
    BY WatchInit DEF JudgeInit
  <1> QED
    BY <1>1, <1>2 DEF WatchedInv

\* A step of either keeps its invariant.
LEMMA WatchedStep == WatchedInv /\ [JudgeNext]_judgedVars => WatchedInv'
  <1> SUFFICES ASSUME WatchedInv, [JudgeNext]_judgedVars PROVE WatchedInv'
    OBVIOUS
  <1>1. /\ question' = question
        /\ question = "heartbeat" => [Hrt!Next]_(Hrt!vars)
        /\ question = "watch"     => [Wtc!Next]_(Wtc!vars)
    <2>1. CASE JudgeNext
      BY <2>1 DEF JudgeNext
    <2>2. CASE UNCHANGED judgedVars
      BY <2>2 DEF judgedVars, hrtVars, wtcVars, Hrt!vars, Wtc!vars, Wtc!world
    <2> QED
      BY <2>1, <2>2
  <1>2. question = "heartbeat" => HeartbeatInv'
    BY <1>1, HeartbeatStep, JudgementsAssumption DEF WatchedInv, JudgementsAssumption
  <1>3. question = "watch" => WatchInv'
    BY <1>1, WatchStep DEF WatchedInv
  <1> QED
    BY <1>1, <1>2, <1>3 DEF WatchedInv

\* Every reachable state of the watch and of its heartbeat satisfies its invariant.
THEOREM WatchedInvariance == JudgeSpec => []WatchedInv
  BY WatchedInit, WatchedStep, PTL DEF JudgeSpec


\* watchdog.py: a watch that has stopped recording is told of once its record is old enough,
\* and one that runs on time never is, for every interval.
THEOREM SilenceIsToldHolds == JudgeSpec => []SilenceIsTold
  <1>1. WatchedInv => SilenceIsTold
    BY HeartbeatTells, JudgementsAssumption DEF WatchedInv, JudgementsAssumption, SilenceIsTold
  <1> QED
    BY <1>1, WatchedInvariance, PTL

\* _cmd_watch and history.py: the alerts of a pass are what it found failing or what another
\* pass wrote since, and the history is the end of all that was recorded, for any number of
\* concurrent passes and of entries kept.
THEOREM WatchIsTrueHolds == JudgeSpec => []WatchIsTrue
  <1>1. WatchedInv => WatchIsTrue
    BY WatchTells DEF WatchedInv, WatchIsTrue
  <1> QED
    BY <1>1, WatchedInvariance, PTL
=============================================================================
