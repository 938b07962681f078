--------------------------- MODULE AgentRunsProofs ---------------------------
(***************************************************************************)
(* Theorems about AgentRuns, for any runs, operators and fault budget.     *)
(***************************************************************************)
EXTENDS AgentRuns, TLAPS

\* What a snapshot or a record says about a PR is true.
Backed(r, rec) == IsRecord(rec) /\ (rec.state = "pr-opened" \/ rec.pr) => prOpen[r]

\* Nobody writes r's record before its launcher saved it.
Unstarted ==
  \A r \in Runs : lpc[r] \in {"idle", "save"} =>
    /\ disk[r] = NoRecord
    /\ wpc[r] = "none"
    /\ \A o \in Operators : opc[o] # "idle" => otgt[o] # r

\* A finish or a mark under way read a record that was not settled.
OpenSnapshots ==
  /\ \A r \in Runs :
       /\ lpc[r] \in {"markWrite", "failWrite"} => ~IsTerminal(lbase[r])
       /\ wpc[r] = "finishWrite" => ~IsTerminal(wbase[r])
  /\ \A o \in Operators : opc[o] = "finishWrite" => ~IsTerminal(obase[o])

\* Every copy of a record that may still be written back is backed by a PR.
CopiesBacked ==
  /\ \A r \in Runs :
       /\ Backed(r, disk[r]) /\ Backed(r, lbase[r])
       /\ Backed(r, wbase[r]) /\ Backed(r, whand[r])
  /\ \A o \in Operators :
       /\ opc[o] \in {"kill", "finish", "finishWrite"} => Backed(otgt[o], ohand[o])
       /\ opc[o] = "finishWrite" => Backed(otgt[o], obase[o])

\* The wrapper settles as pr-opened, or removes the tree, only with a PR open.
LandingOrder ==
  \A r \in Runs :
    /\ wpc[r] \in {"finish", "finishWrite"} => wwant[r] # "land"
    /\ wwant[r] = "pr-opened" \/ wpc[r] = "cleanup" => prOpen[r]
    /\ lpc[r] \in {"save", "spawn"} => tree[r] /\ wpc[r] = "none"
    /\ wpc[r] # "none" => tree[r] \/ prOpen[r]

IInv == TypeOK /\ Unstarted /\ OpenSnapshots /\ CopiesBacked /\ LandingOrder

-----------------------------------------------------------------------------
(* The updates. *)

\* The snapshot, or the caller's copy when there is none, is a record.
LEMMA RebaseType ==
  ASSUME NEW base \in MaybeRun, NEW hand \in AgentRun
  PROVE  Rebase(base, hand) \in AgentRun
  BY DEF MaybeRun, Rebase, IsRecord

\* An update of a record, or of the caller's copy, is a record.
LEMMA UpdateTypes ==
  ASSUME NEW base \in MaybeRun, NEW hand \in AgentRun
  PROVE  /\ Marked(base, hand) \in AgentRun
         /\ Priced(base, hand) \in AgentRun
         /\ \A state \in TERMINAL : Settled(base, hand, state) \in AgentRun
  BY RebaseType DEF AgentRun, States, Marked, Priced, Settled

\* What each update changes, field by field.
LEMMA UpdateFields ==
  ASSUME NEW base \in MaybeRun, NEW hand \in AgentRun
  PROVE  /\ Marked(base, hand).state = "running"
         /\ Marked(base, hand).pr <=> Rebase(base, hand).pr
         /\ Marked(base, hand).cost <=> Rebase(base, hand).cost
         /\ Priced(base, hand).state = Rebase(base, hand).state
         /\ Priced(base, hand).pr <=> Rebase(base, hand).pr
         /\ Priced(base, hand).cost = TRUE
  BY RebaseType DEF AgentRun, Marked, Priced

\* What settling changes; pr-opened is recorded only when it was asked for.
LEMMA SettledFields ==
  ASSUME NEW base \in MaybeRun, NEW hand \in AgentRun, NEW state
  PROVE  /\ Settled(base, hand, state).state \in TERMINAL
         /\ Settled(base, hand, state).state = "pr-opened" => state = "pr-opened"
         /\ Settled(base, hand, state).pr <=> (state = "pr-opened" \/ hand.pr)
         /\ Settled(base, hand, state).cost <=> Rebase(base, hand).cost
  BY RebaseType DEF AgentRun, Settled, TERMINAL

\* A record is not the value that stands for a missing one.
LEMMA RecordIsRecord == \A rec \in AgentRun : IsRecord(rec)
  BY NoRecordAssumption DEF IsRecord

\* A fresh record is one, not settled, and claims nothing.
LEMMA QueuedRun ==
  /\ Queued \in AgentRun
  /\ Queued.state = "queued" /\ Queued.pr = FALSE /\ Queued.cost = FALSE
  /\ ~IsTerminal(Queued)
  BY DEF Queued, AgentRun, States, IsTerminal, TERMINAL

\* A save replaces one record or nothing, and keeps the types.
LEMMA SaveEffect ==
  ASSUME TypeOK, NEW r \in Runs, NEW rec \in AgentRun, Save(r, rec)
  PROVE  /\ disk' \in [Runs -> MaybeRun]
         /\ faults' \in 0..MaxFaults
         /\ \A q \in Runs : disk'[q] = disk[q] \/ (q = r /\ disk'[q] = rec)
<1>1. CASE disk' = [disk EXCEPT ![r] = rec] /\ UNCHANGED faults
  BY <1>1 DEF TypeOK, MaybeRun
<1>2. CASE faults < MaxFaults /\ faults' = faults + 1 /\ UNCHANGED disk
  BY <1>2, FaultAssumption DEF TypeOK
<1> QED
  BY <1>1, <1>2 DEF Save

\* An update keeps what the record says about a PR true.
LEMMA UpdateBacked ==
  ASSUME NEW r \in Runs, NEW base \in MaybeRun, NEW hand \in AgentRun,
         Backed(r, base), Backed(r, hand)
  PROVE  Backed(r, Marked(base, hand)) /\ Backed(r, Priced(base, hand))
<1>1. Backed(r, Rebase(base, hand)) /\ IsRecord(Rebase(base, hand))
  BY RecordIsRecord, RebaseType DEF Rebase
<1> QED
  BY <1>1, UpdateFields DEF Backed

\* Settling keeps it true when pr-opened is only recorded for an open PR.
LEMMA SettledBacked ==
  ASSUME NEW r \in Runs, NEW base \in MaybeRun, NEW hand \in AgentRun,
         NEW state, Backed(r, hand), state = "pr-opened" => prOpen[r]
  PROVE  Backed(r, Settled(base, hand, state))
<1>1. IsRecord(hand)
  BY RecordIsRecord
<1>2. CASE prOpen[r]
  BY <1>2 DEF Backed
<1>3. CASE state # "pr-opened" /\ ~hand.pr
  BY <1>3, SettledFields DEF Backed
<1> QED
  BY <1>1, <1>2, <1>3 DEF Backed

\* A fresh record claims no PR.
LEMMA QueuedBacked == \A r \in Runs : Backed(r, Queued)
  BY QueuedRun DEF Backed

-----------------------------------------------------------------------------

\* Nothing has been launched: the invariant holds.
LEMMA InitInv == Init => IInv
<1> SUFFICES ASSUME Init PROVE IInv
  OBVIOUS
<1>1. TypeOK
  BY QueuedRun, FaultAssumption
     DEF Init, TypeOK, MaybeRun, LauncherSteps, WrapperSteps, OperatorSteps
<1>2. Unstarted /\ OpenSnapshots /\ LandingOrder
  BY DEF Init, Unstarted, OpenSnapshots, LandingOrder, IsTerminal, IsRecord
<1>3. CopiesBacked
  BY QueuedRun DEF Init, CopiesBacked, Backed, IsRecord
<1> QED
  BY <1>1, <1>2, <1>3 DEF IInv

\* Every step of a launcher preserves the invariant.
LEMMA LauncherInv ==
  ASSUME IInv, NEW r \in Runs, LauncherStep(r) \/ LauncherDies(r) \/ ParentPoll(r)
  PROVE  IInv'
<1> USE DEF IInv
<1>1. CASE LaunchPrepare(r)
  <2>1. tree' \in [Runs -> BOOLEAN]
    BY <1>1 DEF LaunchPrepare, TypeOK
  <2>2. TypeOK'
    BY <1>1, <2>1
       DEF LaunchPrepare, LauncherTo, lvars, wvars, ovars, world, TypeOK,
           LauncherSteps, WrapperSteps, OperatorSteps
  <2>3. Unstarted'
    BY <1>1
       DEF LaunchPrepare, LauncherTo, lvars, wvars, ovars, world, TypeOK, Unstarted
  <2>4. OpenSnapshots'
    BY <1>1
       DEF LaunchPrepare, LauncherTo, lvars, wvars, ovars, world, TypeOK,
           OpenSnapshots
  <2>5. CopiesBacked'
    BY <1>1
       DEF LaunchPrepare, LauncherTo, lvars, wvars, ovars, world, TypeOK,
           CopiesBacked, Backed
  <2>6. LandingOrder'
    BY <1>1, <2>1
       DEF LaunchPrepare, LauncherTo, lvars, wvars, ovars, world, TypeOK,
           LandingOrder, Unstarted
  <2> QED
    BY <2>2, <2>3, <2>4, <2>5, <2>6
<1>2. CASE LaunchSave(r)
  <2>1. Queued \in AgentRun
    BY <1>2, UpdateTypes, QueuedRun DEF TypeOK
  <2>2. /\ disk' \in [Runs -> MaybeRun] /\ faults' \in 0..MaxFaults
        /\ \A q \in Runs : disk'[q] = disk[q] \/ (q = r /\ disk'[q] = Queued)
    BY <1>2, <2>1, SaveEffect DEF LaunchSave
  <2>3. Backed(r, Queued)
    BY <1>2, UpdateBacked, SettledBacked, QueuedRun, QueuedBacked
       DEF LaunchSave, TypeOK, CopiesBacked, LandingOrder
  <2>4. TypeOK'
    BY <1>2, <2>2
       DEF LaunchSave, LauncherTo, lvars, wvars, ovars, world, TypeOK,
           LauncherSteps, WrapperSteps, OperatorSteps
  <2>5. Unstarted'
    BY <1>2, <2>2
       DEF LaunchSave, LauncherTo, lvars, wvars, ovars, world, TypeOK, Unstarted
  <2>6. OpenSnapshots'
    BY <1>2, <2>2
       DEF LaunchSave, LauncherTo, lvars, wvars, ovars, world, TypeOK, OpenSnapshots
  <2>7. CopiesBacked'
    BY <1>2, <2>2, <2>3
       DEF LaunchSave, LauncherTo, lvars, wvars, ovars, world, TypeOK, CopiesBacked,
           Backed
  <2>8. LandingOrder'
    BY <1>2, <2>2
       DEF LaunchSave, LauncherTo, lvars, wvars, ovars, world, TypeOK, LandingOrder
  <2> QED
    BY <2>4, <2>5, <2>6, <2>7, <2>8
<1>3. CASE LaunchSpawn(r)
  <2>1. TypeOK'
    BY <1>3
       DEF LaunchSpawn, LauncherTo, lvars, wvars, ovars, world, TypeOK,
           LauncherSteps, WrapperSteps, OperatorSteps
  <2>2. Unstarted'
    BY <1>3
       DEF LaunchSpawn, LauncherTo, lvars, wvars, ovars, world, TypeOK, Unstarted
  <2>3. OpenSnapshots'
    BY <1>3
       DEF LaunchSpawn, LauncherTo, lvars, wvars, ovars, world, TypeOK,
           OpenSnapshots
  <2>4. CopiesBacked'
    BY <1>3
       DEF LaunchSpawn, LauncherTo, lvars, wvars, ovars, world, TypeOK,
           CopiesBacked, Backed
  <2>5. LandingOrder'
    BY <1>3
       DEF LaunchSpawn, LauncherTo, lvars, wvars, ovars, world, TypeOK, LandingOrder
  <2> QED
    BY <2>1, <2>2, <2>3, <2>4, <2>5
<1>4. CASE MarkRead(r)
  <2>1. TypeOK'
    BY <1>4
       DEF MarkRead, LauncherTo, MayMark, lvars, wvars, ovars, world, TypeOK,
           LauncherSteps, WrapperSteps, OperatorSteps
  <2>2. Unstarted'
    BY <1>4
       DEF MarkRead, LauncherTo, MayMark, lvars, wvars, ovars, world, TypeOK,
           Unstarted
  <2>3. OpenSnapshots'
    BY <1>4
       DEF MarkRead, LauncherTo, MayMark, lvars, wvars, ovars, world, TypeOK,
           OpenSnapshots
  <2>4. CopiesBacked'
    BY <1>4
       DEF MarkRead, LauncherTo, MayMark, lvars, wvars, ovars, world, TypeOK,
           CopiesBacked, Backed
  <2>5. LandingOrder'
    BY <1>4
       DEF MarkRead, LauncherTo, MayMark, lvars, wvars, ovars, world, TypeOK,
           LandingOrder
  <2> QED
    BY <2>1, <2>2, <2>3, <2>4, <2>5
<1>5. CASE MarkWrite(r)
  <2>1. Marked(lbase[r], Queued) \in AgentRun
    BY <1>5, UpdateTypes, QueuedRun DEF TypeOK
  <2>2. /\ disk' \in [Runs -> MaybeRun] /\ faults' \in 0..MaxFaults
        /\ \A q \in Runs : disk'[q] = disk[q] \/ (q = r /\ disk'[q] = Marked(lbase[r], Queued))
    BY <1>5, <2>1, SaveEffect DEF MarkWrite
  <2>3. Backed(r, Marked(lbase[r], Queued))
    BY <1>5, UpdateBacked, SettledBacked, QueuedRun, QueuedBacked
       DEF MarkWrite, TypeOK, CopiesBacked, LandingOrder
  <2>4. TypeOK'
    BY <1>5, <2>2
       DEF MarkWrite, LauncherTo, lvars, wvars, ovars, world, TypeOK, LauncherSteps,
           WrapperSteps, OperatorSteps
  <2>5. Unstarted'
    BY <1>5, <2>2
       DEF MarkWrite, LauncherTo, lvars, wvars, ovars, world, TypeOK, Unstarted
  <2>6. OpenSnapshots'
    BY <1>5, <2>2
       DEF MarkWrite, LauncherTo, lvars, wvars, ovars, world, TypeOK, OpenSnapshots
  <2>7. CopiesBacked'
    BY <1>5, <2>2, <2>3
       DEF MarkWrite, LauncherTo, lvars, wvars, ovars, world, TypeOK, CopiesBacked,
           Backed
  <2>8. LandingOrder'
    BY <1>5, <2>2
       DEF MarkWrite, LauncherTo, lvars, wvars, ovars, world, TypeOK, LandingOrder
  <2> QED
    BY <2>4, <2>5, <2>6, <2>7, <2>8
<1>6. CASE LaunchFailRead(r)
  <2>1. TypeOK'
    BY <1>6
       DEF LaunchFailRead, LauncherTo, MayFinish, lvars, wvars, ovars, world,
           TypeOK, LauncherSteps, WrapperSteps, OperatorSteps
  <2>2. Unstarted'
    BY <1>6
       DEF LaunchFailRead, LauncherTo, MayFinish, lvars, wvars, ovars, world,
           TypeOK, Unstarted
  <2>3. OpenSnapshots'
    BY <1>6
       DEF LaunchFailRead, LauncherTo, MayFinish, lvars, wvars, ovars, world,
           TypeOK, OpenSnapshots
  <2>4. CopiesBacked'
    BY <1>6
       DEF LaunchFailRead, LauncherTo, MayFinish, lvars, wvars, ovars, world,
           TypeOK, CopiesBacked, Backed
  <2>5. LandingOrder'
    BY <1>6
       DEF LaunchFailRead, LauncherTo, MayFinish, lvars, wvars, ovars, world,
           TypeOK, LandingOrder
  <2> QED
    BY <2>1, <2>2, <2>3, <2>4, <2>5
<1>7. CASE LaunchFailWrite(r)
  <2>1. Settled(lbase[r], Queued, "failed") \in AgentRun
    BY <1>7, UpdateTypes, QueuedRun DEF TypeOK, TERMINAL
  <2>2. /\ disk' \in [Runs -> MaybeRun] /\ faults' \in 0..MaxFaults
        /\ \A q \in Runs : disk'[q] = disk[q] \/ (q = r /\ disk'[q] = Settled(lbase[r], Queued, "failed"))
    BY <1>7, <2>1, SaveEffect DEF LaunchFailWrite
  <2>3. Backed(r, Settled(lbase[r], Queued, "failed"))
    BY <1>7, UpdateBacked, SettledBacked, QueuedRun, QueuedBacked
       DEF LaunchFailWrite, TypeOK, CopiesBacked, LandingOrder, TERMINAL
  <2>4. TypeOK'
    BY <1>7, <2>2
       DEF LaunchFailWrite, LauncherTo, lvars, wvars, ovars, world, TypeOK,
           LauncherSteps, WrapperSteps, OperatorSteps
  <2>5. Unstarted'
    BY <1>7, <2>2
       DEF LaunchFailWrite, LauncherTo, lvars, wvars, ovars, world, TypeOK,
           Unstarted
  <2>6. OpenSnapshots'
    BY <1>7, <2>2
       DEF LaunchFailWrite, LauncherTo, lvars, wvars, ovars, world, TypeOK,
           OpenSnapshots
  <2>7. CopiesBacked'
    BY <1>7, <2>2, <2>3
       DEF LaunchFailWrite, LauncherTo, lvars, wvars, ovars, world, TypeOK,
           CopiesBacked, Backed
  <2>8. LandingOrder'
    BY <1>7, <2>2
       DEF LaunchFailWrite, LauncherTo, lvars, wvars, ovars, world, TypeOK,
           LandingOrder
  <2> QED
    BY <2>4, <2>5, <2>6, <2>7, <2>8
<1>8. CASE LauncherExit(r)
  <2>1. TypeOK'
    BY <1>8
       DEF LauncherExit, LauncherTo, lvars, wvars, ovars, world, TypeOK,
           LauncherSteps, WrapperSteps, OperatorSteps
  <2>2. Unstarted'
    BY <1>8
       DEF LauncherExit, LauncherTo, lvars, wvars, ovars, world, TypeOK, Unstarted
  <2>3. OpenSnapshots'
    BY <1>8
       DEF LauncherExit, LauncherTo, lvars, wvars, ovars, world, TypeOK,
           OpenSnapshots
  <2>4. CopiesBacked'
    BY <1>8
       DEF LauncherExit, LauncherTo, lvars, wvars, ovars, world, TypeOK,
           CopiesBacked, Backed
  <2>5. LandingOrder'
    BY <1>8
       DEF LauncherExit, LauncherTo, lvars, wvars, ovars, world, TypeOK,
           LandingOrder
  <2> QED
    BY <2>1, <2>2, <2>3, <2>4, <2>5
<1>9. CASE LauncherDies(r)
  <2>1. TypeOK'
    BY <1>9
       DEF LauncherDies, LauncherTo, lvars, wvars, ovars, world, TypeOK,
           LauncherSteps, WrapperSteps, OperatorSteps
  <2>2. Unstarted'
    BY <1>9
       DEF LauncherDies, LauncherTo, lvars, wvars, ovars, world, TypeOK, Unstarted
  <2>3. OpenSnapshots'
    BY <1>9
       DEF LauncherDies, LauncherTo, lvars, wvars, ovars, world, TypeOK,
           OpenSnapshots
  <2>4. CopiesBacked'
    BY <1>9
       DEF LauncherDies, LauncherTo, lvars, wvars, ovars, world, TypeOK,
           CopiesBacked, Backed
  <2>5. LandingOrder'
    BY <1>9
       DEF LauncherDies, LauncherTo, lvars, wvars, ovars, world, TypeOK,
           LandingOrder
  <2> QED
    BY <2>1, <2>2, <2>3, <2>4, <2>5
<1>10. CASE ParentPoll(r)
  <2>1. TypeOK'
    BY <1>10
       DEF ParentPoll, LauncherTo, lvars, wvars, ovars, world, TypeOK,
           LauncherSteps, WrapperSteps, OperatorSteps
  <2>2. Unstarted'
    BY <1>10
       DEF ParentPoll, LauncherTo, lvars, wvars, ovars, world, TypeOK, Unstarted
  <2>3. OpenSnapshots'
    BY <1>10
       DEF ParentPoll, LauncherTo, lvars, wvars, ovars, world, TypeOK, OpenSnapshots
  <2>4. CopiesBacked'
    BY <1>10
       DEF ParentPoll, LauncherTo, lvars, wvars, ovars, world, TypeOK, CopiesBacked,
           Backed
  <2>5. LandingOrder'
    BY <1>10
       DEF ParentPoll, LauncherTo, lvars, wvars, ovars, world, TypeOK, LandingOrder
  <2> QED
    BY <2>1, <2>2, <2>3, <2>4, <2>5
<1> QED
  BY <1>1, <1>2, <1>3, <1>4, <1>5, <1>6, <1>7, <1>8, <1>9, <1>10 DEF LauncherStep

\* Every step of a wrapper preserves the invariant.
LEMMA WrapperInv ==
  ASSUME IInv, NEW r \in Runs, WrapperStep(r) \/ WrapperCrash(r)
  PROVE  IInv'
<1> USE DEF IInv
<1>1. CASE WrapperLoad(r)
  <2>1. TypeOK'
    BY <1>1
       DEF WrapperLoad, WrapperTo, Want, WrapperKeeps, IsTerminal, lvars, wvars,
           ovars, world, TypeOK, LauncherSteps, WrapperSteps, OperatorSteps,
           MaybeRun, IsRecord
  <2>2. Unstarted'
    BY <1>1
       DEF WrapperLoad, WrapperTo, Want, WrapperKeeps, IsTerminal, lvars, wvars,
           ovars, world, TypeOK, Unstarted
  <2>3. OpenSnapshots'
    BY <1>1
       DEF WrapperLoad, WrapperTo, Want, WrapperKeeps, IsTerminal, lvars, wvars,
           ovars, world, TypeOK, OpenSnapshots
  <2>4. CopiesBacked'
    BY <1>1
       DEF WrapperLoad, WrapperTo, Want, WrapperKeeps, IsTerminal, lvars, wvars,
           ovars, world, TypeOK, CopiesBacked, Backed
  <2>5. LandingOrder'
    BY <1>1
       DEF WrapperLoad, WrapperTo, Want, WrapperKeeps, IsTerminal, lvars, wvars,
           ovars, world, TypeOK, LandingOrder
  <2> QED
    BY <2>1, <2>2, <2>3, <2>4, <2>5
<1>2. CASE AgentEnds(r)
  <2>1. TypeOK'
    BY <1>2
       DEF AgentEnds, WrapperTo, Want, WrapperKeeps, AfterPricing, lvars, wvars,
           ovars, world, TypeOK, LauncherSteps, WrapperSteps, OperatorSteps
  <2>2. Unstarted'
    BY <1>2
       DEF AgentEnds, WrapperTo, Want, WrapperKeeps, AfterPricing, lvars, wvars,
           ovars, world, TypeOK, Unstarted
  <2>3. OpenSnapshots'
    BY <1>2
       DEF AgentEnds, WrapperTo, Want, WrapperKeeps, AfterPricing, lvars, wvars,
           ovars, world, TypeOK, OpenSnapshots
  <2>4. CopiesBacked'
    BY <1>2
       DEF AgentEnds, WrapperTo, Want, WrapperKeeps, AfterPricing, lvars, wvars,
           ovars, world, TypeOK, CopiesBacked, Backed
  <2>5. LandingOrder'
    BY <1>2
       DEF AgentEnds, WrapperTo, Want, WrapperKeeps, AfterPricing, lvars, wvars,
           ovars, world, TypeOK, LandingOrder
  <2> QED
    BY <2>1, <2>2, <2>3, <2>4, <2>5
<1>3. CASE PriceRead(r)
  <2>1. TypeOK'
    BY <1>3, RebaseType
       DEF PriceRead, WrapperTo, Want, WrapperKeeps, AfterPricing, lvars, wvars,
           ovars, world, TypeOK, LauncherSteps, WrapperSteps, OperatorSteps
  <2>2. Unstarted'
    BY <1>3
       DEF PriceRead, WrapperTo, Want, WrapperKeeps, AfterPricing, lvars, wvars,
           ovars, world, TypeOK, Unstarted
  <2>3. OpenSnapshots'
    BY <1>3
       DEF PriceRead, WrapperTo, Want, WrapperKeeps, AfterPricing, lvars, wvars,
           ovars, world, TypeOK, OpenSnapshots
  <2>4. CopiesBacked'
    BY <1>3
       DEF PriceRead, WrapperTo, Want, WrapperKeeps, AfterPricing, lvars, wvars,
           ovars, world, TypeOK, CopiesBacked, Backed, Rebase, IsRecord
  <2>5. LandingOrder'
    BY <1>3
       DEF PriceRead, WrapperTo, Want, WrapperKeeps, AfterPricing, lvars, wvars,
           ovars, world, TypeOK, LandingOrder
  <2> QED
    BY <2>1, <2>2, <2>3, <2>4, <2>5
<1>4. CASE PriceWrite(r)
  <2>1. Priced(wbase[r], whand[r]) \in AgentRun
    BY <1>4, UpdateTypes, QueuedRun DEF TypeOK
  <2>2. /\ disk' \in [Runs -> MaybeRun] /\ faults' \in 0..MaxFaults
        /\ \A q \in Runs : disk'[q] = disk[q] \/ (q = r /\ disk'[q] = Priced(wbase[r], whand[r]))
    BY <1>4, <2>1, SaveEffect DEF PriceWrite
  <2>3. Backed(r, Priced(wbase[r], whand[r]))
    BY <1>4, UpdateBacked, SettledBacked, QueuedRun, QueuedBacked
       DEF PriceWrite, TypeOK, CopiesBacked, LandingOrder
  <2>4. TypeOK'
    BY <1>4, <2>2, <2>1
       DEF PriceWrite, WrapperTo, Want, WrapperKeeps, AfterPricing, lvars, wvars,
           ovars, world, TypeOK, LauncherSteps, WrapperSteps, OperatorSteps
  <2>5. Unstarted'
    BY <1>4, <2>2
       DEF PriceWrite, WrapperTo, Want, WrapperKeeps, AfterPricing, lvars, wvars,
           ovars, world, TypeOK, Unstarted
  <2>6. OpenSnapshots'
    BY <1>4, <2>2
       DEF PriceWrite, WrapperTo, Want, WrapperKeeps, AfterPricing, lvars, wvars,
           ovars, world, TypeOK, OpenSnapshots
  <2>7. CopiesBacked'
    BY <1>4, <2>2, <2>3, <2>3
       DEF PriceWrite, WrapperTo, Want, WrapperKeeps, AfterPricing, lvars, wvars,
           ovars, world, TypeOK, CopiesBacked, Backed
  <2>8. LandingOrder'
    BY <1>4, <2>2
       DEF PriceWrite, WrapperTo, Want, WrapperKeeps, AfterPricing, lvars, wvars,
           ovars, world, TypeOK, LandingOrder
  <2> QED
    BY <2>4, <2>5, <2>6, <2>7, <2>8
<1>5. CASE Commit(r)
  <2>1. TypeOK'
    BY <1>5
       DEF Commit, WrapperTo, Want, WrapperKeeps, LandStep, lvars, wvars, ovars,
           world, TypeOK, LauncherSteps, WrapperSteps, OperatorSteps
  <2>2. Unstarted'
    BY <1>5
       DEF Commit, WrapperTo, Want, WrapperKeeps, LandStep, lvars, wvars, ovars,
           world, TypeOK, Unstarted
  <2>3. OpenSnapshots'
    BY <1>5
       DEF Commit, WrapperTo, Want, WrapperKeeps, LandStep, lvars, wvars, ovars,
           world, TypeOK, OpenSnapshots
  <2>4. CopiesBacked'
    BY <1>5
       DEF Commit, WrapperTo, Want, WrapperKeeps, LandStep, lvars, wvars, ovars,
           world, TypeOK, CopiesBacked, Backed
  <2>5. LandingOrder'
    BY <1>5
       DEF Commit, WrapperTo, Want, WrapperKeeps, LandStep, lvars, wvars, ovars,
           world, TypeOK, LandingOrder
  <2> QED
    BY <2>1, <2>2, <2>3, <2>4, <2>5
<1>6. CASE Push(r)
  <2>1. TypeOK'
    BY <1>6
       DEF Push, WrapperTo, Want, WrapperKeeps, LandStep, lvars, wvars, ovars,
           world, TypeOK, LauncherSteps, WrapperSteps, OperatorSteps
  <2>2. Unstarted'
    BY <1>6
       DEF Push, WrapperTo, Want, WrapperKeeps, LandStep, lvars, wvars, ovars,
           world, TypeOK, Unstarted
  <2>3. OpenSnapshots'
    BY <1>6
       DEF Push, WrapperTo, Want, WrapperKeeps, LandStep, lvars, wvars, ovars,
           world, TypeOK, OpenSnapshots
  <2>4. CopiesBacked'
    BY <1>6
       DEF Push, WrapperTo, Want, WrapperKeeps, LandStep, lvars, wvars, ovars,
           world, TypeOK, CopiesBacked, Backed
  <2>5. LandingOrder'
    BY <1>6
       DEF Push, WrapperTo, Want, WrapperKeeps, LandStep, lvars, wvars, ovars,
           world, TypeOK, LandingOrder
  <2> QED
    BY <2>1, <2>2, <2>3, <2>4, <2>5
<1>7. CASE OpenDraftPr(r)
  <2>1. prOpen' \in [Runs -> BOOLEAN] /\ \A q \in Runs : prOpen[q] => prOpen'[q]
    BY <1>7 DEF OpenDraftPr, TypeOK
  <2>2. TypeOK'
    BY <1>7, <2>1
       DEF OpenDraftPr, WrapperTo, Want, WrapperKeeps, lvars, wvars, ovars, world,
           TypeOK, LauncherSteps, WrapperSteps, OperatorSteps
  <2>3. Unstarted'
    BY <1>7
       DEF OpenDraftPr, WrapperTo, Want, WrapperKeeps, lvars, wvars, ovars, world,
           TypeOK, Unstarted
  <2>4. OpenSnapshots'
    BY <1>7
       DEF OpenDraftPr, WrapperTo, Want, WrapperKeeps, lvars, wvars, ovars, world,
           TypeOK, OpenSnapshots
  <2>5. CopiesBacked'
    BY <1>7, <2>1
       DEF OpenDraftPr, WrapperTo, Want, WrapperKeeps, lvars, wvars, ovars, world,
           TypeOK, CopiesBacked, Backed
  <2>6. LandingOrder'
    BY <1>7, <2>1
       DEF OpenDraftPr, WrapperTo, Want, WrapperKeeps, lvars, wvars, ovars, world,
           TypeOK, LandingOrder
  <2> QED
    BY <2>2, <2>3, <2>4, <2>5, <2>6
<1>8. CASE Cleanup(r)
  <2>1. tree' \in [Runs -> BOOLEAN] /\ \A q \in Runs : q # r => tree'[q] = tree[q]
    BY <1>8 DEF Cleanup, TypeOK
  <2>2. TypeOK'
    BY <1>8, <2>1
       DEF Cleanup, WrapperTo, Want, WrapperKeeps, lvars, wvars, ovars, world,
           TypeOK, LauncherSteps, WrapperSteps, OperatorSteps
  <2>3. Unstarted'
    BY <1>8
       DEF Cleanup, WrapperTo, Want, WrapperKeeps, lvars, wvars, ovars, world,
           TypeOK, Unstarted
  <2>4. OpenSnapshots'
    BY <1>8
       DEF Cleanup, WrapperTo, Want, WrapperKeeps, lvars, wvars, ovars, world,
           TypeOK, OpenSnapshots
  <2>5. CopiesBacked'
    BY <1>8
       DEF Cleanup, WrapperTo, Want, WrapperKeeps, lvars, wvars, ovars, world,
           TypeOK, CopiesBacked, Backed
  <2>6. LandingOrder'
    BY <1>8, <2>1
       DEF Cleanup, WrapperTo, Want, WrapperKeeps, lvars, wvars, ovars, world,
           TypeOK, LandingOrder
  <2> QED
    BY <2>2, <2>3, <2>4, <2>5, <2>6
<1>9. CASE FinishRead(r)
  <2>1. TypeOK'
    BY <1>9
       DEF FinishRead, WrapperTo, Want, WrapperKeeps, MayFinish, lvars, wvars,
           ovars, world, TypeOK, LauncherSteps, WrapperSteps, OperatorSteps
  <2>2. Unstarted'
    BY <1>9
       DEF FinishRead, WrapperTo, Want, WrapperKeeps, MayFinish, lvars, wvars,
           ovars, world, TypeOK, Unstarted
  <2>3. OpenSnapshots'
    BY <1>9
       DEF FinishRead, WrapperTo, Want, WrapperKeeps, MayFinish, lvars, wvars,
           ovars, world, TypeOK, OpenSnapshots
  <2>4. CopiesBacked'
    BY <1>9
       DEF FinishRead, WrapperTo, Want, WrapperKeeps, MayFinish, lvars, wvars,
           ovars, world, TypeOK, CopiesBacked, Backed
  <2>5. LandingOrder'
    BY <1>9
       DEF FinishRead, WrapperTo, Want, WrapperKeeps, MayFinish, lvars, wvars,
           ovars, world, TypeOK, LandingOrder
  <2> QED
    BY <2>1, <2>2, <2>3, <2>4, <2>5
<1>10. CASE FinishWrite(r)
  <2>1. Settled(wbase[r], whand[r], wwant[r]) \in AgentRun
    BY <1>10, UpdateTypes, QueuedRun DEF TypeOK, TERMINAL, LandingOrder, FinishWrite
  <2>2. /\ disk' \in [Runs -> MaybeRun] /\ faults' \in 0..MaxFaults
        /\ \A q \in Runs : disk'[q] = disk[q] \/ (q = r /\ disk'[q] = Settled(wbase[r], whand[r], wwant[r]))
    BY <1>10, <2>1, SaveEffect DEF FinishWrite
  <2>3. Backed(r, Settled(wbase[r], whand[r], wwant[r]))
    BY <1>10, UpdateBacked, SettledBacked, QueuedRun, QueuedBacked
       DEF FinishWrite, TypeOK, CopiesBacked, LandingOrder, TERMINAL
  <2>4. TypeOK'
    BY <1>10, <2>2
       DEF FinishWrite, WrapperTo, Want, WrapperKeeps, lvars, wvars, ovars, world,
           TypeOK, LauncherSteps, WrapperSteps, OperatorSteps
  <2>5. Unstarted'
    BY <1>10, <2>2
       DEF FinishWrite, WrapperTo, Want, WrapperKeeps, lvars, wvars, ovars, world,
           TypeOK, Unstarted
  <2>6. OpenSnapshots'
    BY <1>10, <2>2
       DEF FinishWrite, WrapperTo, Want, WrapperKeeps, lvars, wvars, ovars, world,
           TypeOK, OpenSnapshots
  <2>7. CopiesBacked'
    BY <1>10, <2>2, <2>3
       DEF FinishWrite, WrapperTo, Want, WrapperKeeps, lvars, wvars, ovars, world,
           TypeOK, CopiesBacked, Backed
  <2>8. LandingOrder'
    BY <1>10, <2>2
       DEF FinishWrite, WrapperTo, Want, WrapperKeeps, lvars, wvars, ovars, world,
           TypeOK, LandingOrder
  <2> QED
    BY <2>4, <2>5, <2>6, <2>7, <2>8
<1>11. CASE WrapperCrash(r)
  <2>1. TypeOK'
    BY <1>11, FaultAssumption
       DEF WrapperCrash, WrapperTo, Want, WrapperKeeps, Live, lvars, wvars, ovars,
           world, TypeOK, LauncherSteps, WrapperSteps, OperatorSteps
  <2>2. Unstarted'
    BY <1>11
       DEF WrapperCrash, WrapperTo, Want, WrapperKeeps, Live, lvars, wvars, ovars,
           world, TypeOK, Unstarted
  <2>3. OpenSnapshots'
    BY <1>11
       DEF WrapperCrash, WrapperTo, Want, WrapperKeeps, Live, lvars, wvars, ovars,
           world, TypeOK, OpenSnapshots
  <2>4. CopiesBacked'
    BY <1>11
       DEF WrapperCrash, WrapperTo, Want, WrapperKeeps, Live, lvars, wvars, ovars,
           world, TypeOK, CopiesBacked, Backed
  <2>5. LandingOrder'
    BY <1>11
       DEF WrapperCrash, WrapperTo, Want, WrapperKeeps, Live, lvars, wvars, ovars,
           world, TypeOK, LandingOrder
  <2> QED
    BY <2>1, <2>2, <2>3, <2>4, <2>5
<1>12. CASE OpenUnheard(r)
  <2>1. prOpen' \in [Runs -> BOOLEAN] /\ \A q \in Runs : prOpen[q] => prOpen'[q]
    BY <1>12 DEF OpenUnheard, TypeOK
  <2>2. TypeOK'
    BY <1>12, <2>1, FaultAssumption
       DEF OpenUnheard, WrapperTo, Want, lvars, wvars, ovars, world,
           TypeOK, LauncherSteps, WrapperSteps, OperatorSteps
  <2>3. Unstarted'
    BY <1>12
       DEF OpenUnheard, WrapperTo, Want, lvars, wvars, ovars, world,
           TypeOK, Unstarted
  <2>4. OpenSnapshots'
    BY <1>12
       DEF OpenUnheard, WrapperTo, Want, lvars, wvars, ovars, world,
           TypeOK, OpenSnapshots
  <2>5. CopiesBacked'
    BY <1>12, <2>1
       DEF OpenUnheard, WrapperTo, Want, lvars, wvars, ovars, world,
           TypeOK, CopiesBacked, Backed
  <2>6. LandingOrder'
    BY <1>12, <2>1
       DEF OpenUnheard, WrapperTo, Want, lvars, wvars, ovars, world,
           TypeOK, LandingOrder
  <2> QED
    BY <2>2, <2>3, <2>4, <2>5, <2>6
<1> QED
  BY <1>1, <1>2, <1>3, <1>4, <1>5, <1>6, <1>7, <1>8, <1>9, <1>10, <1>11, <1>12 DEF WrapperStep

\* Every step of an operator's command preserves the invariant.
LEMMA OperatorInv ==
  ASSUME IInv, NEW o \in Operators, OperatorStep(o)
  PROVE  IInv'
<1> USE DEF IInv
<1>1. CASE \E r \in Runs : StopLoad(o, r)
  <2>1. TypeOK'
    BY <1>1
       DEF StopLoad, OperatorTo, OperatorKeeps, lvars, wvars, ovars, world, TypeOK,
           LauncherSteps, WrapperSteps, OperatorSteps, MaybeRun, IsRecord
  <2>2. Unstarted'
    BY <1>1
       DEF StopLoad, OperatorTo, OperatorKeeps, lvars, wvars, ovars, world, TypeOK,
           Unstarted, IsRecord
  <2>3. OpenSnapshots'
    BY <1>1
       DEF StopLoad, OperatorTo, OperatorKeeps, lvars, wvars, ovars, world, TypeOK,
           OpenSnapshots
  <2>4. CopiesBacked'
    BY <1>1
       DEF StopLoad, OperatorTo, OperatorKeeps, lvars, wvars, ovars, world, TypeOK,
           CopiesBacked, Backed
  <2>5. LandingOrder'
    BY <1>1
       DEF StopLoad, OperatorTo, OperatorKeeps, lvars, wvars, ovars, world, TypeOK,
           LandingOrder
  <2> QED
    BY <2>1, <2>2, <2>3, <2>4, <2>5
<1>2. CASE \E r \in Runs : ClearLoad(o, r)
  <2>1. TypeOK'
    BY <1>2
       DEF ClearLoad, OperatorTo, OperatorKeeps, ReportsTerminal, lvars, wvars,
           ovars, world, TypeOK, LauncherSteps, WrapperSteps, OperatorSteps
  <2>2. Unstarted'
    BY <1>2
       DEF ClearLoad, OperatorTo, OperatorKeeps, ReportsTerminal, lvars, wvars,
           ovars, world, TypeOK, Unstarted, IsRecord
  <2>3. OpenSnapshots'
    BY <1>2
       DEF ClearLoad, OperatorTo, OperatorKeeps, ReportsTerminal, lvars, wvars,
           ovars, world, TypeOK, OpenSnapshots
  <2>4. CopiesBacked'
    BY <1>2
       DEF ClearLoad, OperatorTo, OperatorKeeps, ReportsTerminal, lvars, wvars,
           ovars, world, TypeOK, CopiesBacked, Backed
  <2>5. LandingOrder'
    BY <1>2
       DEF ClearLoad, OperatorTo, OperatorKeeps, ReportsTerminal, lvars, wvars,
           ovars, world, TypeOK, LandingOrder
  <2> QED
    BY <2>1, <2>2, <2>3, <2>4, <2>5
<1>3. CASE StopKill(o)
  <2>1. TypeOK'
    BY <1>3
       DEF StopKill, OperatorTo, OperatorKeeps, Live, lvars, wvars, ovars, world,
           TypeOK, LauncherSteps, WrapperSteps, OperatorSteps
  <2>2. Unstarted'
    BY <1>3
       DEF StopKill, OperatorTo, OperatorKeeps, Live, lvars, wvars, ovars, world,
           TypeOK, Unstarted
  <2>3. OpenSnapshots'
    BY <1>3
       DEF StopKill, OperatorTo, OperatorKeeps, Live, lvars, wvars, ovars, world,
           TypeOK, OpenSnapshots
  <2>4. CopiesBacked'
    BY <1>3
       DEF StopKill, OperatorTo, OperatorKeeps, Live, lvars, wvars, ovars, world,
           TypeOK, CopiesBacked, Backed
  <2>5. LandingOrder'
    BY <1>3
       DEF StopKill, OperatorTo, OperatorKeeps, Live, lvars, wvars, ovars, world,
           TypeOK, LandingOrder
  <2> QED
    BY <2>1, <2>2, <2>3, <2>4, <2>5
<1>4. CASE StopFinishRead(o)
  <2>1. TypeOK'
    BY <1>4
       DEF StopFinishRead, OperatorTo, OperatorKeeps, MayFinish, lvars, wvars,
           ovars, world, TypeOK, LauncherSteps, WrapperSteps, OperatorSteps
  <2>2. Unstarted'
    BY <1>4
       DEF StopFinishRead, OperatorTo, OperatorKeeps, MayFinish, lvars, wvars,
           ovars, world, TypeOK, Unstarted
  <2>3. OpenSnapshots'
    BY <1>4
       DEF StopFinishRead, OperatorTo, OperatorKeeps, MayFinish, lvars, wvars,
           ovars, world, TypeOK, OpenSnapshots
  <2>4. CopiesBacked'
    BY <1>4
       DEF StopFinishRead, OperatorTo, OperatorKeeps, MayFinish, lvars, wvars,
           ovars, world, TypeOK, CopiesBacked, Backed
  <2>5. LandingOrder'
    BY <1>4
       DEF StopFinishRead, OperatorTo, OperatorKeeps, MayFinish, lvars, wvars,
           ovars, world, TypeOK, LandingOrder
  <2> QED
    BY <2>1, <2>2, <2>3, <2>4, <2>5
<1>5. CASE StopFinishWrite(o)
  <2>1. Settled(obase[o], ohand[o], "abandoned") \in AgentRun
    BY <1>5, UpdateTypes, QueuedRun DEF TypeOK, TERMINAL
  <2>2. /\ disk' \in [Runs -> MaybeRun] /\ faults' \in 0..MaxFaults
        /\ \A q \in Runs : disk'[q] = disk[q] \/ (q = otgt[o] /\ disk'[q] = Settled(obase[o], ohand[o], "abandoned"))
    BY <1>5, <2>1, SaveEffect DEF StopFinishWrite, TypeOK
  <2>3. Backed(otgt[o], Settled(obase[o], ohand[o], "abandoned"))
    BY <1>5, UpdateBacked, SettledBacked, QueuedRun, QueuedBacked
       DEF StopFinishWrite, TypeOK, CopiesBacked, LandingOrder, TERMINAL
  <2>4. TypeOK'
    BY <1>5, <2>2
       DEF StopFinishWrite, OperatorTo, OperatorKeeps, lvars, wvars, ovars, world,
           TypeOK, LauncherSteps, WrapperSteps, OperatorSteps
  <2>5. Unstarted'
    BY <1>5, <2>2
       DEF StopFinishWrite, OperatorTo, OperatorKeeps, lvars, wvars, ovars, world,
           TypeOK, Unstarted
  <2>6. OpenSnapshots'
    BY <1>5, <2>2
       DEF StopFinishWrite, OperatorTo, OperatorKeeps, lvars, wvars, ovars, world,
           TypeOK, OpenSnapshots
  <2>7. CopiesBacked'
    BY <1>5, <2>2, <2>3
       DEF StopFinishWrite, OperatorTo, OperatorKeeps, lvars, wvars, ovars, world,
           TypeOK, CopiesBacked, Backed
  <2>8. LandingOrder'
    BY <1>5, <2>2
       DEF StopFinishWrite, OperatorTo, OperatorKeeps, lvars, wvars, ovars, world,
           TypeOK, LandingOrder
  <2> QED
    BY <2>4, <2>5, <2>6, <2>7, <2>8
<1>6. CASE Forget(o)
  <2>1. TypeOK'
    BY <1>6
       DEF Forget, OperatorTo, OperatorKeeps, lvars, wvars, ovars, world, TypeOK,
           LauncherSteps, WrapperSteps, OperatorSteps, MaybeRun
  <2>2. Unstarted'
    BY <1>6
       DEF Forget, OperatorTo, OperatorKeeps, lvars, wvars, ovars, world, TypeOK,
           Unstarted
  <2>3. OpenSnapshots'
    BY <1>6
       DEF Forget, OperatorTo, OperatorKeeps, lvars, wvars, ovars, world, TypeOK,
           OpenSnapshots
  <2>4. CopiesBacked'
    BY <1>6
       DEF Forget, OperatorTo, OperatorKeeps, lvars, wvars, ovars, world, TypeOK,
           CopiesBacked, Backed, IsRecord
  <2>5. LandingOrder'
    BY <1>6
       DEF Forget, OperatorTo, OperatorKeeps, lvars, wvars, ovars, world, TypeOK,
           LandingOrder
  <2> QED
    BY <2>1, <2>2, <2>3, <2>4, <2>5
<1> QED
  BY <1>1, <1>2, <1>3, <1>4, <1>5, <1>6 DEF OperatorStep

-----------------------------------------------------------------------------
(* The invariant, and what follows from it. *)

\* Every step, of whichever process, preserves the invariant.
LEMMA NextInv == IInv /\ [Next]_vars => IInv'
<1> SUFFICES ASSUME IInv, [Next]_vars PROVE IInv'
  OBVIOUS
<1>1. ASSUME NEW r \in Runs,
             LauncherStep(r) \/ LauncherDies(r) \/ ParentPoll(r)
      PROVE  IInv'
  BY <1>1, LauncherInv
<1>2. ASSUME NEW r \in Runs, WrapperStep(r) \/ WrapperCrash(r)
      PROVE  IInv'
  BY <1>2, WrapperInv
<1>3. ASSUME NEW o \in Operators, OperatorStep(o)
      PROVE  IInv'
  BY <1>3, OperatorInv
<1>4. CASE UNCHANGED vars
  BY <1>4 DEF IInv, vars, lvars, wvars, ovars, world, TypeOK, Unstarted,
     OpenSnapshots, CopiesBacked, LandingOrder, Backed
<1> QED
  BY <1>1, <1>2, <1>3, <1>4 DEF Next

\* The inductive invariant holds throughout.
THEOREM Invariance == Spec => []IInv
  BY InitInv, NextInv, PTL DEF Spec

\* Every variable keeps its type.
THEOREM TypeCorrect == Spec => []TypeOK
<1>1. IInv => TypeOK
  BY DEF IInv
<1> QED
  BY <1>1, Invariance, PTL

\* A record says pr-opened, or carries a PR's URL, only if the PR is open.
THEOREM NoFalseSuccessHolds == Spec => []NoFalseSuccess
<1>1. IInv => NoFalseSuccess
  BY DEF IInv, CopiesBacked, Backed, NoFalseSuccess
<1> QED
  BY <1>1, Invariance, PTL

\* A run's work is in its worktree or in its PR.
THEOREM EvidenceKeptHolds == Spec => []EvidenceKept
<1>1. IInv => EvidenceKept
  BY DEF IInv, LandingOrder, EvidenceKept
<1> QED
  BY <1>1, Invariance, PTL

\* A write made of the record on disk, when that record is not settled, does not
\* regress it, nor does any write where there was no record.
LEMMA FreshUpdates ==
  ASSUME IInv, NEW r \in Runs, NEW hand \in AgentRun
  PROVE  /\ ~IsTerminal(disk[r]) => ~Regresses(disk[r], Marked(disk[r], hand))
         /\ ~Regresses(disk[r], Priced(disk[r], hand))
<1>1. ASSUME IsRecord(disk[r])
      PROVE  disk[r] \in MaybeRun /\ Rebase(disk[r], hand) = disk[r]
  BY <1>1 DEF IInv, TypeOK, Rebase
<1> QED
  BY <1>1, UpdateFields DEF Regresses, IsTerminal

\* Nor does settling a record that is not settled.
LEMMA FreshSettlement ==
  ASSUME IInv, NEW r \in Runs, NEW hand \in AgentRun, NEW state,
         ~IsTerminal(disk[r])
  PROVE  ~Regresses(disk[r], Settled(disk[r], hand, state))
<1>1. ASSUME IsRecord(disk[r])
      PROVE  disk[r] \in MaybeRun /\ Rebase(disk[r], hand) = disk[r]
  BY <1>1 DEF IInv, TypeOK, Rebase
<1> QED
  BY <1>1, SettledFields DEF Regresses, IsTerminal

\* A save can only bring in the record that is saved.
LEMMA SaveRegresses ==
  ASSUME IInv, NEW r \in Runs, NEW rec, Save(r, rec), NEW q \in Runs,
         Regresses(disk[q], disk'[q])
  PROVE  q = r /\ Regresses(disk[r], rec)
  BY DEF IInv, TypeOK, Save, Regresses

\* A step that regresses a record is a write whose snapshot was out of date.
LEMMA StepRegresses ==
  ASSUME IInv, Next, NEW q \in Runs, Regresses(disk[q], disk'[q])
  PROVE  StaleUpdate(q)
<1> USE DEF IInv
<1>1. disk' # disk
  BY DEF Regresses, TypeOK
<1>2. ASSUME NEW r \in Runs, LaunchSave(r) PROVE StaleUpdate(q)
  BY <1>2, SaveRegresses DEF LaunchSave, Unstarted, Regresses, IsRecord
<1>3. ASSUME NEW r \in Runs, MarkWrite(r) PROVE StaleUpdate(q)
  BY <1>3, SaveRegresses, FreshUpdates, QueuedRun
     DEF MarkWrite, OpenSnapshots, StaleUpdate
<1>4. ASSUME NEW r \in Runs, LaunchFailWrite(r) PROVE StaleUpdate(q)
  BY <1>4, SaveRegresses, FreshSettlement, QueuedRun
     DEF LaunchFailWrite, OpenSnapshots, StaleUpdate
<1>5. ASSUME NEW r \in Runs, PriceWrite(r) PROVE StaleUpdate(q)
  BY <1>5, SaveRegresses, FreshUpdates DEF PriceWrite, TypeOK, StaleUpdate
<1>6. ASSUME NEW r \in Runs, FinishWrite(r) PROVE StaleUpdate(q)
  BY <1>6, SaveRegresses, FreshSettlement
     DEF FinishWrite, TypeOK, OpenSnapshots, StaleUpdate
<1>7. ASSUME NEW o \in Operators, StopFinishWrite(o) PROVE StaleUpdate(q)
  BY <1>7, SaveRegresses, FreshSettlement
     DEF StopFinishWrite, TypeOK, OpenSnapshots, StaleUpdate
<1>8. ASSUME NEW o \in Operators, Forget(o) PROVE StaleUpdate(q)
  BY <1>8 DEF Forget, TypeOK, Regresses, IsRecord
<1>9. ASSUME NEW r \in Runs,
             \/ LauncherStep(r) \/ LauncherDies(r) \/ ParentPoll(r)
             \/ WrapperStep(r) \/ WrapperCrash(r)
      PROVE  StaleUpdate(q)
  BY <1>1, <1>2, <1>3, <1>4, <1>5, <1>6, <1>9
     DEF LauncherStep, LaunchPrepare, LaunchSpawn, MarkRead, LaunchFailRead,
         LauncherExit, LauncherDies, ParentPoll, WrapperStep, WrapperLoad,
         AgentEnds, PriceRead, Commit, Push, LandStep, OpenDraftPr, OpenUnheard,
         Cleanup, FinishRead, WrapperCrash, WrapperKeeps
<1>10. ASSUME NEW o \in Operators, OperatorStep(o) PROVE StaleUpdate(q)
  BY <1>1, <1>7, <1>8, <1>10
     DEF OperatorStep, StopLoad, ClearLoad, StopKill, StopFinishRead
<1> QED
  BY <1>9, <1>10 DEF Next

\* First writer wins against every stale handle: only a writer whose own re-read
\* was overtaken can undo a settled state or a recorded price.
THEOREM OnlyStaleUpdatesRegressHolds == Spec => OnlyStaleUpdatesRegress
<1>1. IInv /\ [Next]_vars
        => [\A r \in Runs : Regresses(disk[r], disk'[r]) => StaleUpdate(r)]_vars
  BY StepRegresses
<1> QED
  BY <1>1, Invariance, PTL DEF Spec, OnlyStaleUpdatesRegress
=============================================================================
