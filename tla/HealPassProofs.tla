---------------------------- MODULE HealPassProofs ----------------------------
(***************************************************************************)
(* HealPass, proved for any fleet, any callers and any bounds: WorkIsKept  *)
(* and LandedIsVerified, that what a paid agent did is never deleted       *)
(* before it is in a PR or expired, and that a PR passes its gates.        *)
(*                                                                         *)
(* Neither is inductive: what a step of heal may do to an attempt rests on *)
(* what the steps before it found there, and on nobody else having touched *)
(* it since.  IInv adds both: a slot is held by one caller at most, and    *)
(* each step finds the held attempt as the steps before it left it.        *)
(*                                                                         *)
(* ReportIsHonest is about the pass alone and has a ledger of its own:     *)
(* where each failing project stands (waiting, at hand, tried, deferred),  *)
(* what its result says of its agent, and room under the limit for the     *)
(* attempt at hand.  ReportIsHonest is the ledger when the pass reports.   *)
(*                                                                         *)
(* RetryIsNeverRefused needs to know that a slot is left for whoever is    *)
(* about to cut a worktree (RoomInv), an account that starts where callers *)
(* begin and rests on the ledger; what it then says is that no branch and  *)
(* no worktree of an earlier attempt stands in the way.                    *)
(***************************************************************************)
EXTENDS HealPass, FiniteSetTheorems, TLAPS

Steps == HealSteps \cup {"idle", "recheck", "collect", "next", "report"}

\* The types the argument needs.
Typed ==
  /\ head \in [Projects -> SUBSET Tasks] /\ clone \in [Projects -> SUBSET Tasks]
  /\ cache \in [Projects -> SUBSET Tasks] /\ targets \in [Projects -> SUBSET Tasks]
  /\ queue \subseteq Projects
  /\ attempt \in [Slots -> Attempt]
  /\ at \in [Callers -> Steps]
  /\ job \in [Callers -> Job]

\* Two callers never hold the same slot.
HeldOnce ==
  \A c, d \in Callers : job[c].slot = job[d].slot /\ c # d => job[c].slot = NoSlot

\* The steps with an attempt in hand, and what each finds of it.
Working == {"agent", "verify", "commit", "push", "pr", "remove"}

Found(c) ==
  LET a == attempt[job[c].slot] IN
  /\ job[c].slot # NoSlot => a.dir = "there" /\ ~a.old
  /\ at[c] \in Working => job[c].slot # NoSlot
  /\ at[c] \in Working \ {"remove"} => ~a.pr
  /\ at[c] \in {"commit", "push", "pr", "remove"} => a.fails \cap a.tasks = {}
  /\ at[c] \in {"push", "pr", "remove"} => a.changed
  /\ at[c] \in {"pr", "remove"} => a.branch = "pushed"
  /\ at[c] = "remove" => a.pr

FoundAsLeft == \A c \in Callers : Found(c)

IInv == Typed /\ HeldOnce /\ FoundAsLeft /\ WorkIsKept /\ LandedIsVerified

\* No attempt is at slot 0.
LEMMA NoSlotIsNone == NoSlot \notin Slots
  BY DEF NoSlot, Slots

\* The empty job is a job.
LEMMA NoJobTyped == Someone \in Projects /\ \A p \in Projects : NoJob(p) \in Job
  BY HealAssumption DEF Someone, NoJob, Job

\* What stays of a finished attempt, and a fresh one, are attempts.
LEMMA AttemptsTyped ==
  /\ \A a \in Attempt : Over(a) \in Attempt
  /\ \A p \in Projects : Unused(p) \in Attempt
  <1>1. ASSUME NEW a \in Attempt PROVE Over(a) \in Attempt
    BY <1>1 DEF Over, Attempt
  <1>2. ASSUME NEW p \in Projects PROVE Unused(p) \in Attempt
    BY <1>2 DEF Unused, Attempt
  <1> QED
    BY <1>1, <1>2

\* Nobody holds anything at first.
LEMMA InitIInv == Init => IInv
  <1> SUFFICES ASSUME Init PROVE IInv
    OBVIOUS
  <1>1. \A s \in Slots : attempt[s] = Unused(Someone)
    BY DEF Init
  <1>2. \A c \in Callers : job[c] = NoJob(Someone) /\ at[c] = "idle"
    BY DEF Init
  <1>3. Typed
    <2>1. /\ head \in [Projects -> SUBSET Tasks] /\ clone \in [Projects -> SUBSET Tasks]
          /\ cache \in [Projects -> SUBSET Tasks]
      BY HealAssumption DEF Init
    <2>2. attempt \in [Slots -> Attempt] /\ job \in [Callers -> Job]
      BY NoJobTyped, AttemptsTyped DEF Init
    <2>3. at \in [Callers -> Steps] /\ queue \subseteq Projects
          /\ targets \in [Projects -> SUBSET Tasks]
      BY DEF Init, Steps
    <2> QED
      BY <2>1, <2>2, <2>3 DEF Typed
  <1>4. HeldOnce /\ FoundAsLeft
    BY <1>2 DEF HeldOnce, FoundAsLeft, Found, NoJob, Working
  <1>5. WorkIsKept /\ LandedIsVerified
    BY <1>1 DEF WorkIsKept, LandedIsVerified, Unused
  <1> QED
    BY <1>3, <1>4, <1>5 DEF IInv

-----------------------------------------------------------------------------
(* Every step is a step of one caller, who holds at most one attempt.        *)

\* What must hold of one attempt.
Safe(s) ==
  /\ attempt[s].dir = "gone" => attempt[s].pr \/ attempt[s].old
  /\ attempt[s].pr => /\ attempt[s].changed /\ attempt[s].branch = "pushed"
                      /\ attempt[s].fails \cap attempt[s].tasks = {}

\* The other callers stand where they stood.
OthersStay(c) == \A d \in Callers \ {c} : at'[d] = at[d] /\ job'[d] = job[d]

\* A step of c that touches no attempt but t, which nobody else holds, needs only
\* to leave t safe, and as c's next step finds it.
LEMMA OneSteps ==
  ASSUME IInv, NEW c \in Callers, NEW t \in Slots \cup {NoSlot}, Typed', OthersStay(c),
         job'[c].slot \in {NoSlot, t}, Found(c)', t # NoSlot => Safe(t)',
         \A d \in Callers \ {c} : t # NoSlot => job[d].slot # t,
         \A s \in Slots \ {t} : attempt'[s] = attempt[s]
  PROVE  IInv'
  <1>1. HeldOnce'
    BY DEF IInv, HeldOnce, OthersStay
  <1>2. FoundAsLeft'
    <2> SUFFICES ASSUME NEW d \in Callers, d # c PROVE Found(d)'
      BY DEF FoundAsLeft
    <2>1. Found(d) /\ at'[d] = at[d] /\ job'[d] = job[d]
      BY DEF IInv, FoundAsLeft, OthersStay
    <2>2. job[d].slot \in Slots \cup {NoSlot}
      BY DEF IInv, Typed, Job
    <2>3. CASE job[d].slot = NoSlot
      BY <2>1, <2>3 DEF Found, Working
    <2>4. CASE job[d].slot \in Slots
      <3>1. attempt'[job[d].slot] = attempt[job[d].slot]
        BY <2>4, NoSlotIsNone
      <3> QED
        BY <2>1, <3>1 DEF Found
    <2> QED
      BY <2>2, <2>3, <2>4
  <1>3. \A s \in Slots : Safe(s)'
    <2> SUFFICES ASSUME NEW s \in Slots PROVE Safe(s)'
      OBVIOUS
    <2>1. CASE s = t
      BY <2>1, NoSlotIsNone
    <2>2. CASE s # t
      BY <2>2 DEF IInv, Safe, WorkIsKept, LandedIsVerified
    <2> QED
      BY <2>1, <2>2
  <1>4. WorkIsKept' /\ LandedIsVerified'
    BY <1>3 DEF Safe, WorkIsKept, LandedIsVerified
  <1> QED
    BY <1>1, <1>2, <1>4 DEF IInv

\* heal_project returns: the attempt is nobody's any more.
LEMMA ReturnLetsGo ==
  ASSUME Typed, NEW c \in Callers, NEW status, NEW metered, Return(c, status, metered)
  PROVE  /\ at' \in [Callers -> Steps] /\ job' \in [Callers -> Job]
         /\ at'[c] \notin Working /\ job'[c].slot = NoSlot /\ OthersStay(c)
  <1>1. job' = [job EXCEPT ![c] = NoJob(Someone)]
    BY DEF Return
  <1>2. job' \in [Callers -> Job] /\ job'[c].slot = NoSlot
    BY <1>1, NoJobTyped DEF Typed, NoJob
  <1>3. PICK step \in {"next", "idle"} : at' = [at EXCEPT ![c] = step]
    BY DEF Return, Go
  <1> QED
    BY <1>1, <1>2, <1>3 DEF Typed, Steps, Working, OthersStay

\* ... and a caller without an attempt finds nothing.
LEMMA EmptyHanded ==
  ASSUME NEW c \in Callers, at'[c] \notin Working, job'[c].slot = NoSlot
  PROVE  Found(c)'
  BY DEF Found, Working

\* A step of c that leaves it with nothing in hand and touches no attempt.
LEMMA LetsGo ==
  ASSUME IInv, NEW c \in Callers, Typed', OthersStay(c), UNCHANGED attempt,
         at'[c] \notin Working, job'[c].slot = NoSlot
  PROVE  IInv'
  BY OneSteps, EmptyHanded

-----------------------------------------------------------------------------
(* The steps of heal_project.                                                *)

\* GoOn keeps the caller's attempt and moves it to its next step.
LEMMA GoOnMoves ==
  ASSUME Typed, NEW c \in Callers, NEW step \in Steps, GoOn(c, step)
  PROVE  /\ at' \in [Callers -> Steps] /\ job' = job
         /\ at'[c] = step /\ OthersStay(c)
  BY DEF Typed, GoOn, Go, OthersStay

\* What a caller at work holds.
LEMMA InHand ==
  ASSUME IInv, NEW c \in Callers, at[c] \in Working
  PROVE  /\ job[c].slot \in Slots /\ job[c].slot # NoSlot
         /\ attempt[job[c].slot] \in Attempt
         /\ \A d \in Callers \ {c} : job[d].slot # job[c].slot
  <1>1. job[c].slot \in Slots \cup {NoSlot} /\ job[c].slot # NoSlot
    BY DEF IInv, Typed, Job, FoundAsLeft, Found
  <1>2. job[c].slot \in Slots
    BY <1>1
  <1>3. attempt[job[c].slot] \in Attempt
    BY <1>2 DEF IInv, Typed
  <1> QED
    BY <1>1, <1>2, <1>3 DEF IInv, HeldOnce

\* A failure keeps the worktree, and only a PR's content is looked at again.
LEMMA FailsKeeps ==
  ASSUME IInv, NEW c \in Callers, at[c] \in Working, HealFrame,
         NEW status, NEW metered, Return(c, status, metered),
         NEW left \in Attempt, attempt' = [attempt EXCEPT ![job[c].slot] = Over(left)],
         left.dir = "there",
         left.pr => left.changed /\ left.branch = "pushed" /\ left.fails \cap left.tasks = {}
  PROVE  IInv'
  <1>0. PICK s \in Slots : s = job[c].slot
    BY InHand
  <1>1. \A d \in Callers \ {c} : job[d].slot # s
    BY <1>0, InHand
  <1>2. attempt' = [attempt EXCEPT ![s] = Over(left)]
    BY <1>0
  <1>3. /\ at' \in [Callers -> Steps] /\ job' \in [Callers -> Job]
        /\ at'[c] \notin Working /\ job'[c].slot = NoSlot /\ OthersStay(c)
    BY ReturnLetsGo DEF IInv
  <1>4. Over(left) \in Attempt
    BY AttemptsTyped
  <1>5. Typed'
    BY <1>0, <1>1, <1>2, <1>3, <1>4 DEF IInv, Typed, HealFrame, world
  <1>6. Found(c)'
    BY <1>3, EmptyHanded
  <1>7. attempt'[s] = Over(left)
    BY <1>1, <1>2 DEF IInv, Typed
  <1>8. Safe(s)'
    <2>1. Over(left).dir = "there" /\ (Over(left).pr => left.pr /\ Over(left) = left)
      BY DEF Over, Attempt
    <2> QED
      BY <1>7, <2>1 DEF Safe
  <1>9. \A o \in Slots \ {s} : attempt'[o] = attempt[o]
    BY <1>2 DEF IInv, Typed
  <1> QED
    BY <1>1, <1>3, <1>5, <1>6, <1>8, <1>9, OneSteps

\* A step that succeeds changes the attempt in hand and goes on.
LEMMA Succeeds ==
  ASSUME IInv, NEW c \in Callers, at[c] \in Working, NEW step \in Steps, Go(c, step),
         NEW left \in Attempt, attempt' = [attempt EXCEPT ![job[c].slot] = left], HealFrame,
         job' \in [Callers -> Job], job'[c].slot = job[c].slot,
         \A d \in Callers \ {c} : job'[d] = job[d],
         left.dir = "there", ~left.old,
         step \in Working \ {"remove"} => ~left.pr,
         step \in {"commit", "push", "pr", "remove"} => left.fails \cap left.tasks = {},
         step \in {"push", "pr", "remove"} => left.changed,
         step \in {"pr", "remove"} => left.branch = "pushed",
         step = "remove" <=> left.pr
  PROVE  IInv'
  <1>0. PICK s \in Slots : s = job[c].slot
    BY InHand
  <1>1. s # NoSlot /\ \A d \in Callers \ {c} : job[d].slot # s
    BY <1>0, InHand
  <1>2. at' \in [Callers -> Steps] /\ at'[c] = step /\ OthersStay(c)
    BY DEF IInv, Typed, Go, OthersStay
  <1>3. Typed'
    BY <1>0, <1>1, <1>2 DEF IInv, Typed, HealFrame, world
  <1>4. attempt'[s] = left /\ \A o \in Slots \ {s} : attempt'[o] = attempt[o]
    BY <1>0, <1>1 DEF IInv, Typed
  <1>5. Found(c)'
    BY <1>0, <1>1, <1>2, <1>4 DEF Found, Working
  <1>6. Safe(s)'
    BY <1>4 DEF Safe
  <1>7. job'[c].slot = s
    BY <1>0
  <1> QED
    BY <1>1, <1>2, <1>3, <1>4, <1>5, <1>6, <1>7, OneSteps

\* The gates passed, as far as Verify looks: those that did not say so are failing.
LEMMA VerifyStays == ASSUME IInv, NEW c \in Callers, Verify(c) PROVE IInv'
  <1> DEFINE a == attempt[job[c].slot]
  <1>1. at[c] = "verify" /\ at[c] \in Working /\ Found(c) /\ HealFrame
    BY DEF Verify, Working, IInv, FoundAsLeft
  <1>2. a \in Attempt /\ a.dir = "there" /\ ~a.old /\ ~a.pr
    BY <1>1, InHand DEF Found, Working
  <1>3. PICK passed \in SUBSET (a.tasks \ a.fails), failed \in SUBSET (a.tasks \cap a.fails) :
          IF StillFailing(a.tasks, passed, failed) = {}
          THEN GoOn(c, "commit") /\ UNCHANGED attempt
          ELSE Fails(c, "verify_failed", a)
    BY DEF Verify
  <1>4. CASE StillFailing(a.tasks, passed, failed) = {}
    <2>1. GoOn(c, "commit") /\ attempt' = attempt
      BY <1>3, <1>4
    <2>2. a.fails \cap a.tasks = {}
      BY <1>3, <1>4 DEF StillFailing
    <2>3. Go(c, "commit") /\ job' = job /\ job' \in [Callers -> Job]
      BY <2>1 DEF GoOn, IInv, Typed
    <2>4. attempt' = [attempt EXCEPT ![job[c].slot] = a]
      BY <2>1, <1>1, InHand DEF IInv, Typed
    <2>5. "commit" \in Steps
      BY DEF Steps, HealSteps
    <2> HIDE DEF a
    <2> QED
      BY <1>1, <1>2, <2>2, <2>3, <2>4, <2>5, Succeeds
  <1>5. CASE StillFailing(a.tasks, passed, failed) # {}
    <2>1. Return(c, "verify_failed", job[c].metered)
          /\ attempt' = [attempt EXCEPT ![job[c].slot] = Over(a)]
      BY <1>3, <1>5 DEF Fails
    <2> HIDE DEF a
    <2> QED
      BY <1>1, <1>2, <2>1, FailsKeeps
  <1> QED
    BY <1>4, <1>5

\* What a caller finds in hand at each step after the agent.
LEMMA AtWork ==
  ASSUME IInv, NEW c \in Callers, HealFrame, at[c] \in {"commit", "push", "pr", "remove"}
  PROVE  LET a == attempt[job[c].slot] IN
         /\ at[c] \in Working
         /\ a \in Attempt /\ a.dir = "there" /\ ~a.old /\ a.fails \cap a.tasks = {}
         /\ at[c] # "remove" => ~a.pr
         /\ at[c] \in {"push", "pr", "remove"} => a.changed
         /\ at[c] \in {"pr", "remove"} => a.branch = "pushed"
         /\ at[c] = "remove" => a.pr
  <1>1. at[c] \in Working /\ Found(c)
    BY DEF Working, IInv, FoundAsLeft
  <1>2. attempt[job[c].slot] \in Attempt /\ job[c].slot # NoSlot
    BY <1>1, InHand
  <1> QED
    BY <1>1, <1>2 DEF Found, Working

\* The commit of the agent's work.
LEMMA CommitStays == ASSUME IInv, NEW c \in Callers, Commit(c) PROVE IInv'
  <1> DEFINE a == attempt[job[c].slot]
  <1>1. at[c] = "commit" /\ HealFrame
    BY DEF Commit
  <1>2. /\ at[c] \in Working /\ a \in Attempt /\ a.dir = "there" /\ ~a.old
        /\ a.fails \cap a.tasks = {} /\ ~a.pr
    BY <1>1, AtWork
  <1>3. CASE a.changed /\ GoOn(c, "push") /\ UNCHANGED attempt
    <2>1. Go(c, "push") /\ job' = job /\ job' \in [Callers -> Job] /\ a.changed
      BY <1>3 DEF GoOn, IInv, Typed
    <2>2. attempt' = [attempt EXCEPT ![job[c].slot] = a]
      BY <1>3, <1>2, InHand DEF IInv, Typed
    <2>3. "push" \in Steps
      BY DEF Steps, HealSteps
    <2> HIDE DEF a
    <2> QED
      BY <1>1, <1>2, <2>1, <2>2, <2>3, Succeeds
  <1>4. CASE Fails(c, "branch_failed", a)
    <2>1. Return(c, "branch_failed", job[c].metered)
          /\ attempt' = [attempt EXCEPT ![job[c].slot] = Over(a)]
      BY <1>4 DEF Fails
    <2> HIDE DEF a
    <2> QED
      BY <1>1, <1>2, <2>1, FailsKeeps
  <1> QED
    BY <1>3, <1>4 DEF Commit

\* The push, which may land and fail.
LEMMA PushStays == ASSUME IInv, NEW c \in Callers, PushBranch(c) PROVE IInv'
  <1> DEFINE a == attempt[job[c].slot]
  <1>1. at[c] = "push" /\ HealFrame
    BY DEF PushBranch
  <1>2. /\ at[c] \in Working /\ a \in Attempt /\ a.dir = "there" /\ ~a.old
        /\ a.fails \cap a.tasks = {} /\ ~a.pr /\ a.changed
    BY <1>1, AtWork
  <1>3. ASSUME NEW b \in {"local", "pushed"}
        PROVE  LET left == [a EXCEPT !.branch = b] IN
               /\ left \in Attempt /\ left.dir = "there" /\ ~left.old /\ left.changed
               /\ left.fails \cap left.tasks = {} /\ ~left.pr /\ left.branch = b
    BY <1>2 DEF Attempt
  <1>4. CASE /\ attempt' = [attempt EXCEPT ![job[c].slot].branch = "pushed"]
             /\ GoOn(c, "pr")
    <2>1. Go(c, "pr") /\ job' = job /\ job' \in [Callers -> Job]
      BY <1>4 DEF GoOn, IInv, Typed
    <2>2. PICK left \in Attempt :
            /\ left.dir = "there" /\ ~left.old /\ left.changed /\ left.branch = "pushed"
            /\ left.fails \cap left.tasks = {} /\ ~left.pr
            /\ left = [a EXCEPT !.branch = "pushed"]
      BY <1>3
    <2>3. attempt' = [attempt EXCEPT ![job[c].slot] = left]
      BY <1>4, <1>2, <2>2, InHand DEF IInv, Typed
    <2>4. "pr" \in Steps
      BY DEF Steps, HealSteps
    <2> HIDE DEF a
    <2> QED
      BY <1>1, <1>2, <2>1, <2>2, <2>3, <2>4, Succeeds
  <1>5. ASSUME NEW b \in {"local", "pushed"},
               Fails(c, "push_failed", [a EXCEPT !.branch = b])
        PROVE  IInv'
    <2>1. PICK left \in Attempt :
            /\ left.dir = "there" /\ ~left.pr /\ left = [a EXCEPT !.branch = b]
      BY <1>3
    <2>2. Return(c, "push_failed", job[c].metered)
          /\ attempt' = [attempt EXCEPT ![job[c].slot] = Over(left)]
      BY <1>5, <2>1 DEF Fails
    <2> HIDE DEF a
    <2> QED
      BY <1>1, <1>2, <2>1, <2>2, FailsKeeps
  <1> QED
    BY <1>4, <1>5 DEF PushBranch

\* The PR, which may be opened and say it was not.
LEMMA OpenPrStays == ASSUME IInv, NEW c \in Callers, OpenPr(c) PROVE IInv'
  <1> DEFINE a == attempt[job[c].slot]
  <1>1. at[c] = "pr" /\ HealFrame
    BY DEF OpenPr
  <1>2. /\ at[c] \in Working /\ a \in Attempt /\ a.dir = "there" /\ ~a.old
        /\ a.fails \cap a.tasks = {} /\ a.changed /\ a.branch = "pushed"
    BY <1>1, AtWork
  <1>3. ASSUME NEW opened \in BOOLEAN
        PROVE  LET left == [a EXCEPT !.pr = opened] IN
               /\ left \in Attempt /\ left.dir = "there" /\ ~left.old /\ left.changed
               /\ left.fails \cap left.tasks = {} /\ left.branch = "pushed"
               /\ left.pr = opened
    BY <1>2 DEF Attempt
  <1>4. CASE /\ attempt' = [attempt EXCEPT ![job[c].slot].pr = TRUE]
             /\ GoOn(c, "remove")
    <2>1. Go(c, "remove") /\ job' = job /\ job' \in [Callers -> Job]
      BY <1>4 DEF GoOn, IInv, Typed
    <2>2. PICK left \in Attempt :
            /\ left.dir = "there" /\ ~left.old /\ left.changed /\ left.branch = "pushed"
            /\ left.fails \cap left.tasks = {} /\ left.pr
            /\ left = [a EXCEPT !.pr = TRUE]
      BY <1>3
    <2>3. attempt' = [attempt EXCEPT ![job[c].slot] = left]
      BY <1>4, <1>2, <2>2, InHand DEF IInv, Typed
    <2>4. "remove" \in Steps
      BY DEF Steps, HealSteps
    <2> HIDE DEF a
    <2> QED
      BY <1>1, <1>2, <2>1, <2>2, <2>3, <2>4, Succeeds
  <1>5. ASSUME NEW opened \in BOOLEAN, Fails(c, "pr_failed", [a EXCEPT !.pr = opened])
        PROVE  IInv'
    <2>1. PICK left \in Attempt :
            /\ left.dir = "there" /\ left.changed /\ left.branch = "pushed"
            /\ left.fails \cap left.tasks = {} /\ left = [a EXCEPT !.pr = opened]
      BY <1>3
    <2>2. Return(c, "pr_failed", job[c].metered)
          /\ attempt' = [attempt EXCEPT ![job[c].slot] = Over(left)]
      BY <1>5, <2>1 DEF Fails
    <2> HIDE DEF a
    <2> QED
      BY <1>1, <1>2, <2>1, <2>2, FailsKeeps
  <1> QED
    BY <1>4, <1>5 DEF OpenPr

\* Only a worktree whose work is in a PR is removed.
LEMMA RemoveStays == ASSUME IInv, NEW c \in Callers, Remove(c) PROVE IInv'
  <1>1. at[c] = "remove" /\ HealFrame /\ Return(c, "fixed", job[c].metered)
    BY DEF Remove
  <1>2. /\ at[c] \in Working /\ attempt[job[c].slot].pr
        /\ attempt[job[c].slot].fails \cap attempt[job[c].slot].tasks = {}
        /\ attempt[job[c].slot].changed /\ attempt[job[c].slot].branch = "pushed"
    BY <1>1, AtWork
  <1>3. PICK s \in Slots : s = job[c].slot
    BY <1>2, InHand
  <1>4. /\ at' \in [Callers -> Steps] /\ job' \in [Callers -> Job]
        /\ at'[c] \notin Working /\ job'[c].slot = NoSlot /\ OthersStay(c)
    BY <1>1, ReturnLetsGo DEF IInv
  <1>5. attempt[s] \in Attempt
    BY DEF IInv, Typed
  <1>6. \/ attempt' = attempt
        \/ attempt' = [attempt EXCEPT ![s].dir = "gone"]
    BY <1>3 DEF Remove
  <1>7. attempt' \in [Slots -> Attempt]
    BY <1>5, <1>6 DEF IInv, Typed, Attempt
  <1>8. Typed'
    BY <1>1, <1>4, <1>7 DEF IInv, Typed, HealFrame, world
  <1>9. attempt'[s].pr = attempt[s].pr /\ attempt'[s].changed = attempt[s].changed
        /\ attempt'[s].branch = attempt[s].branch /\ attempt'[s].fails = attempt[s].fails
        /\ attempt'[s].tasks = attempt[s].tasks
    BY <1>5, <1>6 DEF IInv, Typed, Attempt
  <1>10. Safe(s)'
    BY <1>2, <1>3, <1>9 DEF Safe
  <1>11. \A o \in Slots \ {s} : attempt'[o] = attempt[o]
    BY <1>6 DEF IInv, Typed
  <1>12. \A d \in Callers \ {c} : job[d].slot # s
    BY <1>2, <1>3, InHand
  <1> QED
    BY <1>4, <1>8, <1>10, <1>11, <1>12, EmptyHanded, OneSteps

\* The agent may do what it likes to the tree: there is no PR yet.
LEMMA AgentStays == ASSUME IInv, NEW c \in Callers, Agent(c) PROVE IInv'
  <1> DEFINE a == attempt[job[c].slot]
             edited(fails, changed) == [a EXCEPT !.fails = fails, !.changed = changed]
  <1>1. at[c] = "agent" /\ at[c] \in Working /\ Found(c) /\ HealFrame
    BY DEF Agent, Working, IInv, FoundAsLeft
  <1>2. a \in Attempt /\ a.dir = "there" /\ ~a.old /\ ~a.pr
    BY <1>1, InHand DEF Found, Working
  <1>3. PICK ok \in BOOLEAN, changed \in BOOLEAN, fails \in SUBSET Tasks,
             metered \in BOOLEAN :
          /\ attempt' = [attempt EXCEPT ![job[c].slot] =
                           IF ok THEN edited(fails, changed) ELSE Over(edited(fails, changed))]
          /\ IF ok THEN job' = [job EXCEPT ![c].metered = metered] /\ Go(c, "verify")
                   ELSE Return(c, "agent_failed", metered)
    BY DEF Agent
  <1>4. PICK left \in Attempt :
          left = edited(fails, changed) /\ left.dir = "there" /\ ~left.old /\ ~left.pr
    <2>1. ASSUME NEW b \in Attempt, b.dir = "there", ~b.old, ~b.pr
          PROVE  LET e == [b EXCEPT !.fails = fails, !.changed = changed] IN
                 e \in Attempt /\ e.dir = "there" /\ ~e.old /\ ~e.pr
      BY <2>1 DEF Attempt
    <2> QED
      BY <1>2, <2>1
  <1>5. CASE ok
    <2>1. Go(c, "verify") /\ attempt' = [attempt EXCEPT ![job[c].slot] = left]
          /\ job' = [job EXCEPT ![c].metered = metered]
      BY <1>3, <1>4, <1>5
    <2>2. /\ job' \in [Callers -> Job] /\ job'[c].slot = job[c].slot
          /\ \A d \in Callers \ {c} : job'[d] = job[d]
      BY <2>1 DEF IInv, Typed, Job
    <2>3. "verify" \in Steps
      BY DEF Steps, HealSteps
    <2> QED
      BY <1>1, <1>4, <2>1, <2>2, <2>3, Succeeds
  <1>6. CASE ~ok
    <2>1. Return(c, "agent_failed", metered)
          /\ attempt' = [attempt EXCEPT ![job[c].slot] = Over(left)]
      BY <1>3, <1>4, <1>6
    <2> QED
      BY <1>1, <1>4, <2>1, FailsKeeps
  <1> QED
    BY <1>5, <1>6

\* A worktree is cut in a slot that is in nobody's hands.
LEMMA CutStays == ASSUME IInv, NEW c \in Callers, Cut(c) PROVE IInv'
  <1>1. at[c] = "cut" /\ HealFrame
    BY DEF Cut
  <1>2. CASE Return(c, "worktree_failed", FALSE) /\ UNCHANGED attempt
    <2>1. /\ at' \in [Callers -> Steps] /\ job' \in [Callers -> Job]
          /\ at'[c] \notin Working /\ job'[c].slot = NoSlot /\ OthersStay(c)
      BY <1>2, ReturnLetsGo DEF IInv
    <2>2. Typed'
      BY <1>1, <1>2, <2>1 DEF IInv, Typed, HealFrame, world
    <2> QED
      BY <1>2, <2>1, <2>2, LetsGo
  <1>3. ASSUME NEW s \in Free, job' = [job EXCEPT ![c].slot = s], Go(c, "agent"),
               attempt' = [attempt EXCEPT ![s] =
                 [Unused(job[c].project) EXCEPT !.dir = "there", !.tasks = job[c].failing,
                    !.fails = head[job[c].project], !.branch = "local"]]
        PROVE  IInv'
    <2>1. s \in Slots /\ s \notin Held
      BY DEF Free
    <2>2. \A d \in Callers : job[d].slot # s
      BY <2>1, NoSlotIsNone DEF Held
    <2>3. job[c] \in Job /\ head[job[c].project] \in SUBSET Tasks
      BY DEF IInv, Typed, Job
    <2>4. PICK a \in Attempt :
            /\ a = [Unused(job[c].project) EXCEPT !.dir = "there", !.tasks = job[c].failing,
                      !.fails = head[job[c].project], !.branch = "local"]
            /\ a.dir = "there" /\ ~a.old /\ ~a.pr
      <3>1. ASSUME NEW p \in Projects, NEW tasks \in SUBSET Tasks, NEW fails \in SUBSET Tasks
            PROVE  LET e == [Unused(p) EXCEPT !.dir = "there", !.tasks = tasks,
                                              !.fails = fails, !.branch = "local"]
                   IN  e \in Attempt /\ e.dir = "there" /\ ~e.old /\ ~e.pr
        BY DEF Attempt, Unused
      <3>2. job[c].project \in Projects /\ job[c].failing \in SUBSET Tasks
        BY <2>3 DEF Job
      <3> QED
        BY <2>3, <3>1, <3>2
    <2>5. attempt' = [attempt EXCEPT ![s] = a]
      BY <1>3, <2>4
    <2>6. attempt' \in [Slots -> Attempt] /\ attempt'[s] = a
          /\ \A o \in Slots \ {s} : attempt'[o] = attempt[o]
      BY <2>1, <2>5 DEF IInv, Typed
    <2>7. /\ job' \in [Callers -> Job] /\ job'[c].slot = s
          /\ \A d \in Callers \ {c} : job'[d] = job[d]
      BY <1>3, <2>1 DEF IInv, Typed, Job
    <2>8. at' \in [Callers -> Steps] /\ at'[c] = "agent" /\ OthersStay(c)
      BY <1>3, <2>7 DEF IInv, Typed, Go, OthersStay, Steps, HealSteps
    <2>9. Typed'
      BY <1>1, <2>6, <2>7, <2>8 DEF IInv, Typed, HealFrame, world
    <2>10. Found(c)' /\ Safe(s)'
      BY <2>1, <2>4, <2>6, <2>7, <2>8, NoSlotIsNone DEF Found, Working, Safe
    <2> QED
      BY <2>1, <2>2, <2>6, <2>7, <2>8, <2>9, <2>10, OneSteps
  <1> QED
    BY <1>2, <1>3 DEF Cut

\* Retention takes only what is old, and what is in a caller's hands is not.
LEMMA HealStays == ASSUME IInv, NEW c \in Callers, Heal(c) PROVE IInv'
  <1> DEFINE p == job[c].project
  <1>1. at[c] = "heal" /\ HealFrame
    BY DEF Heal
  <1>2. ASSUME NEW status, Return(c, status, FALSE), UNCHANGED attempt PROVE IInv'
    <2>1. /\ at' \in [Callers -> Steps] /\ job' \in [Callers -> Job]
          /\ at'[c] \notin Working /\ job'[c].slot = NoSlot /\ OthersStay(c)
      BY <1>2, ReturnLetsGo DEF IInv
    <2>2. Typed'
      BY <1>1, <1>2, <2>1 DEF IInv, Typed, HealFrame, world
    <2> QED
      BY <1>2, <2>1, <2>2, LetsGo
  <1>3. ASSUME NEW left \in SUBSET Expired(p), GoOn(c, "cut"),
               attempt' = [s \in Slots |->
                      IF s \in Expired(p) \ left THEN [attempt[s] EXCEPT !.dir = "gone"]
                                                 ELSE attempt[s]]
        PROVE  IInv'
    <2>1. /\ at' \in [Callers -> Steps] /\ job' = job /\ at'[c] = "cut" /\ OthersStay(c)
      BY <1>3, GoOnMoves DEF IInv, Steps, HealSteps
    <2>2. \A s \in Slots : attempt[s] \in Attempt
      BY DEF IInv, Typed
    <2>3. ASSUME NEW s \in Slots
          PROVE  /\ attempt'[s] \in Attempt
                 /\ attempt'[s] = attempt[s] \/ attempt[s].old
                 /\ attempt'[s].old = attempt[s].old /\ attempt'[s].pr = attempt[s].pr
                 /\ attempt'[s].changed = attempt[s].changed
                 /\ attempt'[s].branch = attempt[s].branch
                 /\ attempt'[s].fails = attempt[s].fails
                 /\ attempt'[s].tasks = attempt[s].tasks
      BY <1>3, <2>2, <2>3 DEF Expired, Attempt
    <2>4. Typed'
      <3>1. attempt' \in [Slots -> Attempt]
        BY <1>3, <2>3
      <3> QED
        BY <1>1, <2>1, <3>1 DEF IInv, Typed, HealFrame, world
    <2>5. HeldOnce'
      BY <2>1 DEF IInv, HeldOnce
    <2>6. ASSUME NEW d \in Callers PROVE Found(d)'
      <3>1. Found(d) /\ job'[d] = job[d] /\ job[d].slot \in Slots \cup {NoSlot}
        BY <2>1 DEF IInv, Typed, FoundAsLeft, Job
      <3>2. at'[d] = at[d] \/ at'[d] = "cut"
        BY <2>1 DEF OthersStay
      <3>3. CASE job[d].slot = NoSlot
        BY <3>1, <3>2, <3>3 DEF Found, Working
      <3>4. CASE job[d].slot \in Slots
        <4>1. attempt'[job[d].slot] = attempt[job[d].slot]
          BY <2>3, <3>1, <3>4, NoSlotIsNone DEF Found
        <4> QED
          BY <3>1, <3>2, <4>1 DEF Found, Working
      <3> QED
        BY <3>1, <3>3, <3>4
    <2>7. WorkIsKept' /\ LandedIsVerified'
      BY <2>3 DEF IInv, WorkIsKept, LandedIsVerified
    <2> QED
      BY <2>4, <2>5, <2>6, <2>7 DEF IInv, FoundAsLeft
  <1>4. \/ \E status \in Statuses : Return(c, status, FALSE) /\ UNCHANGED attempt
        \/ \E left \in SUBSET Expired(p) :
             /\ attempt' = [s \in Slots |->
                      IF s \in Expired(p) \ left THEN [attempt[s] EXCEPT !.dir = "gone"]
                                                 ELSE attempt[s]]
             /\ GoOn(c, "cut")
    BY DEF Heal, Statuses
  <1> QED
    BY <1>2, <1>3, <1>4

\* Every step of heal_project keeps the invariant.
LEMMA HealStepStays == ASSUME IInv, NEW c \in Callers, HealStep(c) PROVE IInv'
  BY HealStays, CutStays, AgentStays, VerifyStays, CommitStays, PushStays, OpenPrStays,
     RemoveStays DEF HealStep

-----------------------------------------------------------------------------
(* The steps of the pass and of the dashboard: no attempt is touched.        *)

\* A step of c that leads to no work, and that takes nothing in hand.
LEMMA Elsewhere ==
  ASSUME IInv, NEW c \in Callers, Typed', OthersStay(c), UNCHANGED attempt,
         at'[c] \notin Working,
         job'[c].slot \in {NoSlot, job[c].slot}
  PROVE  IInv'
  <1>1. job[c].slot \in Slots \cup {NoSlot}
    BY DEF IInv, Typed, Job
  <1>2. PICK t \in Slots \cup {NoSlot} : t = job[c].slot
    BY <1>1
  <1>3. \A d \in Callers \ {c} : t # NoSlot => job[d].slot # t
    BY <1>2 DEF IInv, HeldOnce
  <1>4. Found(c)'
    BY DEF IInv, FoundAsLeft, Found, Working
  <1>5. t # NoSlot => Safe(t)'
    BY <1>1, <1>2 DEF IInv, WorkIsKept, LandedIsVerified, Safe
  <1> QED
    BY <1>2, <1>3, <1>4, <1>5, OneSteps

\* The pass is one of the callers.
LEMMA PassCaller == Pass \in Callers
  BY DEF Callers

\* The pass' own steps.
LEMMA PassStays == ASSUME IInv, PassStep \/ PassKilled PROVE IInv'
  <1>0. Pass \in Callers /\ \A step : Go(Pass, step) => at' = [at EXCEPT ![Pass] = step]
    BY PassCaller DEF Go
  <1>1. CASE BeginPass
    <2>1. PICK cached \in BOOLEAN, saved \in BOOLEAN :
            LET seen == IF cached THEN cache ELSE clone IN
            /\ cache' = IF saved THEN seen ELSE cache
            /\ ResetPass({p \in Projects : seen[p] # {}}, seen)
      BY <1>1 DEF BeginPass
    <2>2. /\ cache' \in [Projects -> SUBSET Tasks] /\ targets' \in [Projects -> SUBSET Tasks]
          /\ queue' \subseteq Projects
      BY <2>1 DEF ResetPass, IInv, Typed
    <2>3. /\ at[Pass] = "idle" /\ at' = [at EXCEPT ![Pass] = "next"]
          /\ UNCHANGED <<head, clone, attempt, job>>
      BY <1>0, <1>1 DEF BeginPass
    <2>4. Typed' /\ OthersStay(Pass) /\ at'[Pass] = "next"
      BY <1>0, <2>2, <2>3 DEF IInv, Typed, Steps, OthersStay
    <2> QED
      BY <1>0, <2>3, <2>4, Elsewhere DEF Working
  <1>2. CASE Consider
    <2>1. PICK p \in queue :
            /\ queue' = queue \ {p} /\ at[Pass] = "next"
            /\ \/ UNCHANGED <<at, job>>
               \/ /\ job' = [job EXCEPT ![Pass] = [NoJob(p) EXCEPT !.failing = targets[p]]]
                  /\ at' = [at EXCEPT ![Pass] = "heal"]
      BY <1>0, <1>2 DEF Consider
    <2>2. UNCHANGED <<head, clone, cache, attempt, targets>>
      BY <1>2 DEF Consider, world
    <2>3. p \in Projects /\ targets[p] \in SUBSET Tasks
      BY <2>1 DEF IInv, Typed
    <2>4. /\ [NoJob(p) EXCEPT !.failing = targets[p]] \in Job
          /\ [NoJob(p) EXCEPT !.failing = targets[p]].slot = NoSlot
      BY <2>3 DEF NoJob, Job
    <2>5. job' \in [Callers -> Job] /\ job'[Pass].slot \in {NoSlot, job[Pass].slot}
      BY <1>0, <2>1, <2>4 DEF IInv, Typed
    <2>6. at' \in [Callers -> Steps] /\ at'[Pass] \in {"next", "heal"}
      BY <1>0, <2>1 DEF IInv, Typed, Steps, HealSteps
    <2>7. Typed' /\ OthersStay(Pass)
      BY <1>0, <2>1, <2>2, <2>5, <2>6 DEF IInv, Typed, OthersStay
    <2> QED
      BY <1>0, <2>1, <2>2, <2>5, <2>6, <2>7, Elsewhere DEF Working
  <1>3. CASE Report
    <2>1. /\ at[Pass] = "next" /\ at' = [at EXCEPT ![Pass] = "report"]
          /\ UNCHANGED <<head, clone, cache, attempt, job, queue, targets>>
      BY <1>0, <1>3 DEF Report, world, pass
    <2>2. Typed' /\ OthersStay(Pass) /\ at'[Pass] = "report"
      BY <1>0, <2>1 DEF IInv, Typed, Steps, OthersStay
    <2> QED
      BY <1>0, <2>1, <2>2, Elsewhere DEF Working
  <1>4. CASE EndPass
    <2>1. /\ at[Pass] = "report" /\ at' = [at EXCEPT ![Pass] = "idle"]
          /\ queue' = {} /\ targets' \in [Projects -> SUBSET Tasks]
          /\ UNCHANGED <<head, clone, cache, attempt, job>>
      BY <1>0, <1>4 DEF EndPass, world, ResetPass
    <2>2. Typed' /\ OthersStay(Pass) /\ at'[Pass] = "idle"
      BY <1>0, <2>1 DEF IInv, Typed, Steps, OthersStay
    <2> QED
      BY <1>0, <2>1, <2>2, Elsewhere DEF Working
  <1>5. CASE PassKilled
    <2>1. /\ at' = [at EXCEPT ![Pass] = "idle"]
          /\ job' = [job EXCEPT ![Pass] = NoJob(Someone)]
          /\ queue' = {} /\ targets' \in [Projects -> SUBSET Tasks]
          /\ UNCHANGED <<head, clone, cache, attempt>>
      BY <1>0, <1>5 DEF PassKilled, world, ResetPass
    <2>2. job' \in [Callers -> Job] /\ job'[Pass].slot = NoSlot
      BY <1>0, <2>1, NoJobTyped DEF IInv, Typed, NoJob
    <2>3. Typed' /\ OthersStay(Pass) /\ at'[Pass] = "idle"
      BY <1>0, <2>1, <2>2 DEF IInv, Typed, Steps, OthersStay
    <2> QED
      BY <1>0, <2>1, <2>2, <2>3, LetsGo DEF Working
  <1> QED
    BY <1>1, <1>2, <1>3, <1>4, <1>5 DEF PassStep

\* An action's thread begins, runs the gates, or is settled as an error.
LEMMA ActionStays ==
  ASSUME IInv, NEW p \in Clicked,
         Post(p, "recheck") \/ Post(p, "collect") \/ CollectGates(p) \/ Raises(p)
  PROVE  IInv'
  <1>0. p \in Callers /\ p \in Projects
    BY HealAssumption DEF Callers
  <1>1. ASSUME NEW step \in {"recheck", "collect"}, Post(p, step) PROVE IInv'
    <2>1. /\ at' = [at EXCEPT ![p] = step] \/ UNCHANGED at
          /\ UNCHANGED <<head, clone, cache, attempt, job, queue, targets>>
      BY <1>1 DEF Post, Go, world, pass
    <2>2. Typed' /\ OthersStay(p)
      BY <1>0, <2>1 DEF IInv, Typed, Steps, OthersStay
    <2>3. CASE at' = [at EXCEPT ![p] = step]
      <3>1. at'[p] = step
        BY <1>0, <2>3 DEF IInv, Typed
      <3> QED
        BY <1>0, <2>1, <2>2, <3>1, Elsewhere DEF Working
    <2>4. CASE UNCHANGED at
      BY <2>1, <2>4 DEF IInv, Typed, HeldOnce, FoundAsLeft, Found, WorkIsKept, LandedIsVerified
    <2> QED
      BY <2>1, <2>3, <2>4
  <1>2. CASE CollectGates(p)
    <2>1. PICK saved \in BOOLEAN : cache' = IF saved THEN [cache EXCEPT ![p] = clone[p]] ELSE cache
      BY <1>2 DEF CollectGates
    <2>2. cache' \in [Projects -> SUBSET Tasks]
      BY <1>0, <2>1 DEF IInv, Typed
    <2>3. UNCHANGED <<head, clone, attempt, queue, targets>>
      BY <1>2 DEF CollectGates, pass
    <2>4. \/ /\ at' = [at EXCEPT ![p] = "idle"] /\ job' = [job EXCEPT ![p] = NoJob(Someone)]
          \/ /\ at' = [at EXCEPT ![p] = "heal"]
             /\ job' = [job EXCEPT ![p] = [NoJob(p) EXCEPT !.failing = clone[p]]]
      BY <1>2 DEF CollectGates, Settle, Go
    <2>5. [NoJob(p) EXCEPT !.failing = clone[p]] \in Job
          /\ [NoJob(p) EXCEPT !.failing = clone[p]].slot = NoSlot
      BY <1>0 DEF IInv, Typed, NoJob, Job
    <2>6. NoJob(Someone) \in Job /\ NoJob(Someone).slot = NoSlot
      BY NoJobTyped DEF NoJob
    <2>7. job' \in [Callers -> Job] /\ job'[p].slot = NoSlot
      BY <1>0, <2>4, <2>5, <2>6 DEF IInv, Typed
    <2>8. at' \in [Callers -> Steps] /\ at'[p] \in {"idle", "heal"} /\ OthersStay(p)
      BY <1>0, <2>4 DEF IInv, Typed, Steps, HealSteps, OthersStay
    <2>9. Typed'
      BY <2>2, <2>3, <2>7, <2>8 DEF IInv, Typed
    <2> QED
      BY <1>0, <2>3, <2>7, <2>8, <2>9, LetsGo DEF Working
  <1>3. CASE Raises(p)
    <2>1. /\ at' = [at EXCEPT ![p] = "idle"] /\ job' = [job EXCEPT ![p] = NoJob(Someone)]
          /\ UNCHANGED <<head, clone, cache, attempt, queue, targets>>
      BY <1>3 DEF Raises, Settle, Go, world, pass
    <2>2. job' \in [Callers -> Job] /\ job'[p].slot = NoSlot
      BY <1>0, <2>1, NoJobTyped DEF IInv, Typed, NoJob
    <2>3. Typed' /\ OthersStay(p) /\ at'[p] = "idle"
      BY <1>0, <2>1, <2>2 DEF IInv, Typed, Steps, OthersStay
    <2> QED
      BY <1>0, <2>1, <2>2, <2>3, LetsGo DEF Working
  <1> QED
    BY <1>1, <1>2, <1>3

\* The dashboard stops with its threads, and starts with none.
LEMMA ServerStays == ASSUME IInv, ServerStops \/ ServerStarts PROVE IInv'
  <1>1. CASE ServerStops
    <2>1. /\ at' = [c \in Callers |-> IF c = Pass THEN at[c] ELSE "idle"]
          /\ job' = [c \in Callers |-> IF c = Pass THEN job[c] ELSE NoJob(Someone)]
          /\ UNCHANGED <<head, clone, cache, attempt, queue, targets>>
      BY <1>1 DEF ServerStops, world, pass
    <2>2. Typed'
      BY <2>1, NoJobTyped DEF IInv, Typed, Steps
    <2>3. \A c \in Callers : \/ at'[c] = at[c] /\ job'[c] = job[c]
                             \/ c # Pass /\ at'[c] = "idle" /\ job'[c].slot = NoSlot
      BY <2>1 DEF NoJob
    <2>4. HeldOnce'
      BY <2>3 DEF IInv, HeldOnce
    <2>5. FoundAsLeft'
      BY <2>1, <2>3 DEF IInv, FoundAsLeft, Found, Working
    <2> QED
      BY <2>1, <2>2, <2>4, <2>5 DEF IInv, WorkIsKept, LandedIsVerified
  <1>2. CASE ServerStarts
    BY <1>2 DEF ServerStarts, world, pass, IInv, Typed, HeldOnce, FoundAsLeft, Found,
                WorkIsKept, LandedIsVerified
  <1> QED
    BY <1>1, <1>2

\* Only what is in nobody's hands grows old.
LEMMA AgeStays == ASSUME IInv, NEW s \in Slots, Age(s) PROVE IInv'
  <1>1. /\ s \notin Held /\ attempt' = [attempt EXCEPT ![s].old = TRUE]
        /\ UNCHANGED <<head, clone, cache, at, job, queue, targets>>
    BY DEF Age, world, pass
  <1>2. \A c \in Callers : job[c].slot # s
    BY <1>1, NoSlotIsNone DEF Held
  <1>3. attempt[s] \in Attempt
    BY DEF IInv, Typed
  <1>4. /\ attempt' \in [Slots -> Attempt]
        /\ \A o \in Slots \ {s} : attempt'[o] = attempt[o]
        /\ attempt'[s] = [attempt[s] EXCEPT !.old = TRUE]
    BY <1>1, <1>3 DEF IInv, Typed, Attempt
  <1>5. Typed' /\ HeldOnce'
    BY <1>1, <1>4 DEF IInv, Typed, HeldOnce
  <1>6. ASSUME NEW c \in Callers PROVE Found(c)'
    <2>1. Found(c) /\ job[c].slot \in Slots \cup {NoSlot}
      BY DEF IInv, Typed, FoundAsLeft, Job
    <2>2. CASE job[c].slot = NoSlot
      BY <1>1, <2>1, <2>2 DEF Found, Working
    <2>3. CASE job[c].slot \in Slots
      <3>1. attempt'[job[c].slot] = attempt[job[c].slot]
        BY <1>2, <1>4, <2>3
      <3> QED
        BY <1>1, <2>1, <3>1 DEF Found
    <2> QED
      BY <2>1, <2>2, <2>3
  <1>7. /\ attempt'[s].old /\ attempt'[s].pr = attempt[s].pr
        /\ attempt'[s].changed = attempt[s].changed /\ attempt'[s].branch = attempt[s].branch
        /\ attempt'[s].fails = attempt[s].fails /\ attempt'[s].tasks = attempt[s].tasks
    BY <1>3, <1>4 DEF Attempt
  <1>8. ASSUME NEW o \in Slots PROVE Safe(o)'
    <2>1. Safe(o)
      BY DEF IInv, WorkIsKept, LandedIsVerified, Safe
    <2>2. CASE o = s
      BY <1>7, <2>1, <2>2 DEF Safe
    <2>3. CASE o # s
      BY <1>4, <2>1, <2>3 DEF Safe
    <2> QED
      BY <2>2, <2>3
  <1>9. WorkIsKept' /\ LandedIsVerified'
    BY <1>8 DEF Safe, WorkIsKept, LandedIsVerified
  <1> QED
    BY <1>5, <1>6, <1>9 DEF IInv, FoundAsLeft

-----------------------------------------------------------------------------

\* Every step keeps the invariant, stuttering included.
LEMMA NextIInv == IInv /\ [Next]_vars => IInv'
  <1> SUFFICES ASSUME IInv, [Next]_vars PROVE IInv'
    OBVIOUS
  <1>1. CASE UNCHANGED vars
    BY <1>1 DEF vars, world, pass, IInv, Typed, HeldOnce, FoundAsLeft, Found, WorkIsKept,
                LandedIsVerified
  <1> QED
    BY <1>1, HealStepStays, PassStays, ActionStays, ServerStays, AgeStays DEF Next

\* Every reachable state satisfies the invariant.
THEOREM Invariance == Spec => []IInv
  BY InitIInv, NextIInv, PTL DEF Spec

\* heal_project, prune_expired and worktree.remove: what an agent was paid for is
\* never deleted before it is in a draft PR or its retention has expired, whatever
\* fails, is killed or heals the same project at the same time.
THEOREM WorkIsKeptHolds == Spec => []WorkIsKept
  <1>1. IInv => WorkIsKept
    BY DEF IInv
  <1> QED
    BY <1>1, Invariance, PTL

\* heal_project's re-verification: a PR heal opened is on a pushed branch, changes
\* something, and the gates it was opened for pass in it.
THEOREM LandedIsVerifiedHolds == Spec => []LandedIsVerified
  <1>1. IInv => LandedIsVerified
    BY DEF IInv
  <1> QED
    BY <1>1, Invariance, PTL

-----------------------------------------------------------------------------
(* The ledger of the pass.                                                 *)

\* The project the pass heals, those it has a result for, and those an agent was paid
\* or a worktree was asked for.
Trying == IF at[Pass] \in HealSteps THEN {job[Pass].project} ELSE {}
Tried  == {p \in Projects : result[p].status # "none"}
Paid   == {p \in Projects : result[p].status \notin {"none", "notified"}}

Price(metered) == IF metered THEN "metered" ELSE "unmetered"

\* Each project that was failing is in one place.
Sorted ==
  /\ queue \cup Trying \cup Tried \cup deferred = {p \in Projects : targets[p] # {}}
  /\ queue \cap (Trying \cup Tried \cup deferred) = {} /\ Trying \cap (Tried \cup deferred) = {}
  /\ Tried \cap deferred = {}
  /\ at[Pass] = "report" => queue = {}

\* What a project's result says of its agent, and the slot and agent of the one at hand.
Priced ==
  /\ \A p \in Projects \ (Tried \cup Trying) : launched[p] = "no"
  /\ \A p \in Projects \ Tried : ~result[p].metered
  /\ \A p \in Tried : IF result[p].status \in PreAgentStatuses
                      THEN launched[p] = "no" /\ ~result[p].metered
                      ELSE launched[p] = Price(result[p].metered)
  /\ \A p \in Trying : launched[p] = IF at[Pass] \in {"heal", "cut", "agent"} THEN "no"
                                     ELSE Price(job[Pass].metered)

\* The limit leaves room for the attempt under way.
WithinLimit ==
  /\ Cardinality(Paid) <= Limit
  /\ Trying # {} => \/ Cardinality(Paid) < Limit
                    \/ ModeOf(Pass, job[Pass].project) = "notify" /\ at[Pass] = "heal"
  /\ Trying # {} => job[Pass].failing # {}

LedgerTyped ==
  /\ result \in [Projects -> [status : Statuses, metered : BOOLEAN]]
  /\ launched \in [Projects -> {"no", "metered", "unmetered"}]
  /\ deferred \subseteq Projects

Ledger == LedgerTyped /\ Sorted /\ Priced /\ WithinLimit

\* The paid runs of a finite fleet can be counted.
LEMMA PaidIsFinite ==
  ASSUME LedgerTyped
  PROVE  IsFiniteSet(Paid) /\ Cardinality(Paid) \in Nat
  BY FS_Subset, FS_CardinalityType, HealAssumption DEF Paid

\* A step that is not the pass' leaves its ledger alone.
LEMMA LedgerStands ==
  ASSUME Ledger, UNCHANGED pass, at'[Pass] = at[Pass], job'[Pass] = job[Pass]
  PROVE  Ledger'
  <1>1. UNCHANGED <<queue, targets, result, deferred, launched>>
    BY DEF pass
  <1>2. Trying' = Trying /\ Tried' = Tried /\ Paid' = Paid
    BY <1>1 DEF Trying, Tried, Paid
  <1>3. ModeOf(Pass, job[Pass].project)' = ModeOf(Pass, job[Pass].project)
    BY DEF ModeOf
  <1>4. LedgerTyped' /\ Sorted'
    BY <1>1, <1>2 DEF Ledger, LedgerTyped, Sorted
  <1>5. Priced'
    BY <1>1, <1>2 DEF Ledger, Priced
  <1>6. WithinLimit'
    BY <1>1, <1>2, <1>3 DEF Ledger, WithinLimit
  <1> QED
    BY <1>4, <1>5, <1>6 DEF Ledger

\* The pass goes on with the project at hand.
LEMMA LedgerGoesOn ==
  ASSUME Ledger, Pass \in Callers, at[Pass] \in HealSteps, at'[Pass] \in HealSteps \ {"heal"},
         job[Pass].project \in Projects,
         job'[Pass].project = job[Pass].project, job'[Pass].failing = job[Pass].failing,
         UNCHANGED <<queue, targets, result, deferred>>,
         launched' \in [Projects -> {"no", "metered", "unmetered"}],
         \A q \in Projects \ {job[Pass].project} : launched'[q] = launched[q],
         launched'[job[Pass].project] = IF at'[Pass] \in {"heal", "cut", "agent"} THEN "no"
                                        ELSE Price(job'[Pass].metered),
         Cardinality(Paid) < Limit
  PROVE  Ledger'
  <1>1. Trying = {job[Pass].project} /\ Trying' = Trying /\ Tried' = Tried /\ Paid' = Paid
    BY DEF Trying, Tried, Paid
  <1>2. LedgerTyped'
    BY DEF Ledger, LedgerTyped
  <1>3. Sorted'
    BY <1>1 DEF Ledger, Sorted, HealSteps
  <1>4. Priced'
    <2>1. job[Pass].project \notin Tried /\ Priced
      BY <1>1 DEF Ledger, Sorted
    <2>2. \A p \in Projects \ (Tried \cup Trying) : launched'[p] = "no"
      BY <1>1, <2>1 DEF Priced
    <2>3. \A p \in Tried : launched'[p] = launched[p]
      BY <2>1 DEF Tried
    <2>4. \A p \in Trying : launched'[p] = IF at'[Pass] \in {"heal", "cut", "agent"} THEN "no"
                                           ELSE Price(job'[Pass].metered)
      BY <1>1
    <2> QED
      BY <1>1, <2>1, <2>2, <2>3, <2>4 DEF Priced
  <1>5. WithinLimit'
    BY <1>1 DEF Ledger, WithinLimit
  <1> QED
    BY <1>2, <1>3, <1>4, <1>5 DEF Ledger

\* The pass has a result for the project at hand.
LEMMA LedgerReturns ==
  ASSUME Ledger, at[Pass] \in HealSteps, at'[Pass] = "next",
         job[Pass].project \in Projects,
         NEW status \in Statuses \ {"none"}, NEW metered \in BOOLEAN,
         result' = [result EXCEPT ![job[Pass].project] = [status |-> status, metered |-> metered]],
         UNCHANGED <<queue, targets, deferred>>,
         launched' \in [Projects -> {"no", "metered", "unmetered"}],
         \A q \in Projects \ {job[Pass].project} : launched'[q] = launched[q],
         IF status \in PreAgentStatuses THEN launched'[job[Pass].project] = "no" /\ ~metered
                                        ELSE launched'[job[Pass].project] = Price(metered),
         status = "notified" \/ Cardinality(Paid) < Limit
  PROVE  Ledger'
  <1> DEFINE p == job[Pass].project
  <1>0. LedgerTyped /\ Sorted /\ Priced /\ WithinLimit
    BY DEF Ledger
  <1>1. Trying = {p} /\ Trying' = {}
    BY DEF Trying, HealSteps
  <1>2. result'[p].status = status /\ result'[p].metered = metered
        /\ \A q \in Projects \ {p} : result'[q] = result[q]
    BY <1>0 DEF LedgerTyped
  <1>3. Tried' = Tried \cup {p} /\ p \notin Tried
    BY <1>0, <1>1, <1>2 DEF Tried, Sorted
  <1>4. LedgerTyped'
    <2>1. [status |-> status, metered |-> metered] \in [status : Statuses, metered : BOOLEAN]
      OBVIOUS
    <2> QED
      BY <1>0, <2>1 DEF LedgerTyped
  <1>5. Sorted'
    BY <1>0, <1>1, <1>3 DEF Sorted
  <1>6. Priced'
    <2>1. \A q \in Projects \ (Tried' \cup Trying') : launched'[q] = "no"
      BY <1>0, <1>1, <1>3 DEF Priced
    <2>2. \A q \in Projects \ Tried' : ~result'[q].metered
      BY <1>0, <1>2, <1>3 DEF Priced
    <2>3. \A q \in Tried : result'[q] = result[q] /\ launched'[q] = launched[q]
      BY <1>2, <1>3 DEF Tried
    <2>4. \A q \in Tried' : IF result'[q].status \in PreAgentStatuses
                           THEN launched'[q] = "no" /\ ~result'[q].metered
                           ELSE launched'[q] = Price(result'[q].metered)
      <3>1. ASSUME NEW q \in Tried
            PROVE  IF result'[q].status \in PreAgentStatuses
                   THEN launched'[q] = "no" /\ ~result'[q].metered
                   ELSE launched'[q] = Price(result'[q].metered)
        BY <1>0, <2>3 DEF Priced
      <3> QED
        BY <1>2, <1>3, <3>1
    <2> QED
      BY <1>1, <2>1, <2>2, <2>4 DEF Priced
  <1>7. Cardinality(Paid') <= Limit
    <2>1. CASE status = "notified"
      <3>1. Paid' = Paid
        BY <1>2, <1>3, <2>1 DEF Paid, Tried
      <3> QED
        BY <1>0, <3>1 DEF WithinLimit
    <2>2. CASE status # "notified"
      <3>1. Paid' = Paid \cup {p} /\ p \notin Paid
        BY <1>2, <1>3, <2>2 DEF Paid, Tried
      <3>2. Cardinality(Paid') = Cardinality(Paid) + 1 /\ Cardinality(Paid) \in Nat
        BY <1>0, <3>1, PaidIsFinite, FS_AddElement
      <3>3. Limit \in Nat
        BY HealAssumption
      <3> QED
        BY <2>2, <3>2, <3>3
    <2> QED
      BY <2>1, <2>2
  <1>8. WithinLimit'
    BY <1>1, <1>7 DEF WithinLimit
  <1> QED
    BY <1>4, <1>5, <1>6, <1>8 DEF Ledger

\* The project at hand, and what the ledger knows of it.
LEMMA AtHand ==
  ASSUME Typed, Ledger, at[Pass] \in HealSteps
  PROVE  /\ job[Pass] \in Job /\ job[Pass].project \in Projects /\ Trying = {job[Pass].project}
         /\ job[Pass].failing # {}
         /\ at[Pass] # "heal" => Cardinality(Paid) < Limit
         /\ launched[job[Pass].project] = IF at[Pass] \in {"heal", "cut", "agent"} THEN "no"
                                          ELSE Price(job[Pass].metered)
  <1>1. job[Pass] \in Job
    BY PassCaller DEF Typed
  <1>2. job[Pass].project \in Projects
    BY <1>1 DEF Job
  <1>3. Trying = {job[Pass].project}
    BY DEF Trying
  <1> QED
    BY <1>1, <1>2, <1>3 DEF Ledger, Priced, WithinLimit

\* A return of the pass before its agent, or after it with what the agent cost.
LEMMA PassReturns ==
  ASSUME Typed, Ledger, at[Pass] \in HealSteps, NEW status \in Statuses \ {"none"},
         NEW metered \in BOOLEAN, Return(Pass, status, metered), HealFrame, UNCHANGED launched,
         \/ status \in PreAgentStatuses /\ at[Pass] \in {"heal", "cut"} /\ ~metered
         \/ /\ status \notin PreAgentStatuses /\ at[Pass] \notin {"heal", "cut", "agent"}
            /\ metered = job[Pass].metered,
         status = "notified" \/ at[Pass] # "heal"
  PROVE  Ledger'
  <1>1. /\ result' = [result EXCEPT ![job[Pass].project] = [status |-> status, metered |-> metered]]
        /\ at'[Pass] = "next" /\ UNCHANGED <<queue, targets, deferred>>
    BY PassCaller DEF Return, Go, Typed, HealFrame
  <1>2. launched' \in [Projects -> {"no", "metered", "unmetered"}]
    BY DEF Ledger, LedgerTyped
  <1>3. IF status \in PreAgentStatuses THEN launched'[job[Pass].project] = "no" /\ ~metered
                                       ELSE launched'[job[Pass].project] = Price(metered)
    BY AtHand
  <1> QED
    BY <1>1, <1>2, <1>3, AtHand, LedgerReturns

\* A failure after the agent.
LEMMA PassFails ==
  ASSUME Typed, Ledger, at[Pass] \in {"verify", "commit", "push", "pr"},
         NEW status \in {"verify_failed", "branch_failed", "push_failed", "pr_failed"}, NEW left,
         Fails(Pass, status, left), HealFrame, UNCHANGED launched
  PROVE  Ledger'
  <1>1. job[Pass].metered \in BOOLEAN /\ at[Pass] \in HealSteps
    BY AtHand DEF Job, HealSteps
  <1>2. status \in Statuses \ {"none"} /\ status \notin PreAgentStatuses
    BY DEF Statuses, PreAgentStatuses
  <1>3. Return(Pass, status, job[Pass].metered)
    BY DEF Fails
  <1> QED
    BY <1>1, <1>2, <1>3, PassReturns

\* A step that goes on, on the same side of the agent.
LEMMA PassGoesOn ==
  ASSUME Typed, Ledger, at[Pass] \in HealSteps, NEW step \in HealSteps \ {"heal"},
         GoOn(Pass, step), HealFrame, UNCHANGED launched,
         at[Pass] \in {"heal", "cut", "agent"} <=> step \in {"heal", "cut", "agent"},
         Cardinality(Paid) < Limit
  PROVE  Ledger'
  <1>1. at'[Pass] = step /\ UNCHANGED <<job, queue, targets, result, deferred>>
    BY PassCaller DEF GoOn, Go, Typed, HealFrame
  <1>2. launched' \in [Projects -> {"no", "metered", "unmetered"}]
    BY DEF Ledger, LedgerTyped
  <1> QED
    BY <1>1, <1>2, AtHand, LedgerGoesOn, PassCaller

\* heal_project's steps before the agent.
LEMMA LedgerBefore ==
  ASSUME IInv, Ledger, Heal(Pass) \/ Cut(Pass)
  PROVE  Ledger'
  <1>0. Typed
    BY DEF IInv
  <1>1. CASE Heal(Pass)
    <2>0. at[Pass] = "heal" /\ at[Pass] \in HealSteps /\ HealFrame /\ UNCHANGED launched
      BY <1>1 DEF Heal, HealSteps
    <2>1. job[Pass].failing # {}
      BY <1>0, <2>0, AtHand
    <2>2. CASE ModeOf(Pass, job[Pass].project) = "notify"
      <3>1. Return(Pass, "notified", FALSE)
        BY <1>1, <2>1, <2>2 DEF Heal
      <3>2. "notified" \in Statuses \ {"none"} /\ "notified" \in PreAgentStatuses
        BY DEF Statuses, PreAgentStatuses
      <3> QED
        BY <1>0, <2>0, <3>1, <3>2, PassReturns
    <2>3. CASE ModeOf(Pass, job[Pass].project) # "notify"
      <3>1. GoOn(Pass, "cut")
        BY <1>1, <2>1, <2>3 DEF Heal
      <3>2. Cardinality(Paid) < Limit
        BY <1>0, <2>0, <2>3, AtHand DEF Ledger, WithinLimit
      <3>3. "cut" \in HealSteps \ {"heal"}
        BY DEF HealSteps
      <3> QED
        BY <1>0, <2>0, <3>1, <3>2, <3>3, PassGoesOn
    <2> QED
      BY <2>2, <2>3
  <1>2. CASE Cut(Pass)
    <2>0. at[Pass] = "cut" /\ at[Pass] \in HealSteps /\ HealFrame /\ UNCHANGED launched
      BY <1>2 DEF Cut, HealSteps
    <2>1. CASE Return(Pass, "worktree_failed", FALSE)
      <3>1. "worktree_failed" \in Statuses \ {"none"} /\ "worktree_failed" \in PreAgentStatuses
        BY DEF Statuses, PreAgentStatuses
      <3> QED
        BY <1>0, <2>0, <2>1, <3>1, PassReturns
    <2>2. ASSUME NEW s \in Free, job' = [job EXCEPT ![Pass].slot = s], Go(Pass, "agent"), UNCHANGED result
          PROVE  Ledger'
      <3>1. at'[Pass] = "agent" /\ "agent" \in HealSteps \ {"heal"}
        BY <1>0, <2>2, PassCaller DEF Go, Typed, HealSteps
      <3>2. /\ job'[Pass].project = job[Pass].project /\ job'[Pass].failing = job[Pass].failing
        BY <1>0, <2>0, <2>2, AtHand, PassCaller DEF Typed, Job
      <3>3. launched' \in [Projects -> {"no", "metered", "unmetered"}]
        BY <2>0 DEF Ledger, LedgerTyped
      <3> QED
        BY <1>0, <2>0, <2>2, <3>1, <3>2, <3>3, AtHand, LedgerGoesOn, PassCaller DEF HealFrame
    <2> QED
      BY <1>2, <2>1, <2>2 DEF Cut
  <1> QED
    BY <1>1, <1>2

\* The agent: paid from here on, whatever it says of its price.
LEMMA LedgerAgent ==
  ASSUME IInv, Ledger, Agent(Pass)
  PROVE  Ledger'
  <1>0. /\ Typed /\ at[Pass] = "agent" /\ at[Pass] \in HealSteps
        /\ UNCHANGED <<queue, targets, deferred>>
    BY DEF IInv, Agent, HealSteps, HealFrame
  <1> DEFINE p == job[Pass].project
  <1>1. PICK metered \in BOOLEAN :
          /\ launched' = [launched EXCEPT ![p] = Price(metered)]
          /\ \/ /\ job' = [job EXCEPT ![Pass].metered = metered]
                /\ Go(Pass, "verify") /\ UNCHANGED result
             \/ Return(Pass, "agent_failed", metered)
    BY DEF Agent, Price
  <1>2. p \in Projects /\ Cardinality(Paid) < Limit
    BY <1>0, AtHand
  <1>3. Price(metered) \in {"metered", "unmetered"}
    BY DEF Price
  <1>4. /\ launched' \in [Projects -> {"no", "metered", "unmetered"}] /\ launched'[p] = Price(metered)
        /\ \A q \in Projects \ {p} : launched'[q] = launched[q]
    BY <1>1, <1>2, <1>3 DEF Ledger, LedgerTyped
  <1>5. CASE job' = [job EXCEPT ![Pass].metered = metered] /\ Go(Pass, "verify") /\ UNCHANGED result
    <2>1. at'[Pass] = "verify" /\ "verify" \in HealSteps \ {"heal"}
      BY <1>0, <1>5, PassCaller DEF Go, Typed, HealSteps
    <2>2. /\ job'[Pass].project = p /\ job'[Pass].failing = job[Pass].failing
          /\ job'[Pass].metered = metered
      BY <1>0, <1>5, AtHand, PassCaller DEF Typed, Job
    <2> QED
      BY <1>0, <1>2, <1>4, <1>5, <2>1, <2>2, LedgerGoesOn, PassCaller
  <1>6. CASE Return(Pass, "agent_failed", metered)
    <2>1. "agent_failed" \in Statuses \ {"none"} /\ "agent_failed" \notin PreAgentStatuses
      BY DEF Statuses, PreAgentStatuses
    <2>2. /\ result' = [result EXCEPT ![p] = [status |-> "agent_failed", metered |-> metered]]
          /\ at'[Pass] = "next"
      BY <1>0, <1>6, PassCaller DEF Return, Go, Typed
    <2> QED
      BY <1>0, <1>2, <1>4, <2>1, <2>2, LedgerReturns
  <1> QED
    BY <1>1, <1>5, <1>6

\* heal_project's steps after it.
LEMMA LedgerAfter ==
  ASSUME IInv, Ledger, Verify(Pass) \/ Commit(Pass) \/ PushBranch(Pass) \/ OpenPr(Pass) \/ Remove(Pass)
  PROVE  Ledger'
  <1>0. /\ Typed /\ HealFrame /\ UNCHANGED launched
        /\ at[Pass] \in {"verify", "commit", "push", "pr", "remove"}
    BY DEF IInv, Verify, Commit, PushBranch, OpenPr, Remove
  <1>1. at[Pass] \in HealSteps /\ Cardinality(Paid) < Limit
    <2>1. at[Pass] \in HealSteps
      BY <1>0 DEF HealSteps
    <2> QED
      BY <1>0, <2>1, AtHand
  <1>2. ASSUME GoOn(Pass, "commit") \/ GoOn(Pass, "push") \/ GoOn(Pass, "pr") \/ GoOn(Pass, "remove")
        PROVE  Ledger'
    <2>1. {"commit", "push", "pr", "remove"} \subseteq HealSteps
      BY DEF HealSteps
    <2> QED
      BY <1>0, <1>1, <1>2, <2>1, PassGoesOn
  <1>3. CASE Remove(Pass)
    <2>1. "fixed" \in Statuses \ {"none"} /\ "fixed" \notin PreAgentStatuses
      BY DEF Statuses, PreAgentStatuses
    <2>2. Return(Pass, "fixed", job[Pass].metered) /\ job[Pass].metered \in BOOLEAN /\ at[Pass] = "remove"
      BY <1>0, <1>1, <1>3, AtHand DEF Remove, Job
    <2> QED
      BY <1>0, <1>1, <2>1, <2>2, PassReturns
  <1>4. CASE Verify(Pass) /\ ~GoOn(Pass, "commit")
    BY <1>0, <1>4, PassFails DEF Verify
  <1>5. CASE Commit(Pass) /\ ~GoOn(Pass, "push")
    BY <1>0, <1>5, PassFails DEF Commit
  <1>6. CASE PushBranch(Pass) /\ ~GoOn(Pass, "pr")
    BY <1>0, <1>6, PassFails DEF PushBranch
  <1>7. CASE OpenPr(Pass) /\ ~GoOn(Pass, "remove")
    BY <1>0, <1>7, PassFails DEF OpenPr
  <1> QED
    BY <1>2, <1>3, <1>4, <1>5, <1>6, <1>7

\* A pass that begins, ends or dies has healed nothing yet.
LEMMA LedgerResets ==
  ASSUME Ledger, NEW considered, NEW failing,
         ResetPass(considered, failing), at'[Pass] \in {"idle", "next"},
         considered = {p \in Projects : failing[p] # {}}
  PROVE  Ledger'
  <1>1. /\ queue' = considered /\ targets' = failing /\ deferred' = {}
        /\ result' = [p \in Projects |-> NoResult] /\ launched' = [p \in Projects |-> "no"]
    BY DEF ResetPass
  <1>2. Trying' = {} /\ Tried' = {} /\ Paid' = {}
    BY <1>1 DEF Trying, Tried, Paid, NoResult, HealSteps
  <1>3. LedgerTyped'
    BY <1>1 DEF LedgerTyped, NoResult, Statuses
  <1>4. Sorted'
    BY <1>1, <1>2 DEF Sorted
  <1>5. Priced'
    BY <1>1, <1>2 DEF Priced, NoResult
  <1>6. WithinLimit'
    <2>1. Cardinality(Paid') = 0 /\ Limit \in Nat
      BY <1>2, FS_EmptySet, HealAssumption
    <2> QED
      BY <1>2, <2>1 DEF WithinLimit
  <1> QED
    BY <1>3, <1>4, <1>5, <1>6 DEF Ledger

\* heal_fleet takes the next project, or names it as beyond the limit.
LEMMA LedgerConsiders ==
  ASSUME IInv, Ledger, Consider
  PROVE  Ledger'
  <1>0. Typed /\ Sorted /\ Priced /\ WithinLimit /\ LedgerTyped
    BY DEF IInv, Ledger
  <1>1. PICK p \in queue :
          /\ at[Pass] = "next" /\ queue' = queue \ {p}
          /\ IF ModeOf(Pass, p) = "fix" /\ CapReached(PaidAttempts)
             THEN deferred' = deferred \cup {p} /\ UNCHANGED <<at, job>>
             ELSE /\ job' = [job EXCEPT ![Pass] = [NoJob(p) EXCEPT !.failing = targets[p]]]
                  /\ Go(Pass, "heal") /\ UNCHANGED deferred
    BY DEF Consider
  <1>2. UNCHANGED <<targets, result, launched>>
    BY DEF Consider
  <1>3. p \in Projects /\ targets[p] # {} /\ p \notin Tried /\ p \notin deferred /\ Trying = {}
    BY <1>0, <1>1 DEF Typed, Sorted, Trying, HealSteps
  <1>4. Tried' = Tried /\ Paid' = Paid
    BY <1>2 DEF Tried, Paid
  <1>5. CASE ModeOf(Pass, p) = "fix" /\ CapReached(PaidAttempts)
    <2>1. deferred' = deferred \cup {p} /\ UNCHANGED <<at, job>>
      BY <1>1, <1>5
    <2>2. Trying' = {}
      BY <1>3, <2>1 DEF Trying
    <2>3. LedgerTyped'
      BY <1>0, <1>2, <1>3, <2>1 DEF LedgerTyped
    <2>4. Sorted'
      BY <1>0, <1>1, <1>2, <1>3, <1>4, <2>1, <2>2 DEF Sorted
    <2>5. Priced'
      BY <1>0, <1>2, <1>3, <1>4, <2>2 DEF Priced
    <2>6. WithinLimit'
      BY <1>0, <1>4, <2>2 DEF WithinLimit
    <2> QED
      BY <2>3, <2>4, <2>5, <2>6 DEF Ledger
  <1>6. CASE ~(ModeOf(Pass, p) = "fix" /\ CapReached(PaidAttempts))
    <2>1. /\ job' = [job EXCEPT ![Pass] = [NoJob(p) EXCEPT !.failing = targets[p]]]
          /\ Go(Pass, "heal") /\ UNCHANGED deferred
      BY <1>1, <1>6
    <2>2. job'[Pass].project = p /\ job'[Pass].failing = targets[p] /\ at'[Pass] = "heal"
      BY <1>0, <2>1, PassCaller DEF Typed, Go, NoJob
    <2>3. Trying' = {p}
      BY <2>2 DEF Trying, HealSteps
    <2>4. LedgerTyped'
      BY <1>0, <1>2, <2>1 DEF LedgerTyped
    <2>5. Sorted'
      BY <1>0, <1>1, <1>2, <1>3, <1>4, <2>1, <2>2, <2>3 DEF Sorted
    <2>6. Priced'
      BY <1>0, <1>2, <1>3, <1>4, <2>2, <2>3 DEF Priced
    <2>7. WithinLimit'
      <3>1. ModeOf(Pass, p) \in {"fix", "notify"}
        BY <1>3, HealAssumption DEF ModeOf
      <3>2. ModeOf(Pass, job[Pass].project)' = ModeOf(Pass, p)
        BY <2>2 DEF ModeOf
      <3>3. ModeOf(Pass, p) = "fix" => Cardinality(Paid) < Limit
        <4>1. Cardinality(Paid) \in Nat /\ Limit \in Nat
          BY <1>0, PaidIsFinite, HealAssumption
        <4> QED
          BY <1>6, <4>1 DEF CapReached, PaidAttempts, Paid
      <3> QED
        BY <1>0, <1>3, <1>4, <2>2, <3>1, <3>2, <3>3 DEF WithinLimit
    <2> QED
      BY <2>4, <2>5, <2>6, <2>7 DEF Ledger
  <1> QED
    BY <1>5, <1>6

\* The steps of the pass around heal_project.
LEMMA LedgerPass ==
  ASSUME IInv, Ledger, PassStep \/ PassKilled
  PROVE  Ledger'
  <1>0. Typed
    BY DEF IInv
  <1>1. CASE BeginPass
    <2>1. PICK seen \in {cache, clone} : ResetPass({p \in Projects : seen[p] # {}}, seen)
      BY <1>1 DEF BeginPass
    <2>2. at'[Pass] = "next"
      BY <1>0, <1>1, PassCaller DEF BeginPass, Go, Typed
    <2> QED
      BY <2>1, <2>2, LedgerResets
  <1>2. CASE Consider
    BY <1>2, LedgerConsiders
  <1>3. CASE Report
    <2>1. /\ at[Pass] = "next" /\ at'[Pass] = "report" /\ queue = {}
          /\ UNCHANGED <<job, queue, targets, result, deferred, launched>>
      BY <1>0, <1>3, PassCaller DEF Report, Go, Typed, pass
    <2>2. Trying = {} /\ Trying' = {} /\ Tried' = Tried /\ Paid' = Paid
      BY <2>1 DEF Trying, Tried, Paid, HealSteps
    <2>3. LedgerTyped' /\ Sorted'
      BY <2>1, <2>2 DEF Ledger, LedgerTyped, Sorted
    <2>4. Priced'
      BY <2>1, <2>2 DEF Ledger, Priced
    <2>5. WithinLimit'
      BY <2>2 DEF Ledger, WithinLimit
    <2> QED
      BY <2>3, <2>4, <2>5 DEF Ledger
  <1>4. CASE EndPass \/ PassKilled
    <2> DEFINE nothing == [p \in Projects |-> {}]
    <2>1. ResetPass({}, nothing)
      BY <1>4 DEF EndPass, PassKilled
    <2>2. at'[Pass] = "idle"
      BY <1>0, <1>4, PassCaller DEF EndPass, PassKilled, Go, Typed
    <2>3. {} = {p \in Projects : nothing[p] # {}}
      OBVIOUS
    <2> QED
      BY <2>1, <2>2, <2>3, LedgerResets
  <1> QED
    BY <1>1, <1>2, <1>3, <1>4 DEF PassStep

\* What the dashboard's callers and time do leaves the pass where it is.
LEMMA LedgerElsewhere ==
  ASSUME IInv, Ledger,
         \/ \E c \in Clicked : HealStep(c)
         \/ \E p \in Clicked : Post(p, "recheck") \/ Post(p, "collect") \/ CollectGates(p) \/ Raises(p)
         \/ ServerStops \/ ServerStarts
         \/ \E s \in Slots : Age(s)
  PROVE  Ledger'
  <1>0. Typed /\ Pass \notin Clicked /\ \A c \in Clicked : c \in Callers /\ c # Pass
    BY HealAssumption DEF IInv, Callers
  <1> USE DEF pass, Typed
  <1>1. ASSUME NEW c \in Clicked, HealStep(c)
        PROVE  UNCHANGED pass /\ at'[Pass] = at[Pass] /\ job'[Pass] = job[Pass]
    <2>0. c # Pass
      BY <1>0
    <2> USE DEF Return, Fails, GoOn, Go, HealFrame
    <2>1. CASE Heal(c)
      <3>1. \/ Return(c, "no_action", FALSE) \/ Return(c, "notified", FALSE) \/ GoOn(c, "cut")
        BY <2>1 DEF Heal
      <3>2. HealFrame /\ UNCHANGED launched
        BY <2>1 DEF Heal
      <3> QED
        BY <1>0, <2>0, <3>1, <3>2, PassCaller
    <2>2. CASE Cut(c)
      <3>1. \/ Return(c, "worktree_failed", FALSE)
            \/ \E s \in Free : job' = [job EXCEPT ![c].slot = s] /\ Go(c, "agent") /\ UNCHANGED result
        BY <2>2 DEF Cut
      <3>2. HealFrame /\ UNCHANGED launched
        BY <2>2 DEF Cut
      <3> QED
        BY <1>0, <2>0, <3>1, <3>2, PassCaller
    <2>3. CASE Agent(c)
      <3>1. \E metered \in BOOLEAN :
              \/ job' = [job EXCEPT ![c].metered = metered] /\ Go(c, "verify") /\ UNCHANGED result
              \/ Return(c, "agent_failed", metered)
        BY <2>0, <2>3 DEF Agent
      <3>2. HealFrame /\ UNCHANGED launched
        BY <2>0, <2>3 DEF Agent
      <3> QED
        BY <1>0, <2>0, <3>1, <3>2, PassCaller
    <2>4. CASE Verify(c) \/ Commit(c) \/ PushBranch(c) \/ OpenPr(c) \/ Remove(c)
      <3>1. \/ \E status : Return(c, status, job[c].metered)
            \/ GoOn(c, "commit") \/ GoOn(c, "push") \/ GoOn(c, "pr") \/ GoOn(c, "remove")
        <4> HIDE DEF Return, GoOn
        <4> QED
          BY <2>4 DEF Verify, Commit, PushBranch, OpenPr, Remove
      <3>2. HealFrame /\ UNCHANGED launched
        BY <2>4 DEF Verify, Commit, PushBranch, OpenPr, Remove
      <3> QED
        BY <1>0, <2>0, <3>1, <3>2, PassCaller
    <2> QED
      BY <1>1, <2>1, <2>2, <2>3, <2>4 DEF HealStep
  <1>2. ASSUME NEW p \in Clicked,
               Post(p, "recheck") \/ Post(p, "collect") \/ CollectGates(p) \/ Raises(p)
        PROVE  UNCHANGED pass /\ at'[Pass] = at[Pass] /\ job'[Pass] = job[Pass]
    BY <1>0, <1>2, PassCaller DEF Post, CollectGates, Raises, Settle, Go
  <1>3. CASE ServerStops \/ ServerStarts
    BY <1>0, <1>3, PassCaller, LedgerStands DEF ServerStops, ServerStarts
  <1>4. ASSUME NEW s \in Slots, Age(s)
        PROVE  Ledger'
    BY <1>4, LedgerStands DEF Age
  <1> QED
    BY <1>1, <1>2, <1>3, <1>4, LedgerStands

\* The ledger of the pass is kept throughout.
LEMMA NextLedger == IInv /\ Ledger /\ [Next]_vars => Ledger'
  <1> SUFFICES ASSUME IInv, Ledger, [Next]_vars PROVE Ledger'
    OBVIOUS
  <1>1. ASSUME NEW c \in Callers, HealStep(c)
        PROVE  Ledger'
    <2>1. CASE c = Pass
      BY <1>1, <2>1, LedgerBefore, LedgerAgent, LedgerAfter DEF HealStep
    <2>2. CASE c # Pass
      BY <1>1, <2>2, LedgerElsewhere DEF Callers
    <2> QED
      BY <2>1, <2>2
  <1>2. CASE UNCHANGED vars
    BY <1>2, LedgerStands DEF vars
  <1> QED
    BY <1>1, <1>2, LedgerPass, LedgerElsewhere DEF Next

\* Before the first pass nothing was failing, tried or paid.
LEMMA InitLedger == Init => Ledger
  <1> SUFFICES ASSUME Init PROVE Ledger
    OBVIOUS
  <1>1. /\ queue = {} /\ targets = [p \in Projects |-> {}] /\ deferred = {} /\ at[Pass] = "idle"
        /\ result = [p \in Projects |-> NoResult] /\ launched = [p \in Projects |-> "no"]
    BY PassCaller DEF Init
  <1>2. Trying = {} /\ Tried = {} /\ Paid = {}
    BY <1>1 DEF Trying, Tried, Paid, NoResult, HealSteps
  <1>3. LedgerTyped
    BY <1>1 DEF LedgerTyped, NoResult, Statuses
  <1>4. Sorted /\ Priced
    BY <1>1, <1>2 DEF Sorted, Priced, NoResult
  <1>5. WithinLimit
    <2>1. Cardinality(Paid) = 0 /\ Limit \in Nat
      BY <1>2, FS_EmptySet, HealAssumption
    <2> QED
      BY <1>2, <2>1 DEF WithinLimit
  <1> QED
    BY <1>3, <1>4, <1>5 DEF Ledger

\* "Always visible in the report" (heal_fleet): when a pass reports, each project that was
\* failing is named once, as attempted or as deferred, no more agents ran than the limit
\* allows, and the spend counts exactly the agents that ran, each as metered or not.
THEOREM ReportIsHonestHolds == Spec => []ReportIsHonest
  <1>1. Spec => []Ledger
    BY InitLedger, NextLedger, Invariance, PTL DEF Spec
  <1>2. ASSUME Ledger PROVE ReportIsHonest
    <2> SUFFICES ASSUME at[Pass] = "report"
                 PROVE  /\ Tried \cap deferred = {}
                        /\ Tried \cup deferred = {p \in Projects : targets[p] # {}}
                        /\ Cardinality({p \in Projects : launched[p] # "no"}) <= Limit
                        /\ Metered   = {p \in Projects : launched[p] = "metered"}
                        /\ Unmetered = {p \in Projects : launched[p] = "unmetered"}
      BY DEF ReportIsHonest, Tried
    <2>0. LedgerTyped /\ Sorted /\ Priced /\ WithinLimit
      BY <1>2 DEF Ledger
    <2>1. Trying = {} /\ queue = {}
      BY <2>0 DEF Trying, Sorted, HealSteps
    <2>2. ASSUME NEW p \in Projects
          PROVE  /\ launched[p] # "no" => p \in Paid
                 /\ launched[p] = "metered" <=> p \in Metered
                 /\ launched[p] = "unmetered" <=> p \in Unmetered
      <3>1. CASE p \notin Tried
        BY <2>0, <2>1, <3>1 DEF Priced, Tried, Paid, Metered, Unmetered
      <3>2. CASE p \in Tried /\ result[p].status \in PreAgentStatuses
        BY <2>0, <3>2 DEF Priced, Metered, Unmetered
      <3>3. CASE p \in Tried /\ result[p].status \notin PreAgentStatuses
        BY <2>0, <3>3 DEF Priced, Price, Paid, Tried, Metered, Unmetered, PreAgentStatuses
      <3> QED
        BY <3>1, <3>2, <3>3
    <2>3. Cardinality({p \in Projects : launched[p] # "no"}) <= Limit
      <3> DEFINE ran == {p \in Projects : launched[p] # "no"}
      <3>1. ran \in SUBSET Paid
        BY <2>2
      <3>2. /\ Cardinality(ran) <= Cardinality(Paid)
            /\ Cardinality(ran) \in Nat /\ Cardinality(Paid) \in Nat /\ Limit \in Nat
        <4> HIDE DEF ran
        <4> QED
          BY <2>0, <3>1, PaidIsFinite, FS_Subset, FS_CardinalityType, HealAssumption
      <3> QED
        BY <2>0, <3>2 DEF WithinLimit
    <2>4. /\ Metered   = {p \in Projects : launched[p] = "metered"}
          /\ Unmetered = {p \in Projects : launched[p] = "unmetered"}
      BY <2>2 DEF Metered, Unmetered
    <2> QED
      BY <2>0, <2>1, <2>3, <2>4 DEF Sorted
  <1> QED
    BY <1>1, <1>2, PTL

-----------------------------------------------------------------------------
(* The room for attempts.  No caller comes to cut a worktree unless a slot *)
(* is set aside for it (Room), and only a cut takes a slot: each takes the *)
(* one of its own caller.                                                  *)

\* The actions whose worktree is still to be cut, and those the pass may still cut.
Asking   == {p \in Clicked : at[p] \in {"collect", "heal", "cut"}}
Reserved == IF at[Pass] = "idle" THEN 0
            ELSE IF at[Pass] \in Working THEN Limit - Cardinality(Paid) - 1
            ELSE Limit - Cardinality(Paid)
Enough   == Cardinality(Asking) + Reserved <= Cardinality(Free)

\* An action's thread goes on only while the tracker shows it running.
Tracked == /\ action \in [Clicked -> {"none", "running", "done", "error"}]
           /\ \A p \in Clicked : at[p] # "idle" => action[p] = "running"

RoomInv == Tracked /\ Enough

Counts == /\ IsFiniteSet(Asking) /\ Cardinality(Asking) \in Nat
          /\ IsFiniteSet(Free) /\ Cardinality(Free) \in Nat
          /\ Ledger => Reserved \in Nat

\* The sets are finite, and what the pass reserves is a number of slots.
LEMMA RoomIsCounted == Counts
  <1>1. IsFiniteSet(Projects) /\ Asking \in SUBSET Projects
    BY HealAssumption DEF Asking
  <1>2. IsFiniteSet(Slots)
    <2>1. MaxSlots \in Nat
      BY HealAssumption
    <2>2. 1 \in Int /\ MaxSlots \in Int
      BY <2>1
    <2> QED
      BY <2>2, FS_Interval DEF Slots
  <1>3. Free \in SUBSET Slots
    BY DEF Free
  <1>4. IsFiniteSet(Asking) /\ IsFiniteSet(Free)
    BY <1>1, <1>2, <1>3, FS_Subset
  <1>5. ASSUME Ledger PROVE Reserved \in Nat
    <2>1. Cardinality(Paid) \in Nat /\ Limit \in Nat /\ Cardinality(Paid) <= Limit
      BY <1>5, PaidIsFinite, HealAssumption DEF Ledger, WithinLimit
    <2>2. at[Pass] \in Working => Cardinality(Paid) < Limit
      BY <1>5 DEF Ledger, WithinLimit, Trying, Working, HealSteps
    <2> QED
      BY <2>1, <2>2 DEF Reserved
  <1> QED
    BY <1>4, <1>5, FS_CardinalityType DEF Counts

\* ... in the next state too.
LEMMA RoomIsCountedNext == Counts'
  BY RoomIsCounted, PTL

\* Where nothing more is asked for and no slot is taken, there is still enough.
LEMMA StillEnough ==
  ASSUME Ledger, Ledger', Enough, Free \subseteq Free', Asking' \subseteq Asking,
         Reserved' <= Reserved
  PROVE  Enough'
  <1>1. Asking' \in SUBSET Asking /\ Free \in SUBSET Free'
    OBVIOUS
  <1>2. Cardinality(Asking') <= Cardinality(Asking)
    BY <1>1, RoomIsCounted, FS_Subset DEF Counts
  <1>3. Cardinality(Free) <= Cardinality(Free')
    BY <1>1, RoomIsCountedNext, FS_Subset DEF Counts
  <1> QED
    BY <1>2, <1>3, RoomIsCounted, RoomIsCountedNext DEF Counts, Enough

\* A step takes no slot if it gives out none and puts no worktree in a free one.
LEMMA NothingTaken ==
  ASSUME IInv, \A c \in Callers : job'[c].slot \in {NoSlot, job[c].slot},
         \A s \in Free : attempt'[s].dir # "there"
  PROVE  Free \subseteq Free'
  <1> SUFFICES ASSUME NEW s \in Free PROVE s \notin Held'
    BY DEF Free
  <1>1. s \in Slots /\ \A c \in Callers : job[c].slot # s
    BY NoSlotIsNone DEF Free, Held
  <1>2. \A c \in Callers : job'[c].slot # s
    BY <1>1, NoSlotIsNone
  <1> QED
    BY <1>2 DEF Held

\* The pass returns from a project it did not notify: one more is paid.
LEMMA ReturnPays ==
  ASSUME Typed, Ledger, at[Pass] \in HealSteps, NEW status \in Statuses \ {"none"},
         NEW metered, Return(Pass, status, metered), status = "notified" => at[Pass] = "heal"
  PROVE  Reserved' <= Reserved
  <1> DEFINE p == job[Pass].project
  <1>1. p \in Projects /\ p \notin Tried
    BY AtHand DEF Ledger, Sorted
  <1>2. /\ result' = [result EXCEPT ![p] = [status |-> status, metered |-> metered]]
        /\ at'[Pass] = "next"
    BY PassCaller DEF Return, Go, Typed
  <1>3. Paid' = IF status = "notified" THEN Paid ELSE Paid \cup {p}
    BY <1>1, <1>2 DEF Paid, Tried, Ledger, LedgerTyped
  <1>4. Cardinality(Paid) \in Nat /\ Limit \in Nat /\ IsFiniteSet(Paid)
    BY PaidIsFinite, HealAssumption DEF Ledger
  <1>5. p \notin Paid
    BY <1>1 DEF Paid, Tried
  <1>6. Cardinality(Paid') = IF status = "notified" THEN Cardinality(Paid) ELSE Cardinality(Paid) + 1
    BY <1>3, <1>4, <1>5, FS_AddElement
  <1>7. at[Pass] # "idle" /\ "next" \notin Working
    BY DEF HealSteps, Working
  <1>8. status = "notified" => at[Pass] \notin Working
    BY DEF Working
  <1> QED
    BY <1>2, <1>4, <1>6, <1>7, <1>8 DEF Reserved

\* A step of heal_project returns, goes on, or cuts a worktree.
Returns(c) == \E status \in Statuses \ {"none"}, metered \in BOOLEAN :
                /\ Return(c, status, metered) /\ (status = "notified" => at[c] = "heal")
GoesOn(c)  == \E step \in Working \cup {"cut"} :
                /\ Go(c, step) /\ UNCHANGED <<result, action>>
                /\ \/ at[c] = "heal" /\ step = "cut"
                   \/ at[c] \in Working /\ step \in Working
                /\ \A d \in Callers : job'[d].slot = job[d].slot
Cuts(c)    == \E s \in Free : /\ at[c] = "cut" /\ Go(c, "agent") /\ UNCHANGED <<result, action>>
                             /\ job' = [job EXCEPT ![c].slot = s]
                             /\ \A o \in Slots \ {s} : attempt'[o] = attempt[o]

LEMMA HealStepShapes ==
  ASSUME IInv, NEW c \in Callers, HealStep(c)
  PROVE  /\ at[c] \in HealSteps
         /\ \/ Cuts(c)
            \/ (Returns(c) \/ GoesOn(c)) /\ \A s \in Free : attempt'[s].dir # "there"
  <1>0. Typed /\ {"cut", "agent", "heal"} \cup Working \subseteq HealSteps
    BY DEF IInv, HealSteps, Working
  <1>1. ASSUME NEW status \in Statuses \ {"none", "notified"}, NEW metered \in BOOLEAN,
               Return(c, status, metered)
        PROVE  Returns(c)
    BY <1>1 DEF Returns
  <1>2. ASSUME at[c] \in Working, NEW step \in Working, GoOn(c, step)
        PROVE  GoesOn(c)
    BY <1>2 DEF GoesOn, GoOn
  <1>3. ASSUME NEW a, at[c] \in Working, attempt' = [attempt EXCEPT ![job[c].slot] = a]
        PROVE  \A s \in Free : attempt'[s].dir # "there"
    <2>1. job[c].slot \in Held
      BY <1>3, InHand DEF Held
    <2> QED
      BY <1>0, <1>3, <2>1 DEF Free, Typed
  <1>4. \A s \in Free : attempt[s].dir # "there"
    BY DEF Free
  <1>5. at[c] \in Working => job[c].metered \in BOOLEAN
    BY <1>0 DEF Typed, Job
  <1>6. /\ {"worktree_failed", "agent_failed", "verify_failed", "branch_failed", "push_failed",
            "pr_failed", "fixed", "no_action"} \subseteq Statuses \ {"none", "notified"}
        /\ FALSE \in BOOLEAN
    BY DEF Statuses
  <1>7. ASSUME at[c] \in Working, NEW left, NEW status \in Statuses \ {"none", "notified"},
               Fails(c, status, left)
        PROVE  Returns(c) /\ \A s \in Free : attempt'[s].dir # "there"
    BY <1>1, <1>3, <1>5, <1>7 DEF Fails
  <1>10. CASE Heal(c)
    <2>1. at[c] = "heal"
      BY <1>10 DEF Heal
    <2>2. CASE (Return(c, "no_action", FALSE) \/ Return(c, "notified", FALSE)) /\ UNCHANGED attempt
      BY <1>0, <1>4, <1>6, <2>1, <2>2 DEF Returns, Statuses
    <2>3. ASSUME NEW left \in SUBSET Expired(job[c].project), GoOn(c, "cut"),
                 attempt' = [s \in Slots |->
                      IF s \in Expired(job[c].project) \ left THEN [attempt[s] EXCEPT !.dir = "gone"]
                                                              ELSE attempt[s]]
          PROVE  GoesOn(c) /\ \A s \in Free : attempt'[s].dir # "there"
      <3>0. Go(c, "cut") /\ UNCHANGED <<job, result, action>>
        BY <2>3 DEF GoOn
      <3>1. GoesOn(c)
        BY <2>1, <3>0 DEF GoesOn
      <3>2. \A s \in Free : s \in Slots /\ s \notin Expired(job[c].project)
        BY DEF Free, Expired
      <3> QED
        BY <1>4, <2>3, <3>1, <3>2
    <2> QED
      BY <1>0, <1>10, <2>1, <2>2, <2>3 DEF Heal
  <1>11. CASE Cut(c)
    <2>1. at[c] = "cut"
      BY <1>11 DEF Cut
    <2>2. CASE Return(c, "worktree_failed", FALSE) /\ UNCHANGED attempt
      BY <1>0, <1>1, <1>4, <1>6, <2>1, <2>2
    <2>3. ASSUME NEW s \in Free, NEW a, attempt' = [attempt EXCEPT ![s] = a],
                 job' = [job EXCEPT ![c].slot = s], Go(c, "agent"), UNCHANGED <<result, action>>
          PROVE  Cuts(c)
      <3>1. \A o \in Slots \ {s} : attempt'[o] = attempt[o]
        BY <1>0, <2>3 DEF Typed
      <3> QED
        BY <2>1, <2>3, <3>1 DEF Cuts
    <2> QED
      BY <1>0, <1>11, <2>1, <2>2, <2>3 DEF Cut
  <1>12. CASE Agent(c)
    <2>1. at[c] = "agent" /\ at[c] \in Working
      BY <1>12 DEF Agent, Working
    <2>2. PICK metered \in BOOLEAN :
            /\ \E a : attempt' = [attempt EXCEPT ![job[c].slot] = a]
            /\ \/ /\ job' = [job EXCEPT ![c].metered = metered]
                  /\ Go(c, "verify") /\ UNCHANGED <<result, action>>
               \/ Return(c, "agent_failed", metered)
      <3>1. PICK ok \in BOOLEAN, changed \in BOOLEAN, fails \in SUBSET Tasks,
                 metered \in IF c = Pass THEN BOOLEAN ELSE {FALSE} :
              LET edited == [attempt[job[c].slot] EXCEPT !.fails = fails, !.changed = changed]
              IN  /\ attempt' = [attempt EXCEPT ![job[c].slot] = IF ok THEN edited ELSE Over(edited)]
                  /\ IF ok
                     THEN /\ job' = [job EXCEPT ![c].metered = metered]
                          /\ Go(c, "verify") /\ UNCHANGED <<result, action>>
                     ELSE Return(c, "agent_failed", metered)
        BY <1>12 DEF Agent
      <3>2. metered \in BOOLEAN
        BY <3>1
      <3> QED
        BY <3>1, <3>2
    <2>3. CASE Return(c, "agent_failed", metered)
      BY <1>0, <1>1, <1>3, <1>6, <2>1, <2>2, <2>3
    <2>4. CASE /\ job' = [job EXCEPT ![c].metered = metered]
               /\ Go(c, "verify") /\ UNCHANGED <<result, action>>
      <3>1. \A d \in Callers : job'[d].slot = job[d].slot
        BY <1>0, <2>4 DEF Typed, Job
      <3>2. GoesOn(c)
        BY <2>1, <2>4, <3>1 DEF GoesOn, Working
      <3> QED
        BY <1>0, <1>3, <2>1, <2>2, <3>2
    <2> QED
      BY <2>2, <2>3, <2>4
  <1>13. CASE Verify(c) \/ Commit(c) \/ PushBranch(c) \/ OpenPr(c) \/ Remove(c)
    <2>1. at[c] \in Working
      BY <1>13 DEF Verify, Commit, PushBranch, OpenPr, Remove, Working
    <2> DEFINE failed == \E status \in Statuses \ {"none", "notified"} : \E left : Fails(c, status, left)
               edits  == UNCHANGED attempt \/ \E a : attempt' = [attempt EXCEPT ![job[c].slot] = a]
               goes   == \E step \in Working : GoOn(c, step)
    <2>2. failed \/ (edits /\ (Return(c, "fixed", job[c].metered) \/ goes))
      <3>1. \A status \in {"verify_failed", "branch_failed", "push_failed", "pr_failed"} :
              \A left : Fails(c, status, left) => failed
        BY <1>6
      <3>2. \A step \in {"commit", "push", "pr", "remove"} : GoOn(c, step) => goes
        BY DEF Working
      <3>0. /\ UNCHANGED attempt => edits
            /\ \A a : attempt' = [attempt EXCEPT ![job[c].slot] = a] => edits
        OBVIOUS
      <3> HIDE DEF failed, goes, edits
      <3>3. CASE Verify(c)
        BY <3>0, <3>1, <3>2, <3>3 DEF Verify
      <3>4. CASE Commit(c)
        BY <3>0, <3>1, <3>2, <3>4 DEF Commit
      <3>5. CASE PushBranch(c)
        BY <3>0, <3>1, <3>2, <3>5 DEF PushBranch
      <3>6. CASE OpenPr(c)
        BY <3>0, <3>1, <3>2, <3>6 DEF OpenPr
      <3>7. CASE Remove(c)
        BY <3>0, <3>7 DEF Remove
      <3> QED
        BY <1>13, <3>3, <3>4, <3>5, <3>6, <3>7
    <2>3. edits => \A s \in Free : attempt'[s].dir # "there"
      BY <1>3, <1>4, <2>1
    <2>4. Return(c, "fixed", job[c].metered) => Returns(c)
      BY <1>1, <1>5, <1>6, <2>1
    <2> QED
      BY <1>0, <1>2, <1>7, <2>1, <2>2, <2>3, <2>4
  <1> QED
    BY <1>10, <1>11, <1>12, <1>13 DEF HealStep

\* The steps of heal_project take no slot but the one set aside for their caller.
LEMMA HealStepRoom ==
  ASSUME IInv, Ledger, Ledger', RoomInv, NEW c \in Callers, HealStep(c)
  PROVE  RoomInv'
  <1>0. /\ Typed /\ Tracked /\ Enough /\ at[c] \in HealSteps /\ Pass \notin Clicked
        /\ \A p \in Clicked : p \in Callers
    BY HealStepShapes, HealAssumption DEF IInv, RoomInv, Callers
  <1>1. CASE Returns(c) /\ \A s \in Free : attempt'[s].dir # "there"
    <2>1. PICK status \in Statuses \ {"none"}, metered \in BOOLEAN :
            Return(c, status, metered) /\ (status = "notified" => at[c] = "heal")
      BY <1>1 DEF Returns
    <2>2. /\ at' \in [Callers -> Steps] /\ job' \in [Callers -> Job]
          /\ job'[c].slot = NoSlot /\ OthersStay(c)
      BY <1>0, <2>1, ReturnLetsGo
    <2>3. Free \subseteq Free'
      BY <1>1, <2>2, NothingTaken DEF OthersStay
    <2>4. CASE c = Pass
      <3>1. Reserved' <= Reserved
        BY <1>0, <2>1, <2>4, ReturnPays
      <3>2. \A p \in Clicked : at'[p] = at[p]
        BY <1>0, <2>2, <2>4 DEF OthersStay
      <3>3. UNCHANGED action
        BY <2>1, <2>4 DEF Return
      <3>4. Asking' = Asking /\ Tracked'
        BY <1>0, <3>2, <3>3 DEF Asking, Tracked
      <3> QED
        BY <1>0, <2>3, <3>1, <3>4, StillEnough DEF RoomInv
    <2>5. CASE c # Pass
      <3>1. c \in Clicked /\ at' = [at EXCEPT ![c] = "idle"] /\ UNCHANGED result
            /\ action' = [action EXCEPT ![c] = "done"]
        BY <2>1, <2>5 DEF Return, Go, Callers
      <3>2. at'[Pass] = at[Pass] /\ \A p \in Clicked : at'[p] = IF p = c THEN "idle" ELSE at[p]
        BY <1>0, <2>5, <3>1, PassCaller DEF Typed
      <3>3. Reserved' = Reserved
        BY <3>1, <3>2 DEF Reserved, Paid
      <3>4. Asking' \subseteq Asking /\ Tracked'
        BY <1>0, <3>1, <3>2 DEF Asking, Tracked
      <3>5. Reserved' <= Reserved
        BY <1>0, <3>3, RoomIsCounted DEF Counts
      <3> QED
        BY <1>0, <2>3, <3>4, <3>5, StillEnough DEF RoomInv
    <2> QED
      BY <2>4, <2>5
  <1>2. CASE GoesOn(c) /\ \A s \in Free : attempt'[s].dir # "there"
    <2>1. PICK step \in Working \cup {"cut"} :
            /\ Go(c, step) /\ UNCHANGED <<result, action>>
            /\ \/ at[c] = "heal" /\ step = "cut"
               \/ at[c] \in Working /\ step \in Working
            /\ \A d \in Callers : job'[d].slot = job[d].slot
      BY <1>2 DEF GoesOn
    <2>2. \A d \in Callers : at'[d] = IF d = c THEN step ELSE at[d]
      BY <1>0, <2>1 DEF Go, Typed
    <2>3. Free \subseteq Free'
      BY <1>2, <2>1, NothingTaken
    <2>4. Reserved' = Reserved
      BY <2>1, <2>2, PassCaller DEF Reserved, Paid, Working
    <2>5. Asking' \subseteq Asking /\ Tracked'
      BY <1>0, <2>1, <2>2 DEF Asking, Tracked, Working, HealSteps
    <2>6. Reserved' <= Reserved
      BY <1>0, <2>4, RoomIsCounted DEF Counts
    <2> QED
      BY <1>0, <2>3, <2>5, <2>6, StillEnough DEF RoomInv
  <1>3. CASE Cuts(c)
    <2>1. PICK s \in Free : /\ at[c] = "cut" /\ Go(c, "agent") /\ UNCHANGED <<result, action>>
                            /\ job' = [job EXCEPT ![c].slot = s]
                            /\ \A o \in Slots \ {s} : attempt'[o] = attempt[o]
      BY <1>3 DEF Cuts
    <2>2. \A d \in Callers : /\ at'[d] = IF d = c THEN "agent" ELSE at[d]
                             /\ job'[d].slot = IF d = c THEN s ELSE job[d].slot
      BY <1>0, <2>1 DEF Go, Typed, Job
    <2>3. Free \ {s} \subseteq Free'
      <3> SUFFICES ASSUME NEW o \in Free, o # s PROVE o \notin Held' /\ o \in Slots /\ attempt'[o].dir # "there"
        BY DEF Free
      <3>1. o \in Slots /\ attempt[o].dir # "there" /\ \A d \in Callers : job[d].slot # o
        BY NoSlotIsNone DEF Free, Held
      <3>2. \A d \in Callers : job'[d].slot # o
        BY <2>2, <3>1
      <3> QED
        BY <2>1, <3>1, <3>2 DEF Held
    <2>4. Cardinality(Free) - 1 <= Cardinality(Free')
      <3>1. (Free \ {s}) \in SUBSET Free'
        BY <2>3
      <3>2. Cardinality(Free \ {s}) = Cardinality(Free) - 1
        BY <2>1, RoomIsCounted, FS_RemoveElement DEF Counts
      <3> QED
        BY <3>1, <3>2, RoomIsCountedNext, FS_Subset DEF Counts
    <2>5. Tracked'
      BY <1>0, <2>1, <2>2 DEF Tracked
    <2>6. Cardinality(Asking') + Reserved' = Cardinality(Asking) + Reserved - 1
      <3>1. CASE c = Pass
        <4>1. Asking' = Asking
          BY <1>0, <2>2, <3>1 DEF Asking
        <4>2. Reserved' = Reserved - 1
          <5>1. Limit - Cardinality(Paid) - 1 = (Limit - Cardinality(Paid)) - 1
            OBVIOUS
          <5> QED
            BY <2>1, <2>2, <3>1, <5>1, PassCaller DEF Reserved, Paid, Working
        <4> QED
          BY <1>0, <4>1, <4>2, RoomIsCounted DEF Counts
      <3>2. CASE c # Pass
        <4>1. Asking' = Asking \ {c} /\ c \in Asking
          BY <1>0, <2>1, <2>2, <3>2 DEF Asking, Callers
        <4>2. Cardinality(Asking') = Cardinality(Asking) - 1
          BY <4>1, RoomIsCounted, FS_RemoveElement DEF Counts
        <4>3. Reserved' = Reserved
          BY <2>1, <2>2, <3>2, PassCaller DEF Reserved, Paid
        <4> QED
          BY <1>0, <4>2, <4>3, RoomIsCounted DEF Counts
      <3> QED
        BY <3>1, <3>2
    <2>7. Enough'
      BY <1>0, <2>4, <2>6, RoomIsCounted, RoomIsCountedNext DEF Counts, Enough
    <2> QED
      BY <2>5, <2>7 DEF RoomInv
  <1> QED
    BY <1>1, <1>2, <1>3, HealStepShapes

\* The steps of the pass around heal_project: it begins only where the limit fits.
LEMMA PassRoom ==
  ASSUME IInv, Ledger, Ledger', RoomInv, PassStep \/ PassKilled
  PROVE  RoomInv'
  <1>0. Typed /\ Tracked /\ Enough /\ Pass \notin Clicked /\ \A p \in Clicked : p \in Callers
    BY HealAssumption DEF IInv, RoomInv, Callers
  <1>1. PICK step \in Steps : at' = [at EXCEPT ![Pass] = step] \/ (step = at[Pass] /\ UNCHANGED at)
    BY <1>0, PassCaller DEF PassStep, BeginPass, Consider, Report, EndPass, PassKilled, Go, Typed, Steps, HealSteps
  <1>2. /\ at'[Pass] = step /\ \A p \in Clicked : at'[p] = at[p]
        /\ UNCHANGED <<attempt, action>>
    BY <1>0, <1>1, PassCaller DEF Typed, PassStep, BeginPass, Consider, Report, EndPass, PassKilled, dash
  <1>3. Asking' = Asking /\ Tracked'
    BY <1>0, <1>2 DEF Asking, Tracked
  <1>4. \A d \in Callers : job'[d].slot \in {NoSlot, job[d].slot}
    <2>1. ASSUME NEW p \in Projects, job' = [job EXCEPT ![Pass] = [NoJob(p) EXCEPT !.failing = targets[p]]]
          PROVE  \A d \in Callers : job'[d].slot \in {NoSlot, job[d].slot}
      BY <1>0, <2>1 DEF Typed, NoJob
    <2>2. job' = [job EXCEPT ![Pass] = NoJob(Someone)]
             => \A d \in Callers : job'[d].slot \in {NoSlot, job[d].slot}
      BY <1>0 DEF Typed, NoJob
    <2> QED
      BY <1>0, <2>1, <2>2 DEF PassStep, BeginPass, Consider, Report, EndPass, PassKilled, Typed
  <1>5. Free \subseteq Free'
    <2>1. \A s \in Free : attempt'[s].dir # "there"
      BY <1>2 DEF Free
    <2> QED
      BY <1>4, <2>1, NothingTaken
  <1>6. CASE BeginPass
    <2>1. at[Pass] = "idle" /\ Room(Limit) /\ step = "next" /\ UNCHANGED job
          /\ result' = [p \in Projects |-> NoResult]
      BY <1>0, <1>2, <1>6, PassCaller DEF BeginPass, ResetPass, Go, Typed
    <2>2. Reserved' = Limit
      <3>1. Paid' = {}
        BY <2>1 DEF Paid, NoResult
      <3>2. Cardinality(Paid') = 0 /\ Limit \in Nat
        BY <3>1, FS_EmptySet, HealAssumption
      <3> QED
        BY <1>2, <2>1, <3>2 DEF Reserved, Working
    <2>3. Free' = Free
      BY <1>2, <2>1 DEF Free, Held
    <2>4. Limit + Cardinality(Asking) + 0 <= Cardinality(Free)
      BY <2>1 DEF Room, Asking
    <2>5. Enough'
      <3>1. Limit \in Nat /\ Cardinality(Asking) \in Nat /\ Cardinality(Free) \in Nat
        BY RoomIsCounted, HealAssumption DEF Counts
      <3>2. Cardinality(Asking) + Limit <= Cardinality(Free)
        BY <2>4, <3>1
      <3> QED
        BY <1>3, <2>2, <2>3, <3>2 DEF Enough
    <2> QED
      BY <1>3, <2>5 DEF RoomInv
  <1>7. CASE Consider \/ Report
    <2>1. at[Pass] = "next" /\ step \in {"next", "heal", "report"} /\ UNCHANGED result
      BY <1>0, <1>2, <1>7, PassCaller DEF Consider, Report, Go, Typed, pass
    <2>2. Reserved' = Reserved
      BY <1>2, <2>1 DEF Reserved, Paid, Working
    <2>3. Reserved' <= Reserved
      BY <2>2, RoomIsCounted DEF Counts
    <2> QED
      BY <1>0, <1>3, <1>5, <2>3, StillEnough DEF RoomInv
  <1>8. CASE EndPass \/ PassKilled
    <2>1. step = "idle"
      BY <1>0, <1>2, <1>8, PassCaller DEF EndPass, PassKilled, Go, Typed
    <2>2. Reserved' <= Reserved
      BY <1>2, <2>1, RoomIsCounted DEF Reserved, Counts
    <2> QED
      BY <1>0, <1>3, <1>5, <2>2, StillEnough DEF RoomInv
  <1> QED
    BY <1>6, <1>7, <1>8 DEF PassStep

\* The dashboard asks only where there is room, and refuses a second action.
LEMMA DashboardRoom ==
  ASSUME IInv, Ledger, Ledger', RoomInv,
         \/ \E p \in Clicked : Post(p, "recheck") \/ Post(p, "collect") \/ CollectGates(p) \/ Raises(p)
         \/ ServerStops \/ ServerStarts
         \/ \E s \in Slots : Age(s)
  PROVE  RoomInv'
  <1>0. Typed /\ Tracked /\ Enough /\ Pass \notin Clicked /\ \A p \in Clicked : p \in Callers
    BY HealAssumption DEF IInv, RoomInv, Callers
  <1>1. at'[Pass] = at[Pass] /\ UNCHANGED result
    BY <1>0, PassCaller DEF Post, CollectGates, Raises, Settle, ServerStops, ServerStarts, Age, Go, Typed, pass
  <1>2. Reserved' = Reserved /\ Reserved' <= Reserved
    BY <1>1, RoomIsCounted DEF Reserved, Paid, Counts
  <1>3. \A s \in Free : attempt'[s].dir # "there"
    <2>1. \A s \in Free : attempt[s].dir # "there"
      BY DEF Free
    <2>2. ASSUME NEW s \in Slots, Age(s), NEW o \in Free PROVE attempt'[o] = attempt[o]
      <3>1. attempt[s].dir = "there" /\ attempt' = [attempt EXCEPT ![s].old = TRUE]
        BY <2>2 DEF Age
      <3>2. o # s /\ o \in Slots
        BY <2>1, <3>1 DEF Free
      <3> QED
        BY <1>0, <3>1, <3>2 DEF Typed
    <2> QED
      BY <2>1, <2>2 DEF Post, CollectGates, Raises, Settle, ServerStops, ServerStarts
  <1>4. \A d \in Callers : job'[d].slot \in {NoSlot, job[d].slot}
    <2>1. ASSUME NEW p \in Clicked, NEW j, j.slot = NoSlot, job' = [job EXCEPT ![p] = j]
          PROVE  \A d \in Callers : job'[d].slot \in {NoSlot, job[d].slot}
      BY <1>0, <2>1 DEF Typed
    <2>2. /\ NoJob(Someone).slot = NoSlot
          /\ \A p \in Clicked : [NoJob(p) EXCEPT !.failing = clone[p]].slot = NoSlot
      BY DEF NoJob
    <2>3. ASSUME NEW p \in Clicked, CollectGates(p) \/ Raises(p)
          PROVE  \A d \in Callers : job'[d].slot \in {NoSlot, job[d].slot}
      BY <2>1, <2>2, <2>3 DEF CollectGates, Raises, Settle
    <2>4. ServerStops => \A d \in Callers : job'[d].slot \in {NoSlot, job[d].slot}
      BY <2>2 DEF ServerStops
    <2>5. ServerStarts \/ (\E s \in Slots : Age(s))
            \/ (\E p \in Clicked : Post(p, "recheck") \/ Post(p, "collect")) => UNCHANGED job
      BY DEF ServerStarts, Age, Post
    <2> QED
      BY <2>3, <2>4, <2>5
  <1>5. Free \subseteq Free'
    BY <1>3, <1>4, NothingTaken
  <1>6. ASSUME Asking' \subseteq Asking, Tracked' PROVE RoomInv'
    BY <1>0, <1>2, <1>5, <1>6, StillEnough DEF RoomInv
  <1>7. ASSUME NEW p \in Clicked, NEW step \in {"recheck", "collect"}, Post(p, step) PROVE RoomInv'
    <2>1. /\ action[p] # "running" /\ action' = [action EXCEPT ![p] = "running"]
          /\ step = "collect" => Room(1)
          /\ at' = [at EXCEPT ![p] = step] \/ UNCHANGED at
          /\ UNCHANGED <<attempt, job>>
      BY <1>7 DEF Post, Go
    <2>2. /\ at'[p] \in {step, at[p]}
          /\ \A q \in Clicked \ {p} : at'[q] = at[q]
      BY <1>0, <2>1 DEF Typed
    <2>3. Tracked'
      BY <1>0, <2>1, <2>2 DEF Tracked
    <2>4. CASE at'[p] # "collect" \/ at[p] = "collect"
      <3>1. Asking' \subseteq Asking
        BY <2>2, <2>4 DEF Asking
      <3> QED
        BY <1>6, <2>3, <3>1
    <2>5. CASE at'[p] = "collect" /\ at[p] # "collect"
      <3>1. Room(1)
        BY <2>1, <2>2, <2>5
      <3>2. Asking' = Asking \cup {p}
        BY <2>2, <2>5 DEF Asking
      <3>3. Cardinality(Asking') <= Cardinality(Asking) + 1
        <4>1. IsFiniteSet(Asking) /\ Cardinality(Asking) \in Nat
          BY RoomIsCounted DEF Counts
        <4>2. Cardinality(Asking \cup {p}) <= Cardinality(Asking) + 1
          BY <4>1, FS_AddElement
        <4> QED
          BY <3>2, <4>2
      <3>4. Reserved <= (IF at[Pass] = "idle" THEN 0 ELSE Limit - PaidAttempts)
        <4>1. Cardinality(Paid) \in Nat /\ Limit \in Nat
          BY PaidIsFinite, HealAssumption DEF Ledger
        <4> QED
          BY <4>1 DEF Reserved, PaidAttempts, Paid
      <3>5. /\ 1 + Cardinality(Asking) + (IF at[Pass] = "idle" THEN 0 ELSE Limit - PaidAttempts)
                 <= Cardinality(Free)
            /\ (IF at[Pass] = "idle" THEN 0 ELSE Limit - PaidAttempts) \in Int
        <4>1. PaidAttempts \in Nat /\ Limit \in Nat
          BY PaidIsFinite, HealAssumption DEF Ledger, PaidAttempts, Paid
        <4> QED
          BY <3>1, <4>1 DEF Room, Asking
      <3>6. Free' = Free
        BY <2>1 DEF Free, Held
      <3>7. Enough'
        BY <1>2, <3>3, <3>4, <3>5, <3>6, RoomIsCounted, RoomIsCountedNext DEF Enough, Counts
      <3> QED
        BY <2>3, <3>7 DEF RoomInv
    <2> QED
      BY <2>4, <2>5
  <1>8. ASSUME NEW p \in Clicked, CollectGates(p) \/ Raises(p) PROVE RoomInv'
    <2>1. \/ /\ at[p] = "collect" /\ at' = [at EXCEPT ![p] = "heal"] /\ UNCHANGED action
          \/ /\ at' = [at EXCEPT ![p] = "idle"]
             /\ \E outcome \in {"done", "error"} : action' = [action EXCEPT ![p] = outcome]
      BY <1>8 DEF CollectGates, Raises, Settle, Go
    <2>2. /\ at'[p] = "idle" \/ (at[p] = "collect" /\ at'[p] = "heal" /\ UNCHANGED action)
          /\ \A q \in Clicked \ {p} : at'[q] = at[q]
      BY <1>0, <2>1 DEF Typed
    <2>3. Asking' \subseteq Asking
      BY <2>2 DEF Asking
    <2>4. Tracked'
      BY <1>0, <2>1, <2>2 DEF Tracked
    <2> QED
      BY <1>6, <2>3, <2>4
  <1>9. CASE ServerStops
    <2>1. /\ \A p \in Clicked : at'[p] = "idle"
          /\ action' = [p \in Clicked |-> "none"]
      BY <1>0, <1>9 DEF ServerStops
    <2>2. Asking' \subseteq Asking /\ Tracked'
      BY <2>1 DEF Asking, Tracked
    <2> QED
      BY <1>6, <2>2
  <1>10. CASE UNCHANGED <<at, action>>
    BY <1>0, <1>6, <1>10 DEF Asking, Tracked
  <1>11. ServerStarts \/ (\E s \in Slots : Age(s)) => UNCHANGED <<at, action>>
    BY DEF ServerStarts, Age, dash
  <1> QED
    BY <1>7, <1>8, <1>9, <1>10, <1>11

\* There is room in every reachable state.
LEMMA NextRoom == IInv /\ Ledger /\ Ledger' /\ RoomInv /\ [Next]_vars => RoomInv'
  <1> SUFFICES ASSUME IInv, Ledger, Ledger', RoomInv, [Next]_vars PROVE RoomInv'
    OBVIOUS
  <1>1. CASE UNCHANGED vars
    <2>1. UNCHANGED <<at, job, attempt, result, action>>
      BY <1>1 DEF vars, pass, dash
    <2>2. Asking' = Asking /\ Reserved' = Reserved /\ Free' = Free /\ Tracked'
      BY <2>1 DEF Asking, Reserved, Paid, Free, Held, RoomInv, Tracked
    <2> QED
      BY <2>2 DEF RoomInv, Enough
  <1> QED
    BY <1>1, HealStepRoom, PassRoom, DashboardRoom DEF Next

\* At first nobody asks for anything.
LEMMA InitRoom == Init => RoomInv
  <1> SUFFICES ASSUME Init PROVE RoomInv
    OBVIOUS
  <1>1. \A c \in Callers : at[c] = "idle"
    BY DEF Init
  <1>2. Asking = {} /\ Reserved = 0
    BY <1>1, PassCaller DEF Asking, Reserved, Callers
  <1>3. Cardinality(Asking) = 0
    BY <1>2, FS_EmptySet
  <1>4. Enough
    BY <1>2, <1>3, RoomIsCounted DEF Enough, Counts
  <1>5. Tracked
    BY <1>1 DEF Init, Tracked, Callers
  <1> QED
    BY <1>4, <1>5 DEF RoomInv

\* A branch of another run never has the name of a new one: the slug tells them apart.
LEMMA NeverTaken == \A c \in Callers : \A s \in Slots : ~Taken(c, s)
  BY DEF Taken, BranchName

\* "Retention must not cost you the ability to try again" (worktree.create): an attempt
\* that asks for a worktree gets one, or a call of git or of the file system failed, however
\* many worktrees and branches earlier and concurrent attempts have left.
THEOREM RetryIsNeverRefusedHolds == Spec => RetryIsNeverRefused
  <1>1. Spec => [](IInv /\ Ledger)
    BY InitLedger, NextLedger, Invariance, PTL DEF Spec
  <1>2. Spec => []RoomInv
    BY <1>1, InitRoom, NextRoom, PTL DEF Spec
  <1>3. ASSUME IInv, Ledger, RoomInv, [Next]_vars
        PROVE  [\A c \in Callers : at[c] = "cut" /\ at'[c] \notin {"cut", "agent"}
                  => faults' = faults + 1]_vars
    <2> SUFFICES ASSUME Next, NEW c \in Callers, at[c] = "cut", at'[c] \notin {"cut", "agent"}
                 PROVE  faults' = faults + 1
      BY <1>3
    <2>0. Typed /\ Pass \notin Clicked
      BY <1>3, HealAssumption DEF IInv
    <2>1. ASSUME NEW d \in Callers, HealStep(d) PROVE faults' = faults + 1
      <3>1. d = c
        <4>1. Returns(d) \/ GoesOn(d) \/ Cuts(d)
          BY <1>3, <2>1, HealStepShapes
        <4>2. PICK step : Go(d, step)
          BY <4>1 DEF Returns, GoesOn, Cuts, Return
        <4> QED
          BY <2>0, <4>2 DEF Go, Typed
      <3>2. Cut(c)
        BY <2>1, <3>1 DEF HealStep, Heal, Agent, Verify, Commit, PushBranch, OpenPr, Remove
      <3>3. ~Go(c, "agent")
        BY <2>0 DEF Go, Typed
      <3>4. Free # {}
        <4>1. c = Pass => Reserved > 0
          <5>1. ASSUME c = Pass PROVE Cardinality(Paid) < Limit
            BY <1>3, <2>0, <5>1, AtHand DEF HealSteps
          <5>2. Cardinality(Paid) \in Nat /\ Limit \in Nat
            BY <1>3, PaidIsFinite, HealAssumption DEF Ledger
          <5> QED
            BY <5>1, <5>2 DEF Reserved, Working
        <4>2. c # Pass => Cardinality(Asking) > 0
          <5>1. c # Pass => c \in Asking
            BY DEF Asking, Callers
          <5> QED
            BY <5>1, RoomIsCounted, FS_EmptySet DEF Counts
        <4>3. Cardinality(Free) > 0
          BY <1>3, <4>1, <4>2, RoomIsCounted DEF RoomInv, Enough, Counts
        <4> QED
          BY <4>3, FS_EmptySet
      <3>5. ~\A s \in Free : Taken(c, s)
        BY <3>4, NeverTaken DEF Free
      <3>6. Fault
        BY <3>2, <3>3, <3>5 DEF Cut
      <3> QED
        BY <3>6 DEF Fault
    <2>2. ASSUME PassStep \/ PassKilled PROVE faults' = faults + 1
      <3>1. CASE PassKilled
        BY <3>1 DEF PassKilled, Fault
      <3>2. CASE PassStep
        <4>1. c # Pass \/ UNCHANGED at
          BY <3>2 DEF PassStep, BeginPass, Consider, Report, EndPass
        <4>2. UNCHANGED at \/ \E step : at' = [at EXCEPT ![Pass] = step]
          BY <3>2 DEF PassStep, BeginPass, Consider, Report, EndPass, Go
        <4> QED
          BY <2>0, <4>1, <4>2 DEF Typed
      <3> QED
        BY <2>2, <3>1, <3>2
    <2>3. ASSUME NEW p \in Clicked, NEW step, Post(p, step) \/ CollectGates(p) \/ Raises(p)
          PROVE  faults' = faults + 1
      <3>1. CASE Raises(p)
        BY <3>1 DEF Raises, Fault
      <3>2. CASE Post(p, step) \/ CollectGates(p)
        <4>1. UNCHANGED at \/ \E to : at' = [at EXCEPT ![p] = to]
          BY <3>2 DEF Post, CollectGates, Settle, Go
        <4>2. p = c => UNCHANGED at
          <5>1. p = c => ~CollectGates(p) /\ action[p] = "running"
            BY <1>3 DEF CollectGates, RoomInv, Tracked
          <5> QED
            BY <3>2, <5>1 DEF Post
        <4> QED
          BY <2>0, <4>1, <4>2 DEF Typed
      <3> QED
        BY <2>3, <3>1, <3>2
    <2>4. CASE ServerStops
      BY <2>4 DEF ServerStops, Fault
    <2>5. ServerStarts \/ (\E s \in Slots : Age(s)) => UNCHANGED at
      BY DEF ServerStarts, Age
    <2> QED
      BY <2>1, <2>2, <2>3, <2>4, <2>5 DEF Next
  <1> QED
    BY <1>1, <1>2, <1>3, PTL DEF Spec, RetryIsNeverRefused

-----------------------------------------------------------------------------
(* Types. *)

\* What the invariants above do not type: who may be at which step, the dashboard and the
\* bound of faults.
AtTheirOwn == /\ at[Pass] \notin {"recheck", "collect"}
              /\ \A p \in Clicked : at[p] \notin {"next", "report"}
DashTyped  == server \in BOOLEAN /\ orphan \in [Clicked -> BOOLEAN] /\ faults \in 0..MaxFaults

\* Every step is free of faults or costs one that is left.
LEMMA FaultsAreBounded ==
  ASSUME faults \in 0..MaxFaults, [Next]_vars PROVE faults' \in 0..MaxFaults
  <1>1. ASSUME UNCHANGED faults \/ Fault PROVE faults' \in 0..MaxFaults
    <2>1. MaxFaults \in Nat
      BY HealAssumption
    <2> QED
      BY <1>1, <2>1 DEF Fault
  <1>2. ASSUME NEW c \in Callers, HealStep(c) PROVE UNCHANGED faults \/ Fault
    <2>1. Heal(c) => UNCHANGED faults \/ Fault
      BY DEF Heal, Calls
    <2>2. Cut(c) => UNCHANGED faults \/ Fault
      BY DEF Cut
    <2>3. Agent(c) => UNCHANGED faults
      BY DEF Agent
    <2>4. Verify(c) \/ Commit(c) \/ PushBranch(c) \/ OpenPr(c) => UNCHANGED faults
      BY DEF Verify, Commit, PushBranch, OpenPr
    <2>5. Remove(c) => UNCHANGED faults \/ Fault
      BY DEF Remove, Calls
    <2> QED
      BY <1>2, <2>1, <2>2, <2>3, <2>4, <2>5 DEF HealStep
  <1>3. PassStep \/ PassKilled => UNCHANGED faults \/ Fault
    BY DEF PassStep, BeginPass, Calls, Consider, Report, EndPass, PassKilled
  <1>4. ASSUME NEW p \in Clicked
        PROVE  Post(p, "recheck") \/ Post(p, "collect") \/ CollectGates(p) \/ Raises(p)
                 => UNCHANGED faults \/ Fault
    BY DEF Post, CollectGates, Raises, Calls
  <1>5. ServerStops \/ ServerStarts \/ (\E s \in Slots : Age(s)) => UNCHANGED faults \/ Fault
    BY DEF ServerStops, ServerStarts, Age
  <1>6. UNCHANGED vars => UNCHANGED faults
    BY DEF vars
  <1> QED
    BY <1>1, <1>2, <1>3, <1>4, <1>5, <1>6 DEF Next

\* No caller comes to a step that is not of its kind, and the tracker keeps its types.
LEMMA NextTypes == IInv /\ AtTheirOwn /\ DashTyped /\ [Next]_vars => AtTheirOwn' /\ DashTyped'
  <1> SUFFICES ASSUME IInv, AtTheirOwn, DashTyped, [Next]_vars PROVE AtTheirOwn' /\ DashTyped'
    OBVIOUS
  <1>0. /\ Typed /\ Pass \in Callers /\ Pass \notin Clicked /\ \A p \in Clicked : p \in Callers
        /\ faults' \in 0..MaxFaults
    BY FaultsAreBounded, PassCaller, HealAssumption DEF IInv, Callers, DashTyped
  <1>1. ASSUME NEW c \in Callers, NEW step, at' = [at EXCEPT ![c] = step],
               IF c = Pass THEN step \notin {"recheck", "collect"} ELSE step \notin {"next", "report"}
        PROVE  AtTheirOwn'
    BY <1>0, <1>1 DEF AtTheirOwn, Typed
  <1>2. UNCHANGED at => AtTheirOwn'
    BY DEF AtTheirOwn
  <1>3. UNCHANGED <<server, orphan>> => DashTyped'
    BY <1>0 DEF DashTyped
  <1>4. ASSUME NEW c \in Callers, HealStep(c) PROVE AtTheirOwn' /\ DashTyped'
    <2>1. Cuts(c) \/ Returns(c) \/ GoesOn(c)
      BY <1>4, HealStepShapes
    <2>2. Cuts(c) => at' = [at EXCEPT ![c] = "agent"]
      BY DEF Cuts, Go
    <2>3. Returns(c) => at' = [at EXCEPT ![c] = IF c = Pass THEN "next" ELSE "idle"]
      BY DEF Returns, Return, Go
    <2>4. GoesOn(c) => \E step \in Working \cup {"cut"} : at' = [at EXCEPT ![c] = step]
      BY DEF GoesOn, Go
    <2>5. UNCHANGED <<server, orphan>>
      BY <1>4 DEF HealStep, Heal, Cut, Agent, Verify, Commit, PushBranch, OpenPr, Remove, HealFrame
    <2> QED
      BY <1>1, <1>3, <2>1, <2>2, <2>3, <2>4, <2>5 DEF Working
  <1>5. CASE PassStep \/ PassKilled
    <2>1. UNCHANGED at \/ \E step \in {"next", "heal", "report", "idle"} : at' = [at EXCEPT ![Pass] = step]
      BY <1>5 DEF PassStep, BeginPass, Consider, Report, EndPass, PassKilled, Go
    <2>2. UNCHANGED <<server, orphan>>
      BY <1>5 DEF PassStep, BeginPass, Consider, Report, EndPass, PassKilled, dash
    <2> QED
      BY <1>0, <1>1, <1>2, <1>3, <2>1, <2>2
  <1>6. ASSUME NEW p \in Clicked, NEW step \in {"recheck", "collect"}, Post(p, step)
        PROVE  AtTheirOwn' /\ DashTyped'
    <2>1. PICK started \in BOOLEAN :
            /\ orphan' = [orphan EXCEPT ![p] = ~started]
            /\ at' = [at EXCEPT ![p] = step] \/ UNCHANGED at
      BY <1>6 DEF Post, Go
    <2>2. UNCHANGED server
      BY <1>6 DEF Post
    <2>3. DashTyped'
      BY <1>0, <2>1, <2>2 DEF DashTyped
    <2> QED
      BY <1>0, <1>1, <1>2, <2>1, <2>3
  <1>7. ASSUME NEW p \in Clicked, CollectGates(p) \/ Raises(p) PROVE AtTheirOwn' /\ DashTyped'
    <2>1. at' = [at EXCEPT ![p] = "idle"] \/ at' = [at EXCEPT ![p] = "heal"]
      BY <1>7 DEF CollectGates, Raises, Settle, Go
    <2>2. UNCHANGED <<server, orphan>>
      BY <1>7 DEF CollectGates, Raises
    <2> QED
      BY <1>0, <1>1, <1>3, <2>1, <2>2
  <1>8. CASE ServerStops
    <2>1. /\ server' = FALSE /\ orphan' = [p \in Clicked |-> FALSE]
          /\ at' = [c \in Callers |-> IF c = Pass THEN at[c] ELSE "idle"]
      BY <1>8 DEF ServerStops
    <2> QED
      BY <1>0, <2>1 DEF AtTheirOwn, DashTyped
  <1>9. CASE ServerStarts
    BY <1>0, <1>2, <1>9 DEF ServerStarts, DashTyped
  <1>10. CASE (\E s \in Slots : Age(s)) \/ UNCHANGED vars
    BY <1>2, <1>3, <1>10 DEF Age, vars, dash
  <1> QED
    BY <1>4, <1>5, <1>6, <1>7, <1>8, <1>9, <1>10 DEF Next

\* Every variable keeps its kind, and every caller its own steps.
THEOREM TypeCorrect == Spec => []TypeOK
  <1>1. ASSUME Init PROVE AtTheirOwn /\ DashTyped
    <2>1. MaxFaults \in Nat
      BY HealAssumption
    <2>2. \A c \in Callers : at[c] = "idle"
      BY <1>1 DEF Init
    <2>3. server \in BOOLEAN /\ orphan \in [Clicked -> BOOLEAN] /\ faults = 0
      BY <1>1 DEF Init
    <2> QED
      BY <2>1, <2>2, <2>3, PassCaller DEF AtTheirOwn, DashTyped, Callers
  <1>2. Spec => [](IInv /\ Ledger)
    BY InitLedger, NextLedger, Invariance, PTL DEF Spec
  <1>3. Spec => []RoomInv
    BY <1>2, InitRoom, NextRoom, PTL DEF Spec
  <1>4. Spec => [](AtTheirOwn /\ DashTyped)
    BY <1>1, <1>2, NextTypes, PTL DEF Spec
  <1>5. IInv /\ Ledger /\ RoomInv /\ AtTheirOwn /\ DashTyped => TypeOK
    BY DEF IInv, Typed, Ledger, LedgerTyped, RoomInv, Tracked, AtTheirOwn, DashTyped, TypeOK, Steps
  <1> QED
    BY <1>2, <1>3, <1>4, <1>5, PTL
=============================================================================
