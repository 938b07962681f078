----------------------------- MODULE ChecksProofs -----------------------------
(***************************************************************************)
(* The checks cache, and the passes that share an entry of it.             *)
(*                                                                         *)
(* LockedFile keeps the promise of AtomicFile, for all writers, contents,  *)
(* updates and fault bounds.  The inductive invariant says who may be      *)
(* inside the body: as long as no lock and no read failed, one writer at a *)
(* time, the holder of the flock, and until it replaces the file what it   *)
(* loaded is what the file holds.  With what a writer declines, that keeps *)
(* a newer build's cache (CheckCache).                                     *)
(*                                                                         *)
(* In CheckPass, where a save is one step, a stamped pass is true, for all *)
(* trees, gates and numbers of passes, as long as the worktree changed at  *)
(* most once while it was made.  The inductive invariant follows one pass  *)
(* through its run: what it still knows of the worktree after no change    *)
(* and after one, and why the second look cannot be clean at the old HEAD  *)
(* when the gate ran on another tree.                                      *)
(***************************************************************************)
EXTENDS CheckPass, CheckCache, TLAPS

-----------------------------------------------------------------------------
(* LockedFile. *)

Inside == {"load", "write", "replace", "sync", "unlock"}

\* What a writer holds is sound: it has an update to make, a base that was read.
Equipped ==
  /\ file \in Contents /\ versions \subseteq Contents
  /\ file \in versions
  /\ base \in [Writers -> Contents]
  /\ \A w \in Writers : step[w] # Free => update[w] \in Updates

\* The writer inside the body holds the lock, alone.
Exclusive == \A w \in Writers : step[w] \in Inside => holders = {w}

\* What it loaded is still what the file holds.
BaseIsCurrent == \A w \in Writers : step[w] \in {"write", "replace"} => base[w] = file

StoreInv == StoreTypeOK /\ Equipped /\ (~unguarded => Exclusive /\ BaseIsCurrent)

-----------------------------------------------------------------------------

\* The initial state satisfies the invariant.
LEMMA InitStoreInv == StoreInit => StoreInv
  <1> SUFFICES ASSUME StoreInit PROVE StoreInv
    OBVIOUS
  <1>1. unguarded \in BOOLEAN
    BY DEF StoreInit
  <1>2. /\ file \in Contents \cup {Torn}
        /\ versions \subseteq Contents \cup {Torn}
        /\ holders \subseteq Writers
        /\ step   \in [Writers -> StoreSteps]
        /\ update \in [Writers -> Updates \cup {NoUpdate}]
        /\ base   \in [Writers -> Contents \cup {Torn}]
        /\ faults \in 0..MaxFaults
    BY ContentsAssumption DEF StoreInit, StoreSteps
  <1>3. StoreTypeOK
    BY <1>1, <1>2 DEF StoreTypeOK
  <1>4. Equipped
    BY ContentsAssumption DEF StoreInit, Equipped
  <1>5. Exclusive /\ BaseIsCurrent
    BY DEF StoreInit, Exclusive, BaseIsCurrent, Inside, Free
  <1> QED
    BY <1>3, <1>4, <1>5 DEF StoreInv

\* Nothing a step does to a writer's place makes unguarded writing unseen.
LEMMA UnguardedStays == StoreTypeOK /\ StoreNext => (unguarded => unguarded')
  BY DEF StoreTypeOK, StoreNext, StoreStep, Proceed, Call, Lock, LockFails, Load, LoadFails,
         WriteTemp, Replace, SyncDirectory, Unlock, Dies, PowerLoss

\* The steps of a call keep every variable in its kind.
LEMMA StoreStepTypes ==
  ASSUME StoreTypeOK, Equipped, StoreNext
  PROVE  StoreTypeOK' /\ Equipped'
  <1> USE ContentsAssumption DEF StoreTypeOK, Equipped, StoreSteps
  <1>1. ASSUME NEW w \in Writers, NEW u \in Updates, Call(w, u)
        PROVE  StoreTypeOK' /\ Equipped'
    BY <1>1 DEF Call, StepTo
  <1>2. ASSUME NEW w \in Writers, Lock(w)
        PROVE  StoreTypeOK' /\ Equipped'
    BY <1>2 DEF Lock, StepTo, Free
  <1>3. ASSUME NEW w \in Writers, LockFails(w)
        PROVE  StoreTypeOK' /\ Equipped'
    BY <1>3 DEF LockFails, StepTo, Free, Fault
  <1>4. ASSUME NEW w \in Writers, Load(w)
        PROVE  StoreTypeOK' /\ Equipped'
    BY <1>4 DEF Load, StepTo, AfterLoad, Free
  <1>5. ASSUME NEW w \in Writers, LoadFails(w)
        PROVE  StoreTypeOK' /\ Equipped'
    BY <1>5 DEF LoadFails, StepTo, AfterLoad, Free, Fault
  <1>6. ASSUME NEW w \in Writers, WriteTemp(w)
        PROVE  StoreTypeOK' /\ Equipped'
    BY <1>6 DEF WriteTemp, StepTo, Free, Fault
  <1>7. ASSUME NEW w \in Writers, Replace(w)
        PROVE  StoreTypeOK' /\ Equipped'
    <2>1. Apply(update[w], base[w]) \in Contents
      BY <1>7 DEF Replace, StepTo, Free
    <2> QED
      BY <1>7, <2>1 DEF Replace, StepTo, Free
  <1>8. ASSUME NEW w \in Writers, SyncDirectory(w)
        PROVE  StoreTypeOK' /\ Equipped'
    BY <1>8 DEF SyncDirectory, StepTo, Free, Fault
  <1>9. ASSUME NEW w \in Writers, Unlock(w)
        PROVE  StoreTypeOK' /\ Equipped'
    BY <1>9 DEF Unlock, Release, Free
  <1>10. ASSUME NEW w \in Writers, Dies(w)
         PROVE  StoreTypeOK' /\ Equipped'
    BY <1>10 DEF Dies, Release, Free, Fault
  <1>11. CASE PowerLoss
    BY <1>11 DEF PowerLoss, Free, Fault
  <1> QED
    BY <1>1, <1>2, <1>3, <1>4, <1>5, <1>6, <1>7, <1>8, <1>9, <1>10, <1>11
    DEF StoreNext, StoreStep, Proceed

\* While locks and reads succeed, a step leaves at most one writer inside, with
\* a base that is still what the file holds.
LEMMA StepExclusive ==
  ASSUME StoreTypeOK, Equipped, Exclusive, BaseIsCurrent, StoreNext, ~unguarded'
  PROVE  Exclusive' /\ BaseIsCurrent'
  <1> USE DEF StoreTypeOK, Exclusive, BaseIsCurrent, Inside, StoreSteps
  <1>1. ASSUME NEW w \in Writers, NEW u \in Updates, Call(w, u)
        PROVE  Exclusive' /\ BaseIsCurrent'
    BY <1>1 DEF Call, StepTo
  <1>2. ASSUME NEW w \in Writers, Lock(w)
        PROVE  Exclusive' /\ BaseIsCurrent'
    BY <1>2 DEF Lock, StepTo
  <1>3. ASSUME NEW w \in Writers, Load(w)
        PROVE  Exclusive' /\ BaseIsCurrent'
    BY <1>3 DEF Load, StepTo, AfterLoad
  <1>4. ASSUME NEW w \in Writers, WriteTemp(w)
        PROVE  Exclusive' /\ BaseIsCurrent'
    BY <1>4 DEF WriteTemp, StepTo
  <1>5. ASSUME NEW w \in Writers, Replace(w)
        PROVE  Exclusive' /\ BaseIsCurrent'
    <2>1. \A v \in Writers : v # w => step[v] \notin Inside
      BY <1>5 DEF Replace, StepTo
    <2> QED
      BY <1>5, <2>1 DEF Replace, StepTo
  <1>6. ASSUME NEW w \in Writers, SyncDirectory(w)
        PROVE  Exclusive' /\ BaseIsCurrent'
    BY <1>6 DEF SyncDirectory, StepTo
  <1>7. ASSUME NEW w \in Writers, Unlock(w)
        PROVE  Exclusive' /\ BaseIsCurrent'
    <2>1. \A v \in Writers : v # w => step[v] \notin Inside
      BY <1>7 DEF Unlock
    <2> QED
      BY <1>7, <2>1 DEF Unlock, Release, Free
  <1>8. ASSUME NEW w \in Writers, Dies(w)
        PROVE  Exclusive' /\ BaseIsCurrent'
    <2>1. \A v \in Writers : v # w /\ step[v] \in Inside => holders = {v}
      OBVIOUS
    <2> QED
      BY <1>8, <2>1 DEF Dies, Release, Free
  <1>9. CASE PowerLoss
    BY <1>9 DEF PowerLoss, Free
  <1> QED
    BY <1>1, <1>2, <1>3, <1>4, <1>5, <1>6, <1>7, <1>8, <1>9
    DEF StoreNext, StoreStep, Proceed, LockFails, LoadFails

\* Every step preserves the invariant.
LEMMA StepStoreInv == StoreInv /\ [StoreNext]_fileVars => StoreInv'
  <1> SUFFICES ASSUME StoreInv, [StoreNext]_fileVars PROVE StoreInv'
    OBVIOUS
  <1>1. CASE StoreNext
    <2>1. StoreTypeOK' /\ Equipped'
      BY <1>1, StoreStepTypes DEF StoreInv
    <2>2. ~unguarded' => Exclusive' /\ BaseIsCurrent'
      BY <1>1, UnguardedStays, StepExclusive DEF StoreInv
    <2> QED
      BY <2>1, <2>2 DEF StoreInv
  <1>2. CASE UNCHANGED fileVars
    BY <1>2 DEF fileVars, StoreInv, StoreTypeOK, Equipped, Exclusive, BaseIsCurrent
  <1> QED
    BY <1>1, <1>2

\* The invariant holds in every behaviour of the protocol.
THEOREM StoreInvariance == StoreSpec => []StoreInv
  BY InitStoreInv, StepStoreInv, PTL DEF StoreSpec

-----------------------------------------------------------------------------

\* Every variable keeps its kind.
THEOREM StoreTypeCorrect == StoreSpec => []StoreTypeOK
  <1>1. StoreInv => StoreTypeOK
    BY DEF StoreInv
  <1> QED
    BY <1>1, StoreInvariance, PTL

\* However writers die and machines lose power, a version the path names, or may
\* come to name, was written and fsynced whole.
THEOREM NeverTornHolds == StoreSpec => []NeverTorn
  <1>1. StoreInv => NeverTorn
    BY ContentsAssumption DEF StoreInv, Equipped, NeverTorn
  <1> QED
    BY <1>1, StoreInvariance, PTL

\* While nothing failed and nobody was killed, only a writer that has not
\* returned yet can have its write undone by a power loss.
THEOREM SavedIsDurableHolds == StoreSpec => []SavedIsDurable
  <1>1. StoreInit => SavedIsDurable
    BY DEF StoreInit, SavedIsDurable
  <1>2. StoreTypeOK /\ SavedIsDurable /\ [StoreNext]_fileVars => SavedIsDurable'
    <2> SUFFICES ASSUME StoreTypeOK, SavedIsDurable, [StoreNext]_fileVars,
                        faults' = 0, \A w \in Writers : step'[w] # "sync"
                 PROVE  versions' = {file'}
      BY DEF SavedIsDurable
    <2>1. CASE UNCHANGED fileVars
      BY <2>1 DEF fileVars, SavedIsDurable
    <2>2. ~Fault
      BY ContentsAssumption DEF StoreTypeOK, Fault
    <2>3. ASSUME NEW w \in Writers, Replace(w)
          PROVE  FALSE
      BY <2>3 DEF Replace, StepTo, StoreTypeOK
    <2>4. ASSUME NEW w \in Writers, SyncDirectory(w)
          PROVE  versions' = {file'}
      BY <2>2, <2>4 DEF SyncDirectory
    <2>5. ASSUME NEW w \in Writers, UNCHANGED <<file, versions, faults>>,
                 step[w] # "sync", \A v \in Writers : v # w => step'[v] = step[v]
          PROVE  versions' = {file'}
      BY <2>5 DEF SavedIsDurable
    <2>6. ASSUME NEW w \in Writers, NEW u \in Updates, Call(w, u)
          PROVE  versions' = {file'}
      BY <2>5, <2>6 DEF Call, StepTo, Free, StoreTypeOK
    <2>7. ASSUME NEW w \in Writers, Lock(w) \/ Load(w) \/ WriteTemp(w) \/ Unlock(w)
          PROVE  versions' = {file'}
      BY <2>2, <2>5, <2>7
      DEF Lock, Load, WriteTemp, Unlock, Release, StepTo, Free, StoreTypeOK
    <2> QED
      BY <2>1, <2>2, <2>3, <2>4, <2>6, <2>7
      DEF StoreNext, StoreStep, Proceed, LockFails, LoadFails, Dies, PowerLoss
  <1> QED
    BY <1>1, <1>2, StoreTypeCorrect, PTL DEF StoreSpec

\* A step under the invariant is a step of AtomicFile, or none of the file.
LEMMA StepKeepsPromise ==
  ASSUME StoreInv, StoreNext, ~unguarded'
  PROVE  Promise!Next \/ UNCHANGED <<file, versions>>
  <1>1. Exclusive /\ BaseIsCurrent
    BY UnguardedStays DEF StoreInv
  <1>2. ASSUME NEW w \in Writers, Replace(w)
        PROVE  Promise!Next
    <2>1. update[w] \in Updates /\ base[w] = file
      BY <1>1, <1>2 DEF StoreInv, Equipped, BaseIsCurrent, Replace, StepTo, Free
    <2>2. Promise!Update(update[w])
      BY <1>2, <2>1 DEF Replace, Promise!Update
    <2> QED
      BY <2>1, <2>2 DEF Promise!Next
  <1>3. ASSUME NEW w \in Writers, SyncDirectory(w)
        PROVE  Promise!Next \/ UNCHANGED <<file, versions>>
    BY <1>3 DEF SyncDirectory, Promise!Next, Promise!Sync
  <1>4. CASE PowerLoss
    BY <1>4 DEF PowerLoss, Promise!Next, Promise!PowerLoss
  <1> QED
    BY <1>2, <1>3, <1>4
    DEF StoreNext, StoreStep, Proceed, Call, Lock, LockFails, Load, LoadFails,
        WriteTemp, Unlock, Release, Dies

\* A power loss leaves a whole file, and no write that returned is undone.
THEOREM PowerLossIsSafeHolds == StoreSpec => []PowerLossIsSafe
  BY NeverTornHolds, SavedIsDurableHolds, PTL DEF PowerLossIsSafe

\* No update is lost and none is half applied: as long as locks and reads succeed
\* the protocol takes only the steps of AtomicFile.
THEOREM NoLostUpdateHolds == StoreSpec => NoLostUpdate
  <1>1. StoreInv /\ [StoreNext]_fileVars => [~unguarded' => Promise!Next]_<<file, versions>>
    <2> SUFFICES ASSUME StoreInv, [StoreNext]_fileVars
                 PROVE  [~unguarded' => Promise!Next]_<<file, versions>>
      OBVIOUS
    <2>1. CASE StoreNext
      BY <2>1, StepKeepsPromise
    <2>2. CASE UNCHANGED fileVars
      BY <2>2 DEF fileVars
    <2> QED
      BY <2>1, <2>2
  <1> QED
    BY <1>1, StoreInvariance, PTL DEF StoreSpec, NoLostUpdate

\* Where nothing fails and nobody is killed, the protocol implements AtomicFile.
THEOREM Implementation == MaxFaults = 0 => (StoreSpec => Promise!Spec)
  <1>0. SUFFICES ASSUME MaxFaults = 0 PROVE StoreSpec => Promise!Spec
    OBVIOUS
  <1>1. StoreInit => Promise!Init /\ ~unguarded
    BY DEF StoreInit, Promise!Init
  <1>2. StoreInv /\ ~unguarded /\ [StoreNext]_fileVars
          => ~unguarded' /\ [Promise!Next]_<<file, versions>>
    <2> SUFFICES ASSUME StoreInv, ~unguarded, [StoreNext]_fileVars
                 PROVE  ~unguarded' /\ [Promise!Next]_<<file, versions>>
      OBVIOUS
    <2>1. ~Fault
      BY <1>0 DEF StoreInv, StoreTypeOK, Fault
    <2>2. CASE StoreNext
      <3>1. ~unguarded'
        BY <2>1, <2>2 DEF StoreNext, StoreStep, Proceed, Call, Lock, LockFails, Load,
           LoadFails, WriteTemp, Replace, SyncDirectory, Unlock, Dies, PowerLoss
      <3> QED
        BY <2>2, <3>1, StepKeepsPromise
    <2>3. CASE UNCHANGED fileVars
      BY <2>3 DEF fileVars
    <2> QED
      BY <2>2, <2>3
  <1> QED
    BY <1>1, <1>2, StoreInvariance, PTL DEF StoreSpec, Promise!Spec, Promise!vars

-----------------------------------------------------------------------------
(* The cache of a newer build. *)

\* Who goes on to write has read contents it does not decline.
Willing == \A w \in Writers : step[w] \in {"write", "replace"} => ~Declines(update[w], base[w])

\* Every step keeps it: only a load, from the file or failed, leads to a write.
LEMMA StepWilling == StoreInv /\ Willing /\ [StoreNext]_fileVars => Willing'
  <1> SUFFICES ASSUME StoreInv, Willing, [StoreNext]_fileVars,
                      NEW w \in Writers, step'[w] \in {"write", "replace"}
               PROVE  ~Declines(update'[w], base'[w])
    BY DEF Willing
  <1> USE DEF StoreInv, StoreTypeOK, StepTo, Free
  <1>1. CASE UNCHANGED <<step, update, base>>
    BY <1>1 DEF Willing
  <1>2. ASSUME NEW v \in Writers, NEW u, Call(v, u)
        PROVE  ~Declines(update'[w], base'[w])
    BY <1>2 DEF Call, Willing
  <1>3. ASSUME NEW v \in Writers, Lock(v) \/ LockFails(v) \/ SyncDirectory(v) \/ Replace(v)
        PROVE  ~Declines(update'[w], base'[w])
    BY <1>3 DEF Lock, LockFails, SyncDirectory, Replace, Willing
  <1>4. ASSUME NEW v \in Writers, Load(v) \/ LoadFails(v)
        PROVE  ~Declines(update'[w], base'[w])
    BY <1>4 DEF Load, LoadFails, AfterLoad, Willing
  <1>5. ASSUME NEW v \in Writers, WriteTemp(v)
        PROVE  ~Declines(update'[w], base'[w])
    BY <1>5 DEF WriteTemp, Willing
  <1>6. ASSUME NEW v \in Writers, Unlock(v) \/ Dies(v)
        PROVE  ~Declines(update'[w], base'[w])
    BY <1>6 DEF Unlock, Dies, Release, Willing
  <1>7. CASE PowerLoss
    BY <1>7 DEF PowerLoss
  <1> QED
    BY <1>1, <1>2, <1>3, <1>4, <1>5, <1>6, <1>7 DEF StoreNext, StoreStep, Proceed, fileVars

\* An update that does not leave a newer build's cache alone is a newer build's.
LEMMA NewerBuildOnly ==
  ASSUME NEW u \in CacheUpdates, NEW c \in CacheContents, c.version = "newer", ~LeavesAlone(u, c)
  PROVE  Updated(u, c).version = "newer"
  <1>1. u.op = "newer"
    BY DEF LeavesAlone
  <1>2. Updated(u, c) = [c EXCEPT !.version = "newer"]
    BY <1>1 DEF Updated
  <1> QED
    BY <1>2 DEF CacheContents

\* "The file is left for the build that owns it" (save_results), for any keys, results and
\* writers: only a power loss takes a newer build's cache away, while locks and reads succeed.
THEOREM NewerCacheKeptHolds == IsCheckCache => (StoreSpec => NewerCacheKept)
  <1> SUFFICES ASSUME IsCheckCache PROVE StoreSpec => NewerCacheKept
    OBVIOUS
  <1> DEFINE Kept == ~unguarded' /\ file.version = "newer" /\ file'.version # "newer"
                       => file' \in versions /\ \A w \in Writers : step'[w] = Free
  <1>1. StoreInit => Willing
    BY DEF StoreInit, Willing, Free
  <1>2. StoreInv /\ Willing /\ [StoreNext]_fileVars => [Kept]_fileVars
    <2> SUFFICES ASSUME StoreInv, Willing, StoreNext,
                        ~unguarded', file.version = "newer", file'.version # "newer"
                 PROVE  file' \in versions /\ \A w \in Writers : step'[w] = Free
      OBVIOUS
    <2>1. BaseIsCurrent
      BY UnguardedStays DEF StoreInv
    <2>2. CASE PowerLoss
      BY <2>2 DEF PowerLoss
    <2>3. ASSUME NEW w \in Writers, Replace(w)
          PROVE  FALSE
      <3>1. /\ update[w] \in CacheUpdates /\ base[w] = file /\ file \in CacheContents
            /\ ~Declines(update[w], base[w]) /\ file' = Apply(update[w], base[w])
        BY <2>1, <2>3 DEF StoreInv, Equipped, BaseIsCurrent, Willing, Replace, StepTo, Free, IsCheckCache
      <3>2. ~LeavesAlone(update[w], file) /\ file' = Updated(update[w], file)
        BY <3>1 DEF IsCheckCache
      <3> QED
        BY <3>1, <3>2, NewerBuildOnly
    <2> QED
      BY <2>2, <2>3
      DEF StoreNext, StoreStep, Proceed, Call, Lock, LockFails, Load, LoadFails, WriteTemp,
          SyncDirectory, Unlock, Dies
  <1> QED
    BY <1>1, <1>2, StepWilling, StoreInvariance, PTL DEF StoreSpec, NewerCacheKept

-----------------------------------------------------------------------------
(* CheckPass. *)

\* A stamped pass made in a steady worktree is what the gate says of its commit.
Honest(r) == Stamped(r) /\ r.steady => r.head \in Good

\* After rev-parse: HEAD is where it was, or the one change left it clean.
AtStatus(p) ==
  /\ moves[p] = 0 => head = rev[p]
  /\ moves[p] = 1 => head = rev[p] \/ head = content

\* Before the gate: the worktree holds the identity, or something else for good.
AtGate(p) ==
  identity[p] # NoHead =>
    /\ moves[p] = 0 => head = identity[p] /\ content = identity[p]
    /\ moves[p] = 1 => (head = identity[p] /\ content = identity[p]) \/ content # identity[p]

\* After the gate: the pass is true of the identity, or the one change shows.
AtRev2(p) ==
  /\ identity[p] # NoHead /\ result[p] # NoResult
  /\ moves[p] < 2 /\ result[p].status = "pass" =>
       \/ identity[p] \in Good
       \/ moves[p] = 1 /\ ~(head = identity[p] /\ content = identity[p])

AtStatus2(p) ==
  /\ identity[p] # NoHead /\ result[p] # NoResult
  /\ moves[p] < 2 /\ result[p].status = "pass" =>
       \/ identity[p] \in Good
       \/ moves[p] = 1 /\ (rev[p] # identity[p] \/ content # head)

Knows(p) ==
  /\ at[p] \in {"idle", "rev"} => identity[p] = NoHead /\ moves[p] = 0
  /\ at[p] = "status"  => AtStatus(p)
  /\ at[p] = "gate"    => AtGate(p)
  /\ at[p] = "rev2"    => AtRev2(p)
  /\ at[p] = "status2" => AtStatus2(p)
  /\ at[p] \in {"save", "report"} => result[p] # NoResult /\ Honest(result[p])
  /\ Honest(cached[p])

PassInv == TypeOK /\ Honest(cache) /\ \A p \in Passes : Knows(p)

-----------------------------------------------------------------------------

\* No result says nothing.
LEMMA NothingIsHonest == Honest(NoResult)
  BY DEF Honest, Stamped

\* The initial state satisfies the invariant.
LEMMA InitPassInv == Init => PassInv
  <1> SUFFICES ASSUME Init PROVE PassInv
    OBVIOUS
  <1>1. TypeOK
    BY DEF Init, TypeOK, MaybeResult, Heads, Places
  <1>2. Honest(cache) /\ \A p \in Passes : Knows(p)
    BY NothingIsHonest DEF Init, Knows
  <1> QED
    BY <1>1, <1>2 DEF PassInv

\* A step of one pass leaves what the others know alone.
LEMMA OthersKnow ==
  ASSUME NEW p \in Passes, NEW q \in Passes, p # q, Knows(q), UNCHANGED worktree,
         at'[q] = at[q], cached'[q] = cached[q], rev'[q] = rev[q],
         identity'[q] = identity[q], result'[q] = result[q], moves'[q] = moves[q]
  PROVE  Knows(q)'
  BY DEF Knows, AtStatus, AtGate, AtRev2, AtStatus2, worktree, Honest, Stamped

\* The steps of a pass keep every variable in its kind.
LEMMA PassTypes ==
  ASSUME PassInv, NEW p \in Passes,
         \/ Begin(p) \/ BeginRecheck(p)
         \/ RevParse(p, "rev", "status") \/ FirstStatus(p) \/ RunGate(p)
         \/ RevParse(p, "rev2", "status2") \/ SecondStatus(p) \/ Save(p) \/ Over(p)
  PROVE  TypeOK'
  <1> USE DEF PassInv, TypeOK, GoesTo, Places, worktree
  <1>1. CASE Begin(p)
    BY <1>1 DEF Begin, MaybeResult
  <1>2. CASE BeginRecheck(p)
    BY <1>2 DEF BeginRecheck
  <1>3. CASE RevParse(p, "rev", "status") \/ RevParse(p, "rev2", "status2")
    BY <1>3 DEF RevParse, Heads
  <1>4. CASE FirstStatus(p)
    BY <1>4 DEF FirstStatus, CleanHeads, Heads, MaybeResult
  <1>5. CASE RunGate(p)
    <2>1. [status |-> IF content \in Good THEN "pass" ELSE "fail",
           head |-> identity[p], steady |-> TRUE] \in MaybeResult
      BY DEF MaybeResult, CheckResult
    <2> QED
      BY <1>5, <2>1 DEF RunGate
  <1>6. CASE SecondStatus(p)
    <2>1. PICK h \in Heads : Verified(p, h)
      BY <1>6 DEF SecondStatus, CleanHeads, Heads
    <2>2. result[p] \in CheckResult
      BY <2>1 DEF Verified, Knows, AtStatus2, MaybeResult
    <2>3. (moves[p] < 2) \in BOOLEAN
      OBVIOUS
    <2>4. [result[p] EXCEPT !.head = h, !.steady = moves[p] < 2] \in CheckResult
      BY <2>2, <2>3 DEF CheckResult
    <2>5. result' \in [Passes -> MaybeResult]
      BY <2>1, <2>4 DEF Verified, MaybeResult
    <2> QED
      BY <2>1, <2>5 DEF Verified, Heads
  <1>7. CASE Save(p)
    BY <1>7 DEF Save
  <1>8. CASE Over(p)
    BY <1>8 DEF Over, MaybeResult, Heads
  <1> QED
    BY <1>1, <1>2, <1>3, <1>4, <1>5, <1>6, <1>7, <1>8

\* The steps of a pass keep what it knows, and the cache honest.
LEMMA PassKnows ==
  ASSUME PassInv, NEW p \in Passes,
         \/ Begin(p) \/ BeginRecheck(p)
         \/ RevParse(p, "rev", "status") \/ FirstStatus(p) \/ RunGate(p)
         \/ RevParse(p, "rev2", "status2") \/ SecondStatus(p) \/ Save(p) \/ Over(p)
  PROVE  Knows(p)' /\ Honest(cache)'
  <1>0. Knows(p) /\ Honest(cache) /\ TypeOK
    BY DEF PassInv
  <1> USE <1>0 DEF Knows, TypeOK, GoesTo, worktree
  <1>1. CASE Begin(p)
    BY <1>1, NothingIsHonest DEF Begin, Honest, Stamped
  <1>2. CASE BeginRecheck(p)
    BY <1>2 DEF BeginRecheck, Honest, Stamped, AtGate
  <1>3. CASE RevParse(p, "rev", "status")
    BY <1>3 DEF RevParse, Honest, Stamped, AtStatus
  <1>4. CASE FirstStatus(p)
    <2>1. PICK h \in CleanHeads(p) :
            /\ IF Reusable(cached[p], h)
               THEN GoesTo(p, "status", "report") /\ result' = [result EXCEPT ![p] = cached[p]]
               ELSE GoesTo(p, "status", "gate") /\ UNCHANGED result
            /\ identity' = [identity EXCEPT ![p] = h]
            /\ cached'   = [cached EXCEPT ![p] = NoResult]
            /\ UNCHANGED <<worktree, cache, moves>>
      BY <1>4 DEF FirstStatus
    <2>2. Honest(cached[p])' /\ Honest(cache)'
      BY <2>1, NothingIsHonest DEF Honest, Stamped
    <2>3. CASE Reusable(cached[p], h)
      BY <2>1, <2>2, <2>3 DEF Reusable, Honest, Stamped
    <2>4. CASE ~Reusable(cached[p], h)
      <3>1. AtStatus(p)
        BY <2>1, <2>4
      <3>2. AtGate(p)'
        BY <2>1, <2>4, <3>1 DEF CleanHeads, AtStatus, AtGate
      <3> QED
        BY <2>1, <2>2, <2>4, <3>2
    <2> QED
      BY <2>3, <2>4
  <1>5. CASE RunGate(p)
    <2> DEFINE new == [status |-> IF content \in Good THEN "pass" ELSE "fail",
                       head |-> identity[p], steady |-> TRUE]
    <2>1. new \in CheckResult
      BY DEF CheckResult
    <2>2. result'[p] = new /\ new # NoResult
      BY <1>5, <2>1, NoResultAssumption DEF RunGate
    <2>3. Honest(cached[p])' /\ Honest(cache)'
      BY <1>5 DEF RunGate, Honest, Stamped
    <2>4. CASE identity[p] = NoHead
      BY <1>5, <2>2, <2>3, <2>4 DEF RunGate, Honest, Stamped
    <2>5. CASE identity[p] # NoHead
      <3>1. AtGate(p)
        BY <1>5 DEF RunGate
      <3>2. AtRev2(p)'
        BY <1>5, <2>2, <2>5, <3>1 DEF RunGate, AtGate, AtRev2
      <3> QED
        BY <1>5, <2>3, <2>5, <3>2 DEF RunGate
    <2> QED
      BY <2>4, <2>5
  <1>6. CASE RevParse(p, "rev2", "status2")
    <2>1. AtStatus2(p)'
      BY <1>6 DEF RevParse, AtRev2, AtStatus2
    <2> QED
      BY <1>6, <2>1 DEF RevParse, Honest, Stamped
  <1>7. CASE SecondStatus(p)
    <2>1. PICK h \in CleanHeads(p) : Verified(p, IF h = identity[p] THEN h ELSE NoHead)
      BY <1>7 DEF SecondStatus
    <2> DEFINE stamp == IF h = identity[p] THEN h ELSE NoHead
    <2>2. AtStatus2(p)
      BY <2>1 DEF Verified
    <2>3. result[p] \in CheckResult
      BY <2>2 DEF AtStatus2, MaybeResult
    <2>4. result'[p] = [result[p] EXCEPT !.head = stamp, !.steady = moves[p] < 2]
      BY <2>1 DEF Verified
    <2>5. /\ result'[p].status = result[p].status /\ result'[p].head = stamp
          /\ result'[p].steady <=> moves[p] < 2
      BY <2>3, <2>4 DEF CheckResult
    <2>6. (moves[p] < 2) \in BOOLEAN /\ stamp \in Heads
      BY <2>1 DEF CleanHeads, Heads
    <2>7. result'[p] \in CheckResult
      BY <2>3, <2>4, <2>6 DEF CheckResult
    <2>8. result'[p] # NoResult
      BY <2>7, NoResultAssumption
    <2>9. Honest(result[p])'
      <3>1. SUFFICES ASSUME result'[p].status = "pass", stamp # NoHead, moves[p] < 2
                     PROVE  stamp \in Good
        BY <2>5 DEF Honest, Stamped
      <3>2. stamp = identity[p] /\ h = identity[p] /\ h # NoHead
        BY <3>1
      <3>3. content = head /\ rev[p] = identity[p]
        BY <3>2, <2>1 DEF CleanHeads
      <3> QED
        BY <2>2, <2>5, <3>1, <3>2, <3>3 DEF AtStatus2
    <2> QED
      BY <2>1, <2>8, <2>9 DEF Verified, Honest, Stamped
  <1>8. CASE Save(p)
    BY <1>8 DEF Save, Honest, Stamped
  <1>9. CASE Over(p)
    BY <1>9, NothingIsHonest DEF Over, Honest, Stamped
  <1> QED
    BY <1>1, <1>2, <1>3, <1>4, <1>5, <1>6, <1>7, <1>8, <1>9

\* A pass touches no other pass.
LEMMA PassIsAlone ==
  ASSUME PassInv, NEW p \in Passes, NEW q \in Passes, p # q,
         \/ Begin(p) \/ BeginRecheck(p)
         \/ RevParse(p, "rev", "status") \/ FirstStatus(p) \/ RunGate(p)
         \/ RevParse(p, "rev2", "status2") \/ SecondStatus(p) \/ Save(p) \/ Over(p)
  PROVE  Knows(q)'
  <1>1. Knows(q)
    BY DEF PassInv
  <1>2. /\ UNCHANGED worktree
        /\ at'[q] = at[q] /\ cached'[q] = cached[q] /\ rev'[q] = rev[q]
        /\ identity'[q] = identity[q] /\ result'[q] = result[q] /\ moves'[q] = moves[q]
    BY DEF PassInv, TypeOK, Begin, BeginRecheck, RevParse, FirstStatus, RunGate,
           SecondStatus, Verified, Save, Over, GoesTo
  <1> QED
    BY <1>1, <1>2, OthersKnow

\* A change of the worktree keeps the invariant: it is the first a pass sees,
\* after which the second look fails, or the pass is not steady any more.
LEMMA WorktreeStep ==
  ASSUME PassInv, Commit \/ \E t \in Trees : Edit(t) \/ Switch(t)
  PROVE  PassInv'
  <1> USE DEF PassInv
  <1>1. /\ moves' = [p \in Passes |-> IF at[p] \notin {"idle", "rev"} /\ moves[p] < 2
                                      THEN moves[p] + 1 ELSE moves[p]]
        /\ UNCHANGED <<cache, at, cached, rev, identity, result>>
        /\ head' \in Trees /\ content' \in Trees
    BY DEF Commit, Edit, Switch, Moved, TypeOK
  <1>2. TypeOK'
    BY <1>1 DEF TypeOK
  <1>3. Honest(cache)'
    BY <1>1 DEF Honest, Stamped
  <1>4. ASSUME NEW p \in Passes PROVE Knows(p)'
    <2>1. Knows(p) /\ moves[p] \in 0..2
      BY DEF TypeOK
    <2>2. Honest(cached[p])'
      BY <1>1, <2>1 DEF Knows, Honest, Stamped
    <2>3. at'[p] \in {"idle", "rev"} => identity'[p] = NoHead /\ moves'[p] = 0
      BY <1>1, <2>1 DEF Knows
    <2>4. at'[p] \in {"save", "report"} => result'[p] # NoResult /\ Honest(result[p])'
      BY <1>1, <2>1 DEF Knows, Honest, Stamped
    <2>5. ASSUME at[p] \notin {"idle", "rev"}
          PROVE  (moves[p] = 0 /\ moves'[p] = 1) \/ moves'[p] = 2
      BY <1>1, <2>1, <2>5
    <2>6. \/ head' = head /\ content' # content
          \/ head' = content /\ content' = content /\ head # content
          \/ head' # head /\ content' = head'
      BY DEF Commit, Edit, Switch
    <2>7. at'[p] = "status" => AtStatus(p)'
      BY <1>1, <2>1, <2>5, <2>6 DEF Knows, AtStatus
    <2>8. at'[p] = "gate" => AtGate(p)'
      BY <1>1, <2>1, <2>5, <2>6 DEF Knows, AtGate
    <2>9. at'[p] = "rev2" => AtRev2(p)'
      BY <1>1, <2>1, <2>5, <2>6 DEF Knows, AtRev2
    <2>10. at'[p] = "status2" => AtStatus2(p)'
      BY <1>1, <2>1, <2>5, <2>6 DEF Knows, AtStatus2
    <2> QED
      BY <2>2, <2>3, <2>4, <2>7, <2>8, <2>9, <2>10 DEF Knows
  <1> QED
    BY <1>2, <1>3, <1>4

-----------------------------------------------------------------------------

\* Every step keeps the invariant.
LEMMA StepPassInv == PassInv /\ [Next]_vars => PassInv'
  <1> SUFFICES ASSUME PassInv, [Next]_vars PROVE PassInv'
    OBVIOUS
  <1>1. ASSUME NEW p \in Passes,
               \/ Begin(p) \/ BeginRecheck(p)
               \/ RevParse(p, "rev", "status") \/ FirstStatus(p) \/ RunGate(p)
               \/ RevParse(p, "rev2", "status2") \/ SecondStatus(p) \/ Save(p) \/ Over(p)
        PROVE  PassInv'
    <2>1. TypeOK'
      BY <1>1, PassTypes
    <2>2. Knows(p)' /\ Honest(cache)'
      BY <1>1, PassKnows
    <2>3. \A q \in Passes : p # q => Knows(q)'
      BY <1>1, PassIsAlone
    <2> QED
      BY <2>1, <2>2, <2>3 DEF PassInv
  <1>2. CASE Commit \/ \E t \in Trees : Edit(t) \/ Switch(t)
    BY <1>2, WorktreeStep
  <1>3. CASE UNCHANGED vars
    BY <1>3 DEF PassInv, vars, worktree, TypeOK, Knows, AtStatus, AtGate, AtRev2, AtStatus2,
                Honest, Stamped
  <1> QED
    BY <1>1, <1>2, <1>3 DEF Next

\* The invariant holds throughout.
THEOREM PassInvariance == Spec => []PassInv
  <1>1. Init => PassInv
    BY InitPassInv
  <1>2. PassInv /\ [Next]_vars => PassInv'
    BY StepPassInv
  <1> QED
    BY <1>1, <1>2, PTL DEF Spec

\* Every variable holds a value of its kind (the records and places of
\* __main__._project_checks).
THEOREM PassTypeCorrect == Spec => []TypeOK
  <1>1. PassInv => TypeOK
    BY DEF PassInv
  <1> QED
    BY <1>1, PassInvariance, PTL

\* A pass that --changed-only may reuse is one "a fresh run at that same HEAD"
\* would reproduce, if the worktree changed at most once while it was made
\* (__main__._project_checks).
THEOREM StampedPassIsTrueHolds == Spec => []StampedPassIsTrue
  <1>1. PassInv => StampedPassIsTrue
    BY DEF PassInv, Honest, StampedPassIsTrue
  <1> QED
    BY <1>1, PassInvariance, PTL

-----------------------------------------------------------------------------
(* What is reported is current. *)

\* From the gate on, a result says what the gate says of a worktree that has not
\* moved; a reused one does if it was made in a steady worktree.
Current(p) ==
  /\ moves[p] = 0
  /\ at[p] \in {"rev2", "status2", "save"} \/ (at[p] = "report" /\ result[p].steady)
  => (result[p].status = "pass" <=> content \in Good)

\* A pass' own steps keep it: the gate reads the worktree, and a result stands in
\* for a run only at the clean HEAD it is stamped with.
LEMMA PassIsCurrent ==
  ASSUME PassInv, NEW p \in Passes, Current(p),
         \/ Begin(p) \/ BeginRecheck(p)
         \/ RevParse(p, "rev", "status") \/ FirstStatus(p) \/ RunGate(p)
         \/ RevParse(p, "rev2", "status2") \/ SecondStatus(p) \/ Save(p) \/ Over(p)
  PROVE  Current(p)'
  <1>0. Knows(p) /\ TypeOK
    BY DEF PassInv
  <1> USE <1>0 DEF TypeOK, GoesTo, worktree, Current
  <1>1. CASE Begin(p) \/ BeginRecheck(p) \/ RevParse(p, "rev", "status") \/ Over(p)
    BY <1>1 DEF Begin, BeginRecheck, RevParse, Over
  <1>2. CASE FirstStatus(p)
    <2>1. PICK h \in CleanHeads(p) :
            /\ IF Reusable(cached[p], h)
               THEN GoesTo(p, "status", "report") /\ result' = [result EXCEPT ![p] = cached[p]]
               ELSE GoesTo(p, "status", "gate") /\ UNCHANGED result
            /\ UNCHANGED <<worktree, moves>>
      BY <1>2 DEF FirstStatus
    <2>2. CASE ~Reusable(cached[p], h)
      BY <2>1, <2>2
    <2>3. CASE Reusable(cached[p], h)
      <3>1. SUFFICES ASSUME moves[p] = 0, cached[p].steady
                     PROVE  cached[p].status = "pass" /\ content \in Good
        BY <2>1, <2>3
      <3>2. cached[p].status = "pass" /\ cached[p].head = h /\ h # NoHead
        BY <2>3 DEF Reusable
      <3>3. cached[p].head \in Good
        BY <3>1, <3>2, <2>3 DEF Knows, Honest, Stamped, Reusable
      <3>4. h = rev[p] /\ content = head
        BY <2>1, <3>2 DEF CleanHeads
      <3>5. head = rev[p]
        BY <2>1, <2>3, <3>1 DEF Knows, AtStatus
      <3> QED
        BY <3>2, <3>3, <3>4, <3>5
    <2> QED
      BY <2>2, <2>3
  <1>3. CASE RunGate(p)
    BY <1>3 DEF RunGate
  <1>4. CASE RevParse(p, "rev2", "status2") \/ Save(p)
    BY <1>4 DEF RevParse, Save
  <1>5. CASE SecondStatus(p)
    <2>1. PICK h \in Heads : Verified(p, h)
      BY <1>5 DEF SecondStatus, CleanHeads, Heads
    <2>2. result[p] \in CheckResult
      BY <2>1 DEF Verified, Knows, AtStatus2, MaybeResult
    <2>3. result'[p].status = result[p].status
      BY <2>1, <2>2 DEF Verified, CheckResult
    <2> QED
      BY <2>1, <2>3 DEF Verified
  <1> QED
    BY <1>1, <1>2, <1>3, <1>4, <1>5

\* Everybody else's steps do too: a change of the worktree counts as a move.
LEMMA StepIsCurrent ==
  PassInv /\ (\A p \in Passes : Current(p)) /\ [Next]_vars => (\A p \in Passes : Current(p))'
  <1> SUFFICES ASSUME PassInv, \A p \in Passes : Current(p), [Next]_vars, NEW q \in Passes
               PROVE  Current(q)'
    OBVIOUS
  <1>1. ASSUME NEW p \in Passes,
               \/ Begin(p) \/ BeginRecheck(p)
               \/ RevParse(p, "rev", "status") \/ FirstStatus(p) \/ RunGate(p)
               \/ RevParse(p, "rev2", "status2") \/ SecondStatus(p) \/ Save(p) \/ Over(p)
        PROVE  Current(q)'
    <2>1. CASE p = q
      BY <1>1, <2>1, PassIsCurrent
    <2>2. CASE p # q
      <3>1. /\ UNCHANGED worktree
            /\ at'[q] = at[q] /\ result'[q] = result[q] /\ moves'[q] = moves[q]
        BY <1>1, <2>2 DEF PassInv, TypeOK, Begin, BeginRecheck, RevParse, FirstStatus, RunGate,
               SecondStatus, Verified, Save, Over, GoesTo
      <3> QED
        BY <3>1 DEF Current, worktree
    <2> QED
      BY <2>1, <2>2
  <1>2. CASE Commit \/ \E t \in Trees : Edit(t) \/ Switch(t)
    <2>1. moves[q] \in 0..2 /\ UNCHANGED <<at, result>>
      BY <1>2 DEF PassInv, TypeOK, Commit, Edit, Switch, Moved
    <2>2. at[q] \notin {"idle", "rev"} => moves'[q] # 0
      BY <1>2, <2>1 DEF Commit, Edit, Switch, Moved
    <2> QED
      BY <2>1, <2>2 DEF Current
  <1>3. CASE UNCHANGED vars
    BY <1>3 DEF vars, worktree, Current
  <1> QED
    BY <1>1, <1>2, <1>3 DEF Next

\* What a pass reports of a worktree nobody touched is what the gate says of it,
\* for any number of passes sharing the cache (__main__._project_checks).
THEOREM ReportIsCurrentHolds == Spec => []ReportIsCurrent
  <1>1. Init => \A p \in Passes : Current(p)
    BY DEF Init, Current
  <1>2. (\A p \in Passes : Current(p)) => ReportIsCurrent
    BY DEF Current, ReportIsCurrent
  <1> QED
    BY <1>1, <1>2, StepIsCurrent, PassInvariance, PTL DEF Spec
=============================================================================
