------------------------------ MODULE LockedFile ------------------------------
(***************************************************************************)
(* A read-modify-write of a shared file under persist.locked and           *)
(* persist.atomic_write, by processes that may be killed at any step, on a *)
(* machine that may lose power (persist.py, and cache.save_results,        *)
(* cache.drop_result, history.record and registry.register_project, which  *)
(* have this shape).                                                       *)
(*                                                                         *)
(* The lock is best effort: when the sidecar cannot be opened or flocked   *)
(* the body runs unlocked, and an unreadable file reads as empty.  Both    *)
(* are steps here; `unguarded` remembers that one of them was taken.       *)
(***************************************************************************)
EXTENDS Naturals

CONSTANTS Writers,        \* processes that update the file
          Contents,       \* what the file may hold
          Start,          \* what it holds at first
          Empty,          \* what an unreadable file reads as
          Torn,           \* a file whose bytes never reached the platter
          Updates,        \* what a writer may do to it
          Apply(_, _),    \* Apply(u, c): what u makes of c
          Declines(_, _), \* Declines(u, c): having read c, u writes nothing
          NoUpdate,       \* a writer that has nothing to do
          MaxFaults       \* bound on failures of the filesystem and deaths

ASSUME ContentsAssumption ==
  /\ Start \in Contents /\ Empty \in Contents /\ Torn \notin Contents
  /\ NoUpdate \notin Updates
  /\ MaxFaults \in Nat
  /\ \A u \in Updates : \A c \in Contents : Apply(u, c) \in Contents

VARIABLES
  file,       \* what the path names
  versions,   \* what the path may name after a power loss
  holders,    \* who holds the flock on the sidecar
  step,       \* where each writer is
  update,     \* what it means to do
  base,       \* what it loaded
  unguarded,  \* did a body ever run unlocked, or on a failed read?
  faults      \* faults so far

fileVars == <<file, versions, holders, step, update, base, unguarded, faults>>

Free == "free"

StoreInit ==
  /\ file = Start /\ versions = {Start}
  /\ holders   = {}
  /\ step      = [w \in Writers |-> Free]
  /\ update    = [w \in Writers |-> NoUpdate]
  /\ base      = [w \in Writers |-> Empty]
  /\ unguarded = FALSE
  /\ faults    = 0

StepTo(w, from, to) == step[w] = from /\ step' = [step EXCEPT ![w] = to]

Fault == faults < MaxFaults /\ faults' = faults + 1

\* A writer has an update to make.
Call(w, u) ==
  /\ StepTo(w, Free, "lock")
  /\ update' = [update EXCEPT ![w] = u]
  /\ UNCHANGED <<file, versions, holders, base, unguarded, faults>>

\* Mutant: the lock is taken, and not for the body.
LockShared(w) ==
  /\ StepTo(w, "lock", "load")
  /\ holders' = holders \cup {w}
  /\ UNCHANGED <<file, versions, update, base, unguarded, faults>>

\* flock(LOCK_EX) waits until nobody holds it ...
Lock(w) ==
  /\ StepTo(w, "lock", "load")
  /\ holders = {} /\ holders' = {w}
  /\ UNCHANGED <<file, versions, update, base, unguarded, faults>>

\* ... or the lock cannot be had at all, and the body runs without it.
LockFails(w) ==
  /\ StepTo(w, "lock", "load")
  /\ Fault /\ unguarded' = TRUE
  /\ UNCHANGED <<file, versions, holders, update, base>>

AfterLoad(w, c) == IF Declines(update[w], c) THEN "unlock" ELSE "write"

Load(w) ==
  /\ StepTo(w, "load", AfterLoad(w, file))
  /\ base' = [base EXCEPT ![w] = file]
  /\ UNCHANGED <<file, versions, holders, update, unguarded, faults>>

\* An OSError, or bytes that do not parse: the file reads as empty.
LoadFails(w) ==
  /\ StepTo(w, "load", AfterLoad(w, Empty))
  /\ base' = [base EXCEPT ![w] = Empty]
  /\ Fault /\ unguarded' = TRUE
  /\ UNCHANGED <<file, versions, holders, update>>

\* The temporary file is written and fsynced, or that fails and it is unlinked.
WriteTemp(w) ==
  /\ \/ StepTo(w, "write", "replace") /\ UNCHANGED faults
     \/ StepTo(w, "write", "unlock") /\ Fault
  /\ UNCHANGED <<file, versions, holders, update, base, unguarded>>

\* Mutant: the temporary file is renamed without an fsync of its bytes.
ReplaceUnsynced(w) ==
  /\ StepTo(w, "replace", "sync")
  /\ file' = Apply(update[w], base[w])
  /\ versions' = versions \cup {file', Torn}
  /\ UNCHANGED <<holders, update, base, unguarded, faults>>

\* os.replace: the new bytes are durable, the new name is not yet.
Replace(w) ==
  /\ StepTo(w, "replace", "sync")
  /\ file' = Apply(update[w], base[w])
  /\ versions' = versions \cup {file'}
  /\ UNCHANGED <<holders, update, base, unguarded, faults>>

\* Mutant: the directory is not fsynced.
SyncNothing(w) ==
  /\ StepTo(w, "sync", "unlock")
  /\ UNCHANGED <<file, versions, holders, update, base, unguarded, faults>>

\* The directory is fsynced, or the filesystem refuses to.
SyncDirectory(w) ==
  /\ StepTo(w, "sync", "unlock")
  /\ \/ versions' = {file} /\ UNCHANGED faults
     \/ Fault /\ UNCHANGED versions
  /\ UNCHANGED <<file, holders, update, base, unguarded>>

\* What ends a writer's hold on everything.
Release(w) ==
  /\ holders' = holders \ {w}
  /\ step'    = [step EXCEPT ![w] = Free]
  /\ update'  = [update EXCEPT ![w] = NoUpdate]
  /\ base'    = [base EXCEPT ![w] = Empty]

Unlock(w) ==
  /\ step[w] = "unlock" /\ Release(w)
  /\ UNCHANGED <<file, versions, unguarded, faults>>

\* Mutant: the lock outlives its holder.
DiesHolding(w) ==
  /\ step[w] # Free /\ Fault
  /\ step'   = [step EXCEPT ![w] = Free]
  /\ update' = [update EXCEPT ![w] = NoUpdate]
  /\ base'   = [base EXCEPT ![w] = Empty]
  /\ UNCHANGED <<file, versions, holders, unguarded>>

\* Killed: closing the descriptor releases the flock.
Dies(w) ==
  /\ step[w] # Free /\ Fault /\ Release(w)
  /\ UNCHANGED <<file, versions, unguarded>>

PowerLoss ==
  /\ Fault
  /\ file' \in versions /\ versions' = {file'}
  /\ holders' = {}
  /\ step'   = [w \in Writers |-> Free]
  /\ update' = [w \in Writers |-> NoUpdate]
  /\ base'   = [w \in Writers |-> Empty]
  /\ UNCHANGED unguarded

\* A call under way takes its next step.
Proceed(w) ==
  \/ Lock(w) \/ Load(w) \/ WriteTemp(w) \/ Replace(w) \/ SyncDirectory(w) \/ Unlock(w)

StoreStep(w) == Proceed(w) \/ LockFails(w) \/ LoadFails(w) \/ Dies(w)

StoreNext ==
  \/ \E w \in Writers : StoreStep(w) \/ \E u \in Updates : Call(w, u)
  \/ PowerLoss

StoreSpec == StoreInit /\ [][StoreNext]_fileVars

-----------------------------------------------------------------------------
(* Properties. *)

StoreSteps == {Free, "lock", "load", "write", "replace", "sync", "unlock"}

\* Every variable holds a value of its kind.
StoreTypeOK ==
  /\ file \in Contents \cup {Torn}
  /\ versions \subseteq Contents \cup {Torn}
  /\ holders \subseteq Writers
  /\ step   \in [Writers -> StoreSteps]
  /\ update \in [Writers -> Updates \cup {NoUpdate}]
  /\ base   \in [Writers -> Contents \cup {Torn}]
  /\ unguarded \in BOOLEAN
  /\ faults \in 0..MaxFaults

\* The abstract file this protocol implements: its file and its versions are the
\* ones here; holders, steps and bases are hidden.
Promise == INSTANCE AtomicFile WITH
  Contents <- Contents, Start <- Start, Updates <- Updates, Apply <- Apply,
  file <- file, versions <- versions

\* The promise of persist.locked: as long as locks and reads succeed, the file
\* changes as if each read-modify-write were one step, whatever processes are
\* killed, writes fail or machines lose power in the middle of it.
NoLostUpdate == [][~unguarded' => Promise!Next]_<<file, versions>>

\* "A silent wipe rather than a visible error" (atomic_write) cannot come from a
\* power loss: what the path names before and after is a whole version.
NeverTorn == Torn \notin versions /\ file \in versions

\* "The rename can be durable while the bytes are not" and the reverse
\* (atomic_write): as long as no filesystem refuses and nobody is killed, a power
\* loss undoes nothing but a write that has not returned yet.
SavedIsDurable ==
  faults = 0 /\ (\A w \in Writers : step[w] # "sync") => versions = {file}

\* What a power loss may take: never half a file, and no write that returned.
PowerLossIsSafe == NeverTorn /\ SavedIsDurable
=============================================================================
