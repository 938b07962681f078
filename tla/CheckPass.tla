------------------------------ MODULE CheckPass ------------------------------
(***************************************************************************)
(* Passes that run one gate of one project and share its entry in the      *)
(* checks cache: `checks`, `watch` and `heal`, with or without             *)
(* --changed-only, and the dashboard's recheck (__main__._project_checks,  *)
(* server.run_recheck, status.clean_worktree_head, checks.run_check),      *)
(* while people edit, revert and commit in its worktree.                   *)
(*                                                                         *)
(* A commit is identified with the tree it records, so the worktree is     *)
(* dirty when its content is not the tree of HEAD.  A save is one step:    *)
(* LockedFile shows that save_results is one.                              *)
(***************************************************************************)
EXTENDS Naturals

CONSTANTS Passes,     \* passes that may be under way at once
          Trees,      \* the contents the worktree may have
          Good,       \* those the declared gate passes on
          NoHead,     \* "": no stable identity
          NoResult    \* no entry in the cache

ASSUME TreesAssumption ==
  Good \subseteq Trees /\ NoHead \notin Trees

VARIABLES
  head, content,  \* the tree of HEAD and that of the worktree
  cache,          \* the gate's entry in the checks cache
  at,             \* where each pass is
  cached,         \* the entry it may reuse
  rev,            \* what its last rev-parse printed
  identity,       \* the clean HEAD it started from
  result,         \* the result it reports
  moves           \* how often the worktree changed while it ran, up to 2

worktree == <<head, content>>
vars == <<worktree, cache, at, cached, rev, identity, result, moves>>

Heads == Trees \cup {NoHead}

\* A CheckResult.  `steady`: the worktree changed at most once while it was made.
CheckResult == [status : {"pass", "fail"}, head : Heads, steady : BOOLEAN]
MaybeResult == CheckResult \cup {NoResult}

ASSUME NoResultAssumption == NoResult \notin CheckResult

Init ==
  /\ head \in Trees /\ content = head
  /\ cache    = NoResult
  /\ at       = [p \in Passes |-> "idle"]
  /\ cached   = [p \in Passes |-> NoResult]
  /\ rev      = [p \in Passes |-> NoHead]
  /\ identity = [p \in Passes |-> NoHead]
  /\ result   = [p \in Passes |-> NoResult]
  /\ moves    = [p \in Passes |-> 0]

GoesTo(p, from, to) == at[p] = from /\ at' = [at EXCEPT ![p] = to]

\* `cached = cache.load_results() if args.changed_only else {}`
Begin(p) ==
  /\ GoesTo(p, "idle", "rev")
  /\ \E changedOnly \in BOOLEAN :
       cached' = [cached EXCEPT ![p] = IF changedOnly THEN cache ELSE NoResult]
  /\ UNCHANGED <<worktree, cache, rev, identity, result, moves>>

\* The dashboard's recheck runs the gate with no identity at all.
BeginRecheck(p) ==
  /\ GoesTo(p, "idle", "gate")
  /\ UNCHANGED <<worktree, cache, cached, rev, identity, result, moves>>

\* clean_worktree_head is two git commands: rev-parse ...
RevParse(p, from, to) ==
  /\ GoesTo(p, from, to)
  /\ rev' = [rev EXCEPT ![p] = head]
  /\ UNCHANGED <<worktree, cache, cached, identity, result, moves>>

\* ... and status, which may find the worktree dirty; either may fail.
CleanHeads(p) == IF content = head THEN {rev[p], NoHead} ELSE {NoHead}

\* Mutant: any pass recorded at a commit stands in for a run.
ReusableAnywhere(r, h) == h # NoHead /\ r # NoResult /\ r.status = "pass" /\ r.head # NoHead

\* A pass recorded at the same clean HEAD stands in for a run.
Reusable(r, h) == h # NoHead /\ r # NoResult /\ r.status = "pass" /\ r.head = h

\* What a pass does not read again is forgotten, here and below.
FirstStatus(p) ==
  \E h \in CleanHeads(p) :
    /\ IF Reusable(cached[p], h)
       THEN GoesTo(p, "status", "report") /\ result' = [result EXCEPT ![p] = cached[p]]
       ELSE GoesTo(p, "status", "gate") /\ UNCHANGED result
    /\ identity' = [identity EXCEPT ![p] = h]
    /\ cached'   = [cached EXCEPT ![p] = NoResult]
    /\ rev'      = [rev EXCEPT ![p] = NoHead]
    /\ UNCHANGED <<worktree, cache, moves>>

\* run_check: the gate runs on whatever the worktree holds.
RunGate(p) ==
  /\ GoesTo(p, "gate", IF identity[p] = NoHead THEN "save" ELSE "rev2")
  /\ result' = [result EXCEPT ![p] =
       [status |-> IF content \in Good THEN "pass" ELSE "fail",
        head |-> identity[p], steady |-> TRUE]]
  /\ UNCHANGED <<worktree, cache, cached, rev, identity, moves>>

Verified(p, h) ==
  /\ GoesTo(p, "status2", "save")
  /\ result'   = [result EXCEPT ![p].head = h, ![p].steady = moves[p] < 2]
  /\ rev'      = [rev EXCEPT ![p] = NoHead]
  /\ UNCHANGED <<worktree, cache, cached, identity, moves>>

\* Mutant: the identity is not verified again.
TrustFirstStatus(p) == Verified(p, identity[p])

\* The identity is verified again, and dropped from the result if it changed.
SecondStatus(p) ==
  \E h \in CleanHeads(p) : Verified(p, IF h = identity[p] THEN h ELSE NoHead)

Save(p) ==
  /\ GoesTo(p, "save", "report")
  /\ cache' = result[p]
  /\ UNCHANGED <<worktree, cached, rev, identity, result, moves>>

\* The pass has reported and is over, or its process was killed.
Over(p) ==
  /\ at[p] # "idle"
  /\ at'       = [at EXCEPT ![p] = "idle"]
  /\ cached'   = [cached EXCEPT ![p] = NoResult]
  /\ rev'      = [rev EXCEPT ![p] = NoHead]
  /\ identity' = [identity EXCEPT ![p] = NoHead]
  /\ result'   = [result EXCEPT ![p] = NoResult]
  /\ moves'    = [moves EXCEPT ![p] = 0]
  /\ UNCHANGED <<worktree, cache>>

-----------------------------------------------------------------------------
(* The people in the worktree. *)

\* Every pass between its first look and its report sees the worktree move.
Moved ==
  /\ moves' = [p \in Passes |-> IF at[p] \notin {"idle", "rev"} /\ moves[p] < 2
                                THEN moves[p] + 1 ELSE moves[p]]
  /\ UNCHANGED <<cache, at, cached, rev, identity, result>>

Edit(t)   == t # content /\ content' = t /\ UNCHANGED head /\ Moved
Commit    == content # head /\ head' = content /\ UNCHANGED content /\ Moved
Switch(t) == t # head /\ head' = t /\ content' = t /\ Moved

Next ==
  \/ \E p \in Passes :
       \/ Begin(p) \/ BeginRecheck(p)
       \/ RevParse(p, "rev", "status") \/ FirstStatus(p) \/ RunGate(p)
       \/ RevParse(p, "rev2", "status2") \/ SecondStatus(p) \/ Save(p) \/ Over(p)
  \/ Commit \/ \E t \in Trees : Edit(t) \/ Switch(t)

Spec == Init /\ [][Next]_vars

-----------------------------------------------------------------------------
(* Properties. *)

Places == {"idle", "rev", "status", "gate", "rev2", "status2", "save", "report"}

\* Every variable holds a value of its kind.
TypeOK ==
  /\ head \in Trees /\ content \in Trees
  /\ cache    \in MaybeResult
  /\ at       \in [Passes -> Places]
  /\ cached   \in [Passes -> MaybeResult]
  /\ rev      \in [Passes -> Heads]
  /\ identity \in [Passes -> Heads]
  /\ result   \in [Passes -> MaybeResult]
  /\ moves    \in [Passes -> 0..2]

\* A pass that --changed-only may reuse: recorded at a commit.
Stamped(r) == r # NoResult /\ r.status = "pass" /\ r.head # NoHead

\* "A fresh run at that same HEAD" would reproduce a stamped pass
\* (_project_checks), however the worktree changes, once, while it is made.
StampedPassIsTrue == Stamped(cache) /\ cache.steady => cache.head \in Good

\* While nobody touched the worktree since its first look, what a pass reports,
\* reused or fresh, is what the gate says of the worktree.
ReportIsCurrent ==
  \A p \in Passes :
    at[p] = "report" /\ moves[p] = 0 /\ result[p].steady
      => (result[p].status = "pass" <=> content \in Good)
=============================================================================
