------------------------------ MODULE HealIssues ------------------------------
(***************************************************************************)
(* The issue sink of a heal pass over one notify-mode project: it files    *)
(* one issue per failing gate and closes it when the gate passes           *)
(* (heal_issues._deliver_project, landing.own_open_issues, open_issue,     *)
(* close_own_issue, status.published_default_head).  Passes come from a    *)
(* timer and from the operator, so two may be under way at once; people    *)
(* push, check out, edit and close issues in between.                      *)
(*                                                                         *)
(* What a gate says is a function of the commit it ran at, and unknown in  *)
(* a dirty tree.  `issues` are those of our own account: the list asks for *)
(* no others.                                                              *)
(***************************************************************************)
EXTENDS Naturals, FiniteSets

CONSTANTS Passes,     \* heal passes that may be under way at once
          Tasks,      \* the healable gates of the project
          Commits,
          Red,        \* the gates that fail at each commit
          Unmarkable, \* the sets of gates whose keys no marker can hold: with the project's
                      \* name, or a gate's
          PageLimit,  \* ISSUE_LIST_LIMIT: a listing as long as this is no answer
          NoHead,     \* "": no stable identity, or a probe that failed
          NoKey,      \* a body that carries no marker
          MaxIssues, MaxFaults, MaxMoves  \* bounds: issues, failures, acts of people

ASSUME HealAssumption ==
  /\ Red \in [Commits -> SUBSET Tasks]
  /\ Unmarkable \subseteq SUBSET Tasks /\ PageLimit \in Nat
  /\ NoHead \notin Commits /\ NoKey \notin Tasks
  /\ MaxIssues \in Nat /\ MaxFaults \in Nat /\ MaxMoves \in Nat

VARIABLES
  origin,      \* the commit origin's default branch points at
  clone,       \* HEAD of the project's clone
  dirty,       \* whether its worktree is
  unsafe,      \* its gates whose key cannot be written as a marker
  issues,      \* our issues on the forge, by number
  at,          \* where each pass is
  results,     \* the result of each gate in this pass, and its head
  left,        \* the gates it still has to file or close for
  listed,      \* the issue it found open for each gate, 0 for none
  closing,     \* the gate whose issue it is about to close
  stale,       \* whether what it last read on the forge has changed since
  overlapped,  \* whether two passes were ever under way at once
  faults, moves

world == <<origin, clone, dirty, unsafe>>
pass  == <<at, results, left, listed, closing>>
vars  == <<world, issues, pass, stale, overlapped, faults, moves>>

Numbers == 1..MaxIssues
Issue   == [state : {"unused", "open", "closed", "completed"}, key : Tasks \cup {NoKey}]
Result  == [status : [Tasks -> {"pass", "fail", "skip"}], head : Commits \cup {NoHead}]

NoResults == [status |-> [t \in Tasks |-> "skip"], head |-> NoHead]

Init ==
  /\ origin \in Commits /\ clone = origin /\ dirty = FALSE /\ unsafe \in Unmarkable
  /\ issues  = [i \in Numbers |-> [state |-> "unused", key |-> NoKey]]
  /\ at      = [p \in Passes |-> "idle"]
  /\ results = [p \in Passes |-> NoResults]
  /\ left    = [p \in Passes |-> {}]
  /\ listed  = [p \in Passes |-> [t \in Tasks |-> 0]]
  /\ closing = [p \in Passes |-> NoKey]
  /\ stale   = [p \in Passes |-> FALSE]
  /\ overlapped = FALSE /\ faults = 0 /\ moves = 0

Fault == faults < MaxFaults /\ faults' = faults + 1
\* A call of git or gh: it succeeds, or fails at the cost of a fault.
Calls(ok) == IF ok THEN UNCHANGED faults ELSE Fault

\* One page cannot rule out a duplicate.
PageFull == Cardinality({i \in Numbers : issues[i].state = "open"}) >= PageLimit

OpenFor(t) == {i \in Numbers : issues[i].state = "open" /\ issues[i].key = t}

-----------------------------------------------------------------------------
(* A pass. *)

\* What the gates say of the worktree; of a dirty one nobody knows.
Verdicts ==
  IF dirty THEN [Tasks -> {"pass", "fail", "skip"}]
           ELSE {[t \in Tasks |-> IF t \in Red[clone] THEN "fail" ELSE "pass"]}

\* _heal_targets: the gates run, stamped with the clean HEAD.
Begin(p) ==
  /\ at[p] = "idle"
  /\ \E verdict \in Verdicts :
       results' = [results EXCEPT ![p] =
         [status |-> verdict, head |-> IF dirty THEN NoHead ELSE clone]]
  /\ at' = [at EXCEPT ![p] = "probe"]
  /\ overlapped' = (overlapped \/ \E q \in Passes : at[q] # "idle")
  /\ UNCHANGED <<world, issues, left, listed, closing, stale, faults, moves>>

\* The pass delivers nothing more: it is over, or was killed.
Finish(p) ==
  /\ at'      = [at EXCEPT ![p] = "idle"]
  /\ results' = [results EXCEPT ![p] = NoResults]
  /\ left'    = [left EXCEPT ![p] = {}]
  /\ listed'  = [listed EXCEPT ![p] = [t \in Tasks |-> 0]]
  /\ closing' = [closing EXCEPT ![p] = NoKey]
  /\ stale'   = [stale EXCEPT ![p] = FALSE]

\* Mutant: a result is published when it ran on any clean commit.
PublishedAnywhere(p, tip) ==
  {t \in Tasks : tip # NoHead /\ results[p].head # NoHead /\ results[p].status[t] # "skip"}

\* The gates whose result ran at the tip of the published default branch.
Published(p, tip) ==
  {t \in Tasks : tip # NoHead /\ results[p].head = tip /\ results[p].status[t] # "skip"}

\* published_default_head asks origin, and may not reach it.
ProbeTip(p) ==
  /\ at[p] = "probe"
  /\ \E tip \in {origin, NoHead} :
       /\ Calls(tip # NoHead)
       /\ IF Published(p, tip) = {}
          THEN Finish(p)
          ELSE /\ left' = [left EXCEPT ![p] = Published(p, tip)]
               /\ at'   = [at EXCEPT ![p] = "list"]
               /\ UNCHANGED <<results, listed, closing, stale>>
  /\ UNCHANGED <<world, issues, overlapped, moves>>

\* Mutant: a closed issue still counts as the report of its gate.
ListingsEver == {f \in [Tasks -> Numbers \cup {0}] : \A t \in Tasks :
  LET ever == {i \in Numbers : issues[i].state # "unused" /\ issues[i].key = t}
  IN  IF ever = {} THEN f[t] = 0 ELSE f[t] \in ever}

\* Mutant: a gate with two open issues is left alone.
ListingsUnique == {f \in [Tasks -> Numbers \cup {0}] : \A t \in Tasks :
  IF \E i \in Numbers : OpenFor(t) = {i} THEN f[t] \in OpenFor(t) ELSE f[t] = 0}

\* The one issue of each gate that open_by_key keeps.
Listings == {f \in [Tasks -> Numbers \cup {0}] : \A t \in Tasks :
               IF OpenFor(t) = {} THEN f[t] = 0 ELSE f[t] \in OpenFor(t)}

\* Mutant: a list that cannot be read is taken for an empty one.
ListOrNone(p) ==
  /\ at[p] = "list"
  /\ at' = [at EXCEPT ![p] = "deliver"]
  /\ \E f \in Listings \cup {[t \in Tasks |-> 0]} :
       /\ listed' = [listed EXCEPT ![p] = f]
       /\ Calls(f \in Listings)
       /\ left' = [left EXCEPT ![p] = {t \in @ :
            IF results[p].status[t] = "fail" THEN f[t] = 0 ELSE f[t] # 0}]
  /\ UNCHANGED <<world, issues, results, closing, stale, overlapped, moves>>

\* own_open_issues; when it cannot be read, or its page is full, nothing is filed or
\* closed.  What is
\* left: failing gates not yet reported, and passing gates with an open issue.
List(p) ==
  /\ at[p] = "list"
  /\ \/ Fault /\ Finish(p)
     \/ PageFull /\ Finish(p) /\ UNCHANGED faults
     \/ /\ ~PageFull /\ at' = [at EXCEPT ![p] = "deliver"]
        /\ \E f \in Listings :
             /\ listed' = [listed EXCEPT ![p] = f]
             /\ left'   = [left EXCEPT ![p] = {t \in @ :
                  IF results[p].status[t] = "fail" THEN f[t] = 0 ELSE f[t] # 0}]
        /\ UNCHANGED <<results, closing, stale, faults>>
  /\ UNCHANGED <<world, issues, overlapped, moves>>

ToFile(p) == {t \in left[p] : results[p].status[t] = "fail"}

\* _file_issues: a gate no marker can name is not filed; gh issue create may fail, before
\* or after the issue was filed.
File(p, t) ==
  /\ at[p] = "deliver" /\ t \in ToFile(p)
  /\ left' = [left EXCEPT ![p] = @ \ {t}]
  /\ \/ t \in unsafe /\ UNCHANGED <<issues, faults>>
     \/ /\ t \notin unsafe
        /\ \E i \in Numbers :
             /\ issues[i].state = "unused" /\ \A j \in 1..(i - 1) : issues[j].state # "unused"
             /\ issues' = [issues EXCEPT ![i] = [state |-> "open", key |-> t]]
        /\ UNCHANGED faults
     \/ t \notin unsafe /\ Fault /\ UNCHANGED issues
  /\ UNCHANGED <<world, at, results, listed, closing, stale, overlapped, moves>>

\* close_own_issue reads the issue again ...
View(p, t) ==
  /\ at[p] = "deliver" /\ ToFile(p) = {} /\ t \in left[p]
  /\ left' = [left EXCEPT ![p] = @ \ {t}]
  /\ \/ /\ listed[p][t] \in OpenFor(t)
        /\ at' = [at EXCEPT ![p] = "close"] /\ closing' = [closing EXCEPT ![p] = t]
        /\ UNCHANGED faults
     \/ /\ listed[p][t] \notin OpenFor(t)
        /\ UNCHANGED <<at, closing, faults>>
     \/ Fault /\ UNCHANGED <<at, closing>>
  /\ UNCHANGED <<world, issues, results, listed, stale, overlapped, moves>>

\* ... and closes it, whatever became of it in between.
Close(p) ==
  /\ at[p] = "close"
  /\ \E ok \in BOOLEAN :
       /\ Calls(ok)
       /\ issues' = IF ok THEN [issues EXCEPT ![listed[p][closing[p]]].state = "completed"]
                          ELSE issues
  /\ at'      = [at EXCEPT ![p] = "deliver"]
  /\ closing' = [closing EXCEPT ![p] = NoKey]
  /\ UNCHANGED <<world, results, left, listed, stale, overlapped, moves>>

Over(p) ==
  /\ at[p] = "deliver" /\ left[p] = {}
  /\ Finish(p)
  /\ UNCHANGED <<world, issues, overlapped, faults, moves>>

Killed(p) ==
  /\ at[p] # "idle" /\ Fault
  /\ Finish(p)
  /\ UNCHANGED <<world, issues, overlapped, moves>>

PassStep(p) ==
  \/ ProbeTip(p) \/ List(p) \/ Close(p) \/ Over(p)
  \/ \E t \in Tasks : File(p, t) \/ View(p, t)

-----------------------------------------------------------------------------
(* People. *)

Moves == moves < MaxMoves /\ moves' = moves + 1

\* A push elsewhere; passes that probed the tip have an old one.
Push(c) ==
  /\ Moves /\ c # origin /\ origin' = c
  /\ stale' = [p \in Passes |-> stale[p] \/ at[p] \in {"list", "deliver", "close"}]
  /\ UNCHANGED <<clone, dirty, unsafe, issues, pass, overlapped, faults>>

\* A pull, a checkout of local work, or uncommitted edits.
Checkout(c, d) ==
  /\ Moves /\ <<c, d>> # <<clone, dirty>>
  /\ clone' = c /\ dirty' = d
  /\ UNCHANGED <<origin, unsafe, issues, pass, stale, overlapped, faults>>

\* Someone closes an issue, or makes it their own report.
Handle(i, issue) ==
  /\ Moves /\ issues[i].state = "open" /\ issues[i].key # NoKey
  /\ issues' = [issues EXCEPT ![i] = issue]
  /\ stale'  = [p \in Passes |-> stale[p] \/ (at[p] = "close" /\ listed[p][closing[p]] = i)]
  /\ UNCHANGED <<world, pass, overlapped, faults>>
HandClose(i) == Handle(i, [issues[i] EXCEPT !.state = "closed"])
HandEdit(i)  == Handle(i, [issues[i] EXCEPT !.key = NoKey])

People ==
  \/ \E c \in Commits : Push(c) \/ \E d \in BOOLEAN : Checkout(c, d)
  \/ \E i \in Numbers : HandClose(i) \/ HandEdit(i)

Next ==
  \/ \E p \in Passes : Begin(p) \/ PassStep(p) \/ Killed(p)
  \/ People

Spec == Init /\ [][Next]_vars

\* The timer starts a pass every day, and a pass that is not killed ends.
FairSpec ==
  /\ Spec
  /\ \A p \in Passes : WF_vars(Begin(p)) /\ WF_vars(PassStep(p))

-----------------------------------------------------------------------------
(* Properties. *)

\* Every variable holds a value of its kind.
TypeOK ==
  /\ origin \in Commits /\ clone \in Commits /\ dirty \in BOOLEAN /\ unsafe \subseteq Tasks
  /\ issues  \in [Numbers -> Issue]
  /\ at      \in [Passes -> {"idle", "probe", "list", "deliver", "close"}]
  /\ results \in [Passes -> Result]
  /\ left    \in [Passes -> SUBSET Tasks]
  /\ listed  \in [Passes -> [Tasks -> Numbers \cup {0}]]
  /\ closing \in [Passes -> Tasks \cup {NoKey}]
  /\ stale   \in [Passes -> BOOLEAN]
  /\ overlapped \in BOOLEAN /\ faults \in 0..MaxFaults /\ moves \in 0..MaxMoves

\* "One issue per finding", whatever calls fail and whatever people do, while
\* passes run one at a time (heal_issues, _file_issues).
OneIssuePerFinding ==
  ~overlapped => \A t \in Tasks : \A i, j \in OpenFor(t) : i = j

\* A pass files only what fails on the published default branch, and closes only
\* what passes on it and is still ours, unless what it read changed since
\* (heal_issues._published, landing.close_own_issue).
WritesAreTrue ==
  [][\A i \in Numbers :
       /\ issues[i].state = "unused" /\ issues'[i].state = "open" =>
            issues'[i].key \in Red[origin] \/ \E p \in Passes : stale[p]
       /\ issues[i].state # "completed" /\ issues'[i].state = "completed" =>
            \/ issues[i].state = "open" /\ issues[i].key \in Tasks \ Red[origin]
            \/ \E p \in Passes : stale[p]]_vars

\* The clone stands, clean, at the published commit, and our issues fit one page.
AtTip == clone = origin /\ ~dirty /\ ~PageFull

\* A gate that stays red there, and that a marker can name, is eventually reported for
\* good, also after its issue was closed by hand (_file_issues).
FailuresAreReported ==
  \A t \in Tasks : <>[](AtTip /\ t \in Red[origin] \ unsafe) => <>[](OpenFor(t) # {})

\* When it stays green every issue of it is eventually closed, duplicates that
\* overlapping passes filed included (_close_issues).
PassesAreClosed ==
  \A t \in Tasks : <>[](AtTip /\ t \notin Red[origin]) => <>[](OpenFor(t) = {})

\* In the end the open issues are the failing gates.
IssuesFollowGates == FailuresAreReported /\ PassesAreClosed
=============================================================================
