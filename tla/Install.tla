-------------------------------- MODULE Install --------------------------------
(***************************************************************************)
(* Installing a checkout as the machine's tool:                            *)
(* .agents/scripts/install_tool.py.  The dry run, --apply and --check ask  *)
(* git one question after another, and apply installs whatever the tree    *)
(* holds when uv builds it.  Between two steps people edit, hide and       *)
(* ignore files, switch branches and pull, and origin moves on.            *)
(*                                                                         *)
(* A commit is a number, and Snapshot gives the files a checkout of it     *)
(* writes: the packaged ones, and pyproject.toml, which is not installed   *)
(* but says the version, the dependencies and the entry points.            *)
(***************************************************************************)
EXTENDS Naturals, FiniteSets

CONSTANTS
  Files, Contents,  \* the files the wheel packages, what a file may hold
  Pyproject,        \* pyproject.toml
  Commits,          \* the commits; 0 is none
  Trunk,            \* the commits of origin's main: 1, 2, ..., in order
  Snapshot,         \* the files of each commit
  Mode,             \* the exec bit of each file in the tree
  MaxChanges        \* bound: changes by people while a command runs

Absent  == "absent"
Tracked == Files \cup {Pyproject}
InstallAssumption ==
  /\ Pyproject \notin Files /\ Commits \subseteq Nat \ {0} /\ Trunk \subseteq Commits /\ 1 \in Trunk /\ Absent \notin Contents
  /\ Snapshot \in [Commits -> [Tracked -> Contents \cup {Absent}]] /\ Mode \in [Files -> BOOLEAN]
  /\ MaxChanges \in Nat

VARIABLES
  upstream,   \* origin's main
  fetched,    \* origin/main as last fetched, 0 if never
  head,       \* HEAD, and whether it is the branch main
  onMain,
  linked,     \* the checkout is a linked worktree
  session,    \* the command runs in a Claude Code session
  tree,       \* the files on disk
  hidden,     \* those git status skips
  ignored,    \* files git ignores under a packaged path
  tool,       \* the installed tool
  step,       \* the step of the command, its mode, what it found and its exit code
  mode, problems, compared, rc,
  changes,    \* changes by people
  moved       \* whether HEAD or origin moved since the command began, or somebody changed
              \* the tool between two looks of the check at it

box  == <<upstream, fetched, head, onMain, linked, session, tree, hidden, ignored>>
run  == <<step, mode, problems, compared, rc>>
vars == <<box, tool, run, changes, moved>>

NoTool == [present |-> FALSE, ours |-> FALSE, first |-> TRUE, metadata |-> Absent, exec |-> Mode,
           files |-> [f \in Files |-> Absent], extra |-> FALSE]

TypeOK ==
  /\ {upstream, head} \subseteq Commits /\ fetched \in Commits \cup {0}
  /\ {onMain, linked, session, ignored, moved} \subseteq BOOLEAN
  /\ tree \in [Tracked -> Contents \cup {Absent}] /\ hidden \subseteq Tracked
  /\ tool.files \in [Files -> Contents \cup {Absent}] /\ tool.metadata \in Contents \cup {Absent}
  /\ step \in {"idle", "place", "status", "fetch", "sync", "decide", "install", "read",
               "files", "receipt", "metadata", "modes", "done"}
  /\ compared \in Commits \cup {0} /\ rc \in {0, 1} /\ changes \in 0..MaxChanges

Init ==
  /\ upstream = 1 /\ head = 1 /\ fetched \in {0, 1} /\ tree = Snapshot[1]
  /\ onMain = TRUE /\ linked \in BOOLEAN /\ session \in BOOLEAN
  /\ hidden = {} /\ ignored = FALSE /\ tool = NoTool
  /\ step = "idle" /\ mode = "" /\ problems = {} /\ compared = 0 /\ rc = 0
  /\ changes = 0 /\ moved = FALSE

Go(s, found) == step' = s /\ problems' = problems \cup found /\ UNCHANGED <<mode, compared, rc>>
Return(code) == step' = "done" /\ rc' = code /\ UNCHANGED <<mode, problems, compared>>
People == UNCHANGED <<changes, moved>>

\* main: the mode's first step.
Begin ==
  /\ step \in {"idle", "done"}
  /\ \E m \in {"dry", "apply", "check"} :
       mode' = m /\ step' = IF m = "check" THEN "read" ELSE "place"
  /\ problems' = {} /\ compared' = 0 /\ rc' = 0 /\ moved' = FALSE
  /\ UNCHANGED <<box, tool, changes>>

-----------------------------------------------------------------------------
(* apply_problems. *)

Place ==
  /\ step = "place"
  /\ Go("status", {p \in {"session", "worktree", "branch"} :
                     CASE p = "session" -> session [] p = "worktree" -> linked
                       [] p = "branch" -> ~onMain})
  /\ UNCHANGED <<box, tool>> /\ People

Dirty == {f \in Tracked \ hidden : tree[f] # Snapshot[head][f]}
Status ==
  /\ step = "status"
  /\ Go("fetch", {p \in {"dirty", "hidden", "ignored"} :
                    CASE p = "dirty" -> Dirty # {} [] p = "hidden" -> hidden # {}
                      [] p = "ignored" -> ignored})
  /\ UNCHANGED <<box, tool>> /\ People

\* Mutant: the dry run reads the last fetched ref.
FetchesOnApply(m) == m = "apply"

Fetches(m) == m \in {"dry", "apply"}

Fetch ==
  /\ step = "fetch"
  /\ \E ok \in BOOLEAN :
       /\ fetched' = IF ok /\ Fetches(mode) THEN upstream ELSE fetched
       /\ Go("sync", IF ok THEN {} ELSE {"fetch"})
  /\ UNCHANGED <<upstream, head, onMain, linked, session, tree, hidden, ignored, tool>> /\ People

Sync ==
  /\ step = "sync"
  /\ Go("decide", IF fetched = 0 THEN {"no upstream"} ELSE IF fetched # head THEN {"sync"} ELSE {})
  /\ UNCHANGED <<box, tool>> /\ People

-----------------------------------------------------------------------------
(* The dry run, apply and check. *)

\* A session alone is a note in a dry run and a refusal of an apply.
Decide ==
  /\ step = "decide"
  /\ IF mode = "dry" THEN Return(IF problems \subseteq {"session"} THEN 0 ELSE 1)
     ELSE IF problems # {} THEN Return(1) ELSE Go("install", {})
  /\ UNCHANGED <<box, tool>> /\ People

\* Mutant: uv's word is enough.
AfterInstallDone == Return(0)

AfterInstall == Go("read", {})

\* uv tool install --reinstall builds the tree as it is now, ignored files included;
\* when it fails the old tool is there or gone.
UvInstall ==
  /\ step = "install"
  /\ \/ /\ tool' = [present |-> TRUE, ours |-> TRUE, first |-> tool.first,
                    metadata |-> tree[Pyproject], exec |-> Mode,
                    files |-> [f \in Files |-> tree[f]], extra |-> ignored]
        /\ AfterInstall
     \/ tool' \in {tool, [NoTool EXCEPT !.first = tool.first]} /\ Return(1)
  /\ UNCHANGED box /\ People

\* check reads HEAD once, and compares everything with that commit, in one look at the
\* tool after another.
ReadHead ==
  /\ step = "read"
  /\ IF tool.present THEN compared' = head /\ step' = "files" /\ problems' = {} /\ UNCHANGED <<mode, rc>>
                     ELSE Return(1)
  /\ UNCHANGED <<box, tool>> /\ People

Wanted   == {f \in Files : Snapshot[compared][f] # Absent}
Missing  == {f \in Wanted : tool.files[f] = Absent}
Modified == {f \in Wanted \ Missing : tool.files[f] # Snapshot[compared][f]}
WrongMode == {f \in Wanted \ Missing : tool.exec[f] # Mode[f]}
NotInTree == {f \in Files \ Wanted : tool.files[f] # Absent}
Receipt  == tool.ours                        \* receipt_problems
OnPath   == tool.first                       \* path_problems: nothing shadows it
\* The version, the requirements and the entry points, and no more: two commits may agree.
Metadata == tool.metadata = Snapshot[compared][Pyproject]

Look(at, ok, s) == /\ step = at /\ Go(s, IF ok THEN {} ELSE {at})
                   /\ UNCHANGED <<box, tool>> /\ People
LookAtFiles    == Look("files", Missing \cup Modified \cup NotInTree = {} /\ ~tool.extra, "receipt")
LookAtReceipt  == Look("receipt", Receipt /\ OnPath, "metadata")
LookAtMetadata == Look("metadata", Metadata, "modes")
LookAtModes ==
  /\ step = "modes" /\ Return(IF problems = {} /\ WrongMode = {} THEN 0 ELSE 1)
  /\ UNCHANGED <<box, tool>> /\ People

\* RefusedError: git or uv answered nothing usable.
Refused == step \notin {"idle", "done"} /\ Return(1) /\ UNCHANGED <<box, tool>> /\ People

-----------------------------------------------------------------------------
(* People, and origin. *)

Change(moves) == /\ changes < MaxChanges /\ changes' = changes + 1
                 /\ moved' = (moved \/ moves) /\ UNCHANGED run

Edit ==
  /\ Change(FALSE)
  /\ \E f \in Tracked : \E c \in (Contents \cup {Absent}) \ {tree[f]} : tree' = [tree EXCEPT ![f] = c]
  /\ UNCHANGED <<upstream, fetched, head, onMain, linked, session, hidden, ignored, tool>>
Hide ==
  /\ Change(FALSE)
  /\ \E f \in Tracked : hidden' = IF f \in hidden THEN hidden \ {f} ELSE hidden \cup {f}
  /\ UNCHANGED <<upstream, fetched, head, onMain, linked, session, tree, ignored, tool>>
Ignore ==
  /\ Change(FALSE) /\ ignored' = ~ignored
  /\ UNCHANGED <<upstream, fetched, head, onMain, linked, session, tree, hidden, tool>>
MergeUpstream ==
  /\ Change(TRUE) /\ upstream + 1 \in Trunk /\ upstream' = upstream + 1
  /\ UNCHANGED <<fetched, head, onMain, linked, session, tree, hidden, ignored, tool>>
\* A pull of main, or a switch to a branch.
Checkout ==
  /\ Change(TRUE) /\ Dirty = {}
  /\ \E c \in Commits \ {head} :
       /\ c \in Trunk => c = upstream
       /\ head' = c /\ tree' = Snapshot[c] /\ onMain' = (c \in Trunk)
       /\ fetched' = IF c \in Trunk THEN upstream ELSE fetched
  /\ UNCHANGED <<upstream, linked, session, hidden, ignored, tool>>
\* Somebody installs another copy, strips an exec bit, or shadows or unshadows it on PATH.
Tamper ==
  /\ Change(step \in {"receipt", "metadata", "modes"})
  /\ \/ tool' = [tool EXCEPT !.first = ~@]
     \/ tool.present /\ tool' = [tool EXCEPT !.ours = FALSE]
     \/ \E f \in Files : tool.files[f] # Absent /\ tool' = [tool EXCEPT !.exec[f] = ~@]
  /\ UNCHANGED box

Step == \/ Place \/ Status \/ Fetch \/ Sync \/ Decide \/ UvInstall
        \/ ReadHead \/ LookAtFiles \/ LookAtReceipt \/ LookAtMetadata \/ LookAtModes \/ Refused
Next == Begin \/ Step \/ Edit \/ Hide \/ Ignore \/ MergeUpstream \/ Checkout \/ Tamper

Spec == Init /\ [][Next]_vars

\* "It fetches as --apply does, so its verdict on sync is the apply's", "only from a
\* clean main in sync with origin/main", "installed and verified": unless HEAD or
\* origin moved while it ran, or the tool was replaced between two looks of its check, a
\* dry run exits 0 only at origin's tip on main in the main checkout, and an apply only
\* there and with exactly that commit's files and metadata installed, first on PATH,
\* whatever was edited or hidden meanwhile, and whatever was replaced before the check.
Exits0(m) == mode = m /\ step # "done" /\ step' = "done" /\ rc' = 0 /\ ~moved
ExitsAreTrue ==
  [][/\ Exits0("dry") \/ Exits0("apply") => head = upstream /\ onMain /\ ~linked
     /\ Exits0("apply") => /\ \A f \in Files : tool'.files[f] = Snapshot[head][f]
                           /\ tool'.metadata = Snapshot[head][Pyproject] /\ ~tool'.extra
                           /\ tool'.ours /\ tool'.first /\ tool'.exec = Mode]_vars
=============================================================================
