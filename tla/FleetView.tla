-------------------------------- MODULE FleetView --------------------------------
(***************************************************************************)
(* What the tables say of one project among the others: the drift from its *)
(* scaffold manifest, the hooks git would run in its checkout, the         *)
(* scaffold versions, the cached checks, the --where filter, the alerts of *)
(* notify, and upgrade-plan, which dispatches workflows.  Every one of     *)
(* them is known, known to be bad, or not known.                           *)
(*                                                                         *)
(* A version is a set of at most one number: nothing comparable is {}.     *)
(***************************************************************************)
EXTENDS Naturals, FiniteSets, FiniteSetsExt

CONSTANTS
  Files,     \* bound: files of the manifest
  Hooks,     \* bound: hooks
  Versions   \* bound: versions

VARIABLES
  topic,    \* which of the surfaces varies
  tree,     \* each manifest file on disk, none when no manifest was read
  expected, \* hooks.expected of the descriptor
  checkout, \* how .git says where the hooks are, and what is installed there
  own, others, latest, plugin, shipped,  \* versions: its own, the fleet's, upstream's; plugins
  checks,   \* its cached results
  where,    \* the --where terms
  shown     \* what was printed, no fields before

given == <<topic, tree, expected, checkout, own, others, latest, plugin, shipped, checks, where>>
vars  == <<given, shown>>

Known == {{}} \cup {{v} : v \in Versions}
Bytes == {"none", "unreadable", "old", "new"}
FleetViewAssumption == /\ Files # {} /\ Hooks # {}
                       /\ Versions \subseteq Nat /\ Versions # {} /\ IsFiniteSet(Versions)

-----------------------------------------------------------------------------
(* drift.py *)

Modified == {f \in DOMAIN tree : tree[f] \in {"edited", "too large", "unreadable"}}
Missing  == {f \in DOMAIN tree : tree[f] = "gone"}
ComputeDrift == CASE DOMAIN tree = {} -> "no-manifest"
                  [] DOMAIN tree # {} /\ Modified \cup Missing = {} -> "clean"
                  [] OTHER -> "drift"

\* _hooks_dir: a .git file leads to the common directory of a worktree, or to the
\* relocated git directory of a checkout that has none.
HooksDir == CASE checkout.git \in {"directory", "unreadable", "no pointer"} -> "in .git"
              [] checkout.git = "worktree" -> "in the common directory"
              [] checkout.git = "relocated" -> "in the git directory"
Installed(h) == IF HooksDir = checkout.dir THEN checkout.installed[h] ELSE "none"
Declared == IF expected # {} THEN expected ELSE {h \in Hooks : checkout.source[h] # "none"}

\* Mutant: a tracked copy that cannot be read counts as another.
DiffersIfUnread(h) == checkout.source[h] # Installed(h)

Differs(h) == /\ {checkout.source[h], Installed(h)} \cap {"none", "unreadable"} = {}
              /\ checkout.source[h] # Installed(h)

HookHealth ==
  LET present == {h \in Declared : Installed(h) # "none"}
  IN  CASE Declared = {} -> "-"
        [] present # Declared -> IF present = {} THEN "missing" ELSE "partial"
        [] OTHER -> IF \E h \in Declared : Differs(h) THEN "stale" ELSE "ok"

-----------------------------------------------------------------------------
(* fleet.py and selector.py *)

CheckCell(task) == IF checks[task] = "none" THEN "?" ELSE checks[task]

NewestScaffoldVersion(versions) == IF versions = {} THEN {} ELSE {Max(versions)}
\* Mutant: the newest version is looked for among the rows that are shown.
LatestAmongShown(selected) ==
  LET newest == NewestScaffoldVersion(UNION {own} \cup IF selected THEN {} ELSE UNION others)
  IN  CASE own = {} \/ newest = {} -> "-" [] OTHER -> IF Max(own) >= Max(newest) THEN "=" ELSE "behind"
LatestCell(selected) ==
  LET newest == NewestScaffoldVersion(own \cup UNION others)
  IN  CASE own = {} \/ newest = {} -> "-" [] OTHER -> IF Max(own) >= Max(newest) THEN "=" ELSE "behind"

CellStatus(text) ==
  CASE text \in {"pass", "clean", "ok", "none"}          -> "good"
    [] text \in {"fail", "missing"}                      -> "bad"
    [] text \in {"behind", "partial"}                    -> "warn"
    [] OTHER                                             -> "neutral"

Fields == {"ci", "hooks", "drift"}
Value(field) == CASE field = "ci" -> IF checks.ci = "none" THEN "unknown" ELSE checks.ci
                  [] field = "hooks" -> HookHealth
Count == Cardinality(Modified \cup Missing)

\* A term is a field, an operator, and a value to compare a text or a number with.
Matches(term) ==
  CASE term.field = "drift" -> (CASE term.op = ">" -> Count > 0 [] term.op = "=" -> Count = 0)
    [] term.field # "drift" /\ term.op = "=" -> Value(term.field) = term.text
    [] term.field # "drift" /\ term.op = "!=" -> Value(term.field) # term.text
    [] term.field # "drift" /\ term.op = ">" -> FALSE   \* not a number

Parses  == \A term \in where : term.field \in Fields
Selects == Parses /\ \A term \in where : Matches(term)

\* notify.py
SnapshotAlerts ==
  {<<"critical", task>> : task \in {t \in DOMAIN checks \ {"lint"} : checks[t] = "fail"}}
  \cup (IF checks.lint = "fail" THEN {<<"warning", "lint">>} ELSE {})
  \cup (IF ComputeDrift = "drift" THEN {<<"warning", "drift">>} ELSE {})
  \cup (IF HookHealth \in {"missing", "partial", "stale"} THEN {<<"warning", "hooks">>} ELSE {})

-----------------------------------------------------------------------------
(* upgrade.py *)

Standing(current, upstream, behind) ==
  CASE current = {} \/ upstream = {} -> "unknown"
    [] OTHER -> IF Max(current) >= Max(upstream) THEN "ok" ELSE behind
PlanStatus    == Standing(own, latest, "outdated")
PluginStatus  == Standing(plugin, shipped, "behind")
UnknownReason == CASE own = {} -> "own version" [] own # {} /\ latest = {} -> "upstream" [] OTHER -> ""

-----------------------------------------------------------------------------
Terms == [field : {"ci"}, op : {"=", "!=", ">"}, text : {"fail", "unknown"}]
         \cup [field : {"hooks"}, op : {"="}, text : {"ok", "stale"}]
         \cup [field : {"drift"}, op : {">", "="}, text : {"0"}]
         \cup [field : {"cli"}, op : {"="}, text : {"fail"}]
Checks == [test : {"none", "pass", "fail"}, ci : {"none", "pass", "fail", "unknown"},
           lint : {"none", "fail"}, process : {"none", "fail"}]
Quiet  == [test |-> "none", ci |-> "none", lint |-> "none", process |-> "none"]
Trees  == {[f \in {} |-> ""]} \cup [Files -> {"same", "edited", "too large", "unreadable", "gone"}]
Checkouts == [git : {"directory", "unreadable", "no pointer", "worktree", "relocated"},
              dir : {"in .git", "in the common directory", "in the git directory"},
              source : [Hooks -> Bytes], installed : [Hooks -> Bytes \ {"unreadable"}]]
Bare   == [git |-> "directory", dir |-> "in .git", source |-> [h \in Hooks |-> "none"],
           installed |-> [h \in Hooks |-> "none"]]

Init ==
  /\ topic \in {"hooks", "versions", "filters"} /\ shown = [x \in {} |-> ""]
  /\ checkout \in IF topic = "hooks" THEN Checkouts
                  ELSE {[Bare EXCEPT !.source = [h \in Hooks |-> "new"], !.installed = [h \in Hooks |-> b]] :
                          b \in IF topic = "filters" THEN {"new", "old"} ELSE {"new"}}
  /\ expected \in IF topic = "hooks" THEN SUBSET Hooks ELSE {{}}
  /\ own \in IF topic = "versions" THEN Known ELSE {{}}
  /\ others \in IF topic = "versions" THEN SUBSET Known ELSE {{}}
  /\ latest \in IF topic = "versions" THEN Known ELSE {{}}
  /\ plugin \in IF topic = "versions" THEN Known ELSE {{}}
  /\ shipped \in IF topic = "versions" THEN Known ELSE {{}}
  /\ tree \in IF topic = "filters" THEN Trees ELSE {[f \in {} |-> ""]}
  /\ checks \in IF topic = "filters" THEN Checks ELSE {Quiet}
  /\ where \in IF topic = "filters" THEN {{}} \cup {{s, t} : s, t \in Terms}
              ELSE IF topic = "versions" THEN {{}, {[field |-> "ci", op |-> "=", text |-> "unknown"]}}
              ELSE {{}}

\* status, with a filter; a filter that cannot be honoured shows nothing and exits 2.
Status ==
  /\ shown = [x \in {} |-> ""] /\ UNCHANGED given
  /\ \/ ~Parses /\ shown' = [rc |-> 2]
     \/ Parses /\ ~Selects /\ shown' = [rc |-> 0]
     \/ Selects /\ shown' = [rc |-> 0, hooks |-> HookHealth, drift |-> ComputeDrift,
                             latest |-> LatestCell(where # {}), tests |-> CheckCell("test"),
                             ci |-> CheckCell("ci")]

\* notify, which pushes nothing when there is no alert.
Notify ==
  /\ shown = [x \in {} |-> ""] /\ UNCHANGED given
  /\ shown' = [rc |-> IF SnapshotAlerts = {} THEN 0 ELSE 1, alerts |-> SnapshotAlerts]

\* upgrade-plan --apply dispatches the upgrade of an outdated project alone.
UpgradePlan ==
  /\ shown = [x \in {} |-> ""] /\ UNCHANGED given
  /\ shown' = [rc |-> IF PlanStatus = "outdated" THEN 1 ELSE 0, status |-> PlanStatus,
               plugin |-> PluginStatus, reason |-> UnknownReason, dispatched |-> PlanStatus = "outdated"]

Next == Status \/ Notify \/ UpgradePlan
Spec == Init /\ [][Next]_vars

-----------------------------------------------------------------------------
TypeOK == /\ topic \in {"hooks", "versions", "filters"} /\ own \in Known /\ others \subseteq Known
          /\ expected \subseteq Hooks /\ checkout \in Checkouts /\ checks \in Checks

\* Where git itself looks for the hooks of this checkout, and the file it finds there.
\* Whether its exec bit lets git run it is not asked: installed means a file is there.
GitFinds(h) == IF \/ checkout.git = "directory" /\ checkout.dir = "in .git"
                  \/ checkout.git = "worktree" /\ checkout.dir = "in the common directory"
                  \/ checkout.git = "relocated" /\ checkout.dir = "in the git directory"
               THEN checkout.installed[h] ELSE "none"
IsRepository == checkout.git \in {"directory", "worktree", "relocated"}

\* Nobody reads as current, clean or installed who is not known to be: hooks are ok only
\* when git finds a file for every one of them in this checkout, and stale only when one
\* it finds is known to be another; "behind" is against the whole fleet, "a filtered view"
\* included (fleet.py); a filter selects no project on what is not known of it, but for
\* its count of drifted files, 0 without a manifest; an upgrade is dispatched to who is
\* known to be behind, and every unknown has its reason; a red cell has its alert.
Printed(field) == field \in DOMAIN shown
ViewIsTrue ==
  /\ Printed("hooks") /\ IsRepository =>
       /\ shown.hooks = "ok" => \A h \in Declared : /\ GitFinds(h) # "none"
                                                    /\ GitFinds(h) = "old" => checkout.source[h] # "new"
       /\ shown.hooks = "stale" => \E h \in Declared : {checkout.source[h], GitFinds(h)} = {"old", "new"}
       /\ shown.hooks \in {"missing", "partial"} => \E h \in Declared : GitFinds(h) = "none"
  /\ Printed("drift") => (shown.drift = "clean" => \A f \in Files : tree[f] = "same")
  /\ Printed("latest") => (shown.latest = "behind" <=> own # {} /\ \E v \in UNION others : v > Max(own))
  /\ Printed("ci") => \A term \in where :
       /\ term.field = "ci" => /\ term.op # ">"
                               /\ term.op = "=" /\ term.text = "fail" => shown.ci = "fail"
       /\ term.field = "drift" /\ term.op = ">" => shown.drift = "drift"
  /\ (\E term \in where : term.field = "cli") /\ Printed("rc") /\ ~Printed("alerts") /\ ~Printed("status")
       => shown.rc = 2
  /\ Printed("status") =>
       /\ shown.dispatched <=> shown.status = "outdated"
       /\ shown.status = "outdated" <=> shown.rc = 1
       /\ shown.status = "outdated" => \E u \in latest, v \in own : u > v
       /\ shown.status = "unknown" <=> shown.reason # ""
       /\ shown.plugin = "ok" => \E u \in shipped, v \in plugin : u <= v
  /\ Printed("alerts") =>
       /\ \A task \in {"test", "ci", "lint"} :
            CellStatus(CheckCell(task)) = "bad" => \E level \in {"critical", "warning"} : <<level, task>> \in shown.alerts
       /\ CellStatus(HookHealth) \in {"bad", "warn"} => <<"warning", "hooks">> \in shown.alerts
       /\ shown.alerts = {} <=> shown.rc = 0
=============================================================================
