--------------------------------- MODULE Estate ---------------------------------
(***************************************************************************)
(* orphans: which live cloud resources no project of the fleet governs.    *)
(* One gcloud search lists the estate, under the identity the environment  *)
(* pins (gcloud_identity.py, adapters/gcp.py), and orphans.py takes the    *)
(* fleet from it.  A narrower account lists less and exits 0 all the same. *)
(***************************************************************************)
EXTENDS Naturals, FiniteSets

CONSTANTS
  Names, Regions,  \* bound: names of projects, apps and resources; regions
  MaxLive          \* bound: resources, and projects

VARIABLES
  scoped,    \* --scope was given
  environ,   \* what the shell says of gcloud, and whether the pinned directory has a credential
  estate,    \* the resources that are live in the scope
  narrow,    \* those the operator's day-to-day account sees
  broken,    \* how the search goes wrong, "" if it does not
  projects,  \* the fleet
  report, orphans, rc  \* what was printed

situation == <<scoped, environ, estate, narrow, broken, projects>>
vars  == <<situation, report, orphans, rc>>

NoRegion  == ""   \* a blank deploy.region or location: _ANY_REGION
NoApp     == ""
Resources == [name : Names, location : Regions \cup {NoRegion}]
Projects  == {p \in [name : Names, app : Names \cup {NoApp}, region : Regions \cup {NoRegion}] :
                p.app = NoApp => p.region = NoRegion}
Estates   == {e \in SUBSET Resources : Cardinality(e) <= MaxLive}
Fleets    == {f \in SUBSET Projects : Cardinality(f) <= MaxLive}

EstateAssumption == NoRegion \notin Names \cup Regions /\ MaxLive \in Nat

-----------------------------------------------------------------------------
(* The identity of the search. *)

\* gcloud_config_dir: the operator's override, or the directory of the broad identity.
GcloudConfigDir == IF environ.override THEN "ambient" ELSE "tools"

\* Mutant: the pin is merged into the environment, whose overrides outrank it.
MergedEnv == [account |-> environ.account, dir |-> GcloudConfigDir]
GcloudEnv == [account |-> FALSE, dir |-> GcloudConfigDir]

\* The resources gcloud lists, a set of at most one listing: none without a credential.
Listings(env) == IF env.account \/ env.dir = "ambient" THEN {narrow}
                 ELSE IF environ.tools THEN {estate} ELSE {}

SearchResources == IF broken = "" THEN Listings(GcloudEnv) ELSE {}

-----------------------------------------------------------------------------
(* The fleet. *)

\* Mutant: the name alone accounts for a resource, wherever it runs.
KeysByName ==
  {<<p.name, NoRegion>> : p \in projects} \cup {<<p.app, NoRegion>> : p \in projects}
AccountedKeys ==
  {<<p.name, NoRegion>> : p \in projects}
    \cup {<<p.app, p.region>> : p \in {q \in projects : q.app # NoApp}}

IsAccounted(r) == {<<r.name, NoRegion>>, <<r.name, r.location>>} \cap AccountedKeys # {}

Says(what, found, code) == report' = what /\ orphans' = found /\ rc' = code

\* _cmd_orphans
Refuse  == ~scoped /\ Says("refused", {}, 2)
Unknown == scoped /\ SearchResources = {} /\ Says("unknown", {}, 1)
FindOrphans == \E listed \in SearchResources :
                 scoped /\ Says("listed", {r \in listed : ~IsAccounted(r)}, 0)

-----------------------------------------------------------------------------
\* A project's app may be the name of another; what an account sees is live.  What is live is
\* of no matter to a search that does not take place.
Init ==
  /\ scoped \in BOOLEAN /\ broken \in {"", "no gcloud", "timeout", "not JSON", "not a list"}
  /\ environ \in [override : BOOLEAN, account : BOOLEAN, tools : BOOLEAN]
  /\ estate \in (IF scoped /\ broken = "" THEN Estates ELSE {{}})
  /\ narrow \in SUBSET estate
  /\ projects \in (IF scoped /\ broken = "" THEN Fleets ELSE {{}})
  /\ report = "" /\ orphans = {} /\ rc = 0

Next == report = "" /\ (Refuse \/ Unknown \/ FindOrphans) /\ UNCHANGED situation
Spec == Init /\ [][Next]_vars

TypeOK == /\ report \in {"", "refused", "unknown", "listed"} /\ rc \in 0..2
          /\ orphans \subseteq estate

\* What no project of the fleet runs: none is named so, and none declares it as its app in that
\* region, or in no region.
Ungoverned(resources) ==
  {r \in resources : \A p \in projects : /\ p.name # r.name
                                         /\ p.app = r.name => p.region \notin {NoRegion, r.location}}

\* orphans exits 0 only for a search that listed something to compare, and then names exactly
\* what no project governs among ALL that is live; under the day-to-day account, and what it
\* sees, only when the operator named that account (__main__ _cmd_orphans, orphans.py,
\* gcloud_identity.py).
OrphansAreTold ==
  report # "" =>
    /\ rc = 0 <=> report = "listed"
    /\ report = "listed" => scoped /\ broken = "" /\ (environ.tools \/ environ.override)
    /\ report = "listed" => orphans = Ungoverned(IF environ.override THEN narrow ELSE estate)
=============================================================================
