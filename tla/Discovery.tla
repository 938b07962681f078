------------------------------- MODULE Discovery -------------------------------
(***************************************************************************)
(* Which checkouts are the fleet: registry.discover over the ones listed   *)
(* under projects:, the ones one level under a scanned root, and the ones  *)
(* nested deeper.  Clones of one repository, linked worktrees, worktrees   *)
(* whose main checkout is elsewhere, broken and refused descriptors all    *)
(* meet in one scan, and what is left out silently is never seen again.    *)
(* What the operator excludes by name at the first level is no candidate.  *)
(*                                                                         *)
(* A checkout is its place in the order the candidates are scanned; of is  *)
(* the main checkout a linked worktree belongs to, 0 for one not on disk;  *)
(* walked says whether the search for nested ones gets there: not below    *)
(* _HINT_DEPTH levels, nor under a dotted, a vendored or an excluded name, *)
(* a linked worktree, or a directory that cannot be listed.                *)
(***************************************************************************)
EXTENDS Naturals, FiniteSets, Sequences

CONSTANT N   \* bound: checkouts

VARIABLES
  disk,    \* the checkouts
  plain,   \* include_plain_repos
  next,    \* the candidate discover looks at
  held,    \* the repositories already held: mains
  fleet,   \* those found
  warned,  \* those a warning names
  cut      \* a warning says the nested search was not finished

vars == <<disk, plain, next, held, fleet, warned, cut>>

Ids == 1..N
Places == <<"listed", "scanned", "nested">>
Rank(place) == CHOOSE i \in 1..3 : Places[i] = place
Bit(b) == IF b THEN 1 ELSE 0
Checkout ==
  [place : {"listed", "scanned", "nested"}, config : {"ok", "broken", "refused", "none"},
   git : {"none", "main", "linked"}, of : 0..N, origin : BOOLEAN, form : {"named", "plain", "hidden"},
   walked : BOOLEAN]
Weight(c) == 4 * Bit(~c.walked) + 2 * Bit(c.config # "ok") + Bit(c.git # "main")
\* A field that says nothing of a checkout has one value, and the nested ones, whose order
\* nothing depends on, come in one order.
WellFormed(d, i) ==
  /\ i > 1 => Rank(d[i - 1].place) <= Rank(d[i].place)
  /\ i > 1 /\ d[i - 1].place = "nested" =>
       Weight(d[i - 1]) <= Weight(d[i])
  /\ d[i].of # 0 => d[d[i].of].git = "main"
Lone == {c \in Checkout : /\ c.git # "linked" => c.of = 0
                          /\ c.git # "main" => ~c.origin
                          /\ ~c.origin \/ c.place = "nested" => c.form = "plain"
                          /\ ~c.walked => c.place = "nested" /\ c.config = "ok" /\ ~c.origin}

-----------------------------------------------------------------------------
(* What each candidate is, before deciding what to skip. *)

Candidates == {i \in Ids : disk[i].place # "nested"}
Listed(i)  == disk[i].place = "listed"
Main(i)    == disk[i].git = "main"
Linked(i)  == disk[i].git = "linked"
\* _git_dirs: the common directory names the repository; 0 is one not on disk.
Common(i)  == IF Main(i) THEN i ELSE disk[i].of

\* load_descriptor, then infer_descriptor of any repository when plain ones are included.
Admitted(i) == disk[i].config = "ok" \/ (plain /\ disk[i].git # "none")

\* Mutant: a main checkout holds its repository, governed or not.
MainsOfAll == {Common(i) : i \in {j \in Candidates : disk[j].git # "none" /\ (Main(j) \/ Listed(j))}}

Mains == {Common(i) : i \in {j \in Candidates : /\ disk[j].git # "none" /\ Admitted(j)
                                                /\ Main(j) \/ Listed(j)}}

\* The clones of one origin, and the order in which one of them stays.
Clones == {i \in Candidates : Main(i) /\ disk[i].origin}
CanonicalRank(i) == 8 * Bit(~Listed(i)) + 4 * Bit(disk[i].form # "named")
                    + 2 * Bit(disk[i].form = "hidden") + Bit(~Admitted(i))
Keeper == CHOOSE i \in Clones : \A j \in Clones : \/ CanonicalRank(i) < CanonicalRank(j)
                                                  \/ CanonicalRank(i) = CanonicalRank(j) /\ i <= j
RedundantClones == IF Clones = {} THEN {} ELSE {i \in Clones \ {Keeper} : ~Listed(i)}

DuplicateCheckout(i) == Linked(i) /\ ~Listed(i) /\ Common(i) \in held
CandidateRepos == {i \in Candidates : Main(i)}
SiblingCheckout(i) == ~Listed(i) /\ Linked(i) /\ Common(i) \in CandidateRepos

UnresolvedWarning(i) == \/ disk[i].config = "refused"
                        \/ ~SiblingCheckout(i) /\ (Listed(i) \/ disk[i].config = "broken")

-----------------------------------------------------------------------------
Init ==
  /\ \E lack \in {"broken", "refused", "none"} :   \* bound: one way of lacking a descriptor
       disk \in {d \in [Ids -> {c \in Lone : c.config \in {"ok", lack}}] : \A i \in Ids : WellFormed(d, i)}
  /\ plain \in BOOLEAN
  /\ next = 1 /\ held = Mains /\ fleet = {} /\ warned = {} /\ cut = FALSE

Skip(i) == UNCHANGED <<held, fleet, warned>>
\* Mutant: an admitted worktree holds nothing.
HoldNone(i) == held' = held

HoldRepo(i) == held' = IF Linked(i) THEN held \cup {Common(i)} ELSE held

\* The loop of discover.
Consider(i) ==
  /\ next = i /\ i \in Candidates /\ next' = i + 1
  /\ \/ (i \in RedundantClones \/ DuplicateCheckout(i)) /\ Skip(i)
     \/ /\ i \notin RedundantClones /\ ~DuplicateCheckout(i)
        /\ \/ Admitted(i) /\ HoldRepo(i) /\ fleet' = fleet \cup {i} /\ UNCHANGED warned
           \/ /\ ~Admitted(i) /\ UNCHANGED <<held, fleet>>
              /\ warned' = IF UnresolvedWarning(i) THEN warned \cup {i} ELSE warned
  /\ UNCHANGED <<disk, plain, cut>>

\* _nested_projects, which stops when its budget is spent, and _nested_warnings, which
\* counts those found and names the first five.
IsProjectDir(i) == disk[i].config \in {"ok", "broken"} \/ (plain /\ disk[i].git # "none")
Nested == {i \in Ids : disk[i].place = "nested" /\ disk[i].walked /\ IsProjectDir(i)}
Repos  == {Common(i) : i \in {j \in fleet : disk[j].git # "none"}}
WorktreeOf(i) == Linked(i) /\ Common(i) \in Repos
NestedWarnings ==
  /\ next \in Ids \cup {N + 1} /\ next \notin Candidates /\ next' = N + 2
  /\ \E reached \in SUBSET Nested :
       /\ warned' = warned \cup {i \in reached : ~WorktreeOf(i)}
       /\ cut' \in {reached # Nested, TRUE}
  /\ UNCHANGED <<disk, plain, held, fleet>>

Next == (\E i \in Ids : Consider(i)) \/ NestedWarnings
Spec == Init /\ [][Next]_vars

-----------------------------------------------------------------------------
TypeOK == /\ next \in 1..N + 2 /\ held \subseteq 0..N /\ cut \in BOOLEAN
          /\ fleet \subseteq Candidates /\ warned \subseteq Ids \ fleet

\* "A SCANNED worktree of a repo the fleet already holds is a second checkout of one
\* project", and every verb once ran twice on a repository with a scratch clone: two
\* checkouts of one common directory or one origin are both in the fleet only when the
\* operator listed one of them.
SameRepository(i, j) == \/ disk[i].git # "none" /\ disk[j].git # "none" /\ Common(i) = Common(j)
                        \/ Main(i) /\ Main(j) /\ disk[i].origin /\ disk[j].origin
OnePerRepository == \A i, j \in fleet : i # j /\ SameRepository(i, j) => Listed(i) \/ Listed(j)

\* "Absent and healthy are byte-identical to a reader": once discovery ends, a listed
\* checkout is in the fleet or warned about, and one that is governed or carries a
\* descriptor that cannot be read is that too, or stood for by another checkout of its
\* repository that is; a nested one may be cut off, if a warning says that too.  Four
\* silences are the code's own rule: nested checkouts where the search does not go, a
\* refused descriptor among the nested ones, a repository whose best placed clone carries
\* no descriptor, and a worktree whose main checkout speaks for it.
Notable(i) == \/ Admitted(i) \/ Listed(i) \/ disk[i].config = "broken"
              \/ i \in Candidates /\ disk[i].config = "refused"
Accounted(i) == i \in fleet \cup warned
StoodFor(i) == \E j \in Ids : Accounted(j) /\ (SameRepository(i, j) \/
                  \E k \in Ids : SameRepository(i, k) /\ SameRepository(k, j))
Silenced(i) == \/ disk[i].place = "nested" /\ ~disk[i].walked
               \/ \E k \in Clones : SameRepository(i, k) /\ ~Admitted(Keeper)
               \/ ~Admitted(i) /\ SiblingCheckout(i)
NothingDropsSilently ==
  next = N + 2 =>
    \A i \in Ids : /\ Listed(i) => Accounted(i)
                   /\ Notable(i) => \/ Accounted(i) \/ StoodFor(i) \/ Silenced(i)
                                    \/ i \notin Candidates /\ cut
=============================================================================
