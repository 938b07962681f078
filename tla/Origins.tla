--------------------------------- MODULE Origins ---------------------------------
(***************************************************************************)
(* The three checks that a copy still matches where it came from: the      *)
(* vendored descriptor contract against project-init (freshness.py), the   *)
(* register of seams (seams.py), and the pinned versions (versions.py).    *)
(* Each ends in an exit code a scheduler reads, and each may be unable to  *)
(* ask.                                                                    *)
(***************************************************************************)
EXTENDS Naturals, Sequences, FiniteSets

CONSTANTS Blocks, Fields,  \* bound: a schema's blocks and their fields
          Seams,           \* bound: rows of the register of seams
          MaxVersion, Understood  \* bound; CONTRACT_VERSION_MAX

VARIABLES
  check,              \* which check runs
  ours, theirs,       \* the vendored schema and upstream's
  pinned, ships,      \* the fixture's version and upstream's, {} when not comparable
  declares,           \* the contract version upstream declares, 0 for none
  arrived,            \* what could be fetched
  seam, lone, tracked,\* the register's rows; the copies in a tree, and whether git ls-files answered
  pins, bot, excepted,\* what a repository pins, its update bot, and the exceptions
  status, found, rc   \* the verdict

schemas == <<ours, theirs, pinned, ships, declares, arrived>>
given   == <<check, schemas, seam, lone, tracked, pins, bot, excepted>>
vars    == <<given, status, found, rc>>

OriginsAssumption == /\ IsFiniteSet(Blocks) /\ IsFiniteSet(Fields) /\ IsFiniteSet(Seams)
                     /\ MaxVersion \in Nat /\ Understood \in Nat

-----------------------------------------------------------------------------
(* freshness.py.  A block has a shape, typed fields, and prose that no     *)
(* reader depends on, which _contract leaves out.                          *)

Absent == "absent"
NoBlock == [shape |-> Absent, fields |-> [f \in Fields |-> Absent], prose |-> "old"]
Block  == {NoBlock} \cup [shape : {"any", "object"}, fields : [Fields -> {Absent, "text", "list"}],
                          prose : {"old", "new"}]
Contract(block) == <<block.shape, block.fields>>
Has(schema, b)  == schema[b].shape # Absent

\* Mutant: blocks are compared by the names of their fields.
RetypedByName(b) == {}
Retyped(b) == {f \in Fields : /\ Absent \notin {ours[b].fields[f], theirs[b].fields[f]}
                              /\ ours[b].fields[f] # theirs[b].fields[f]}
Added(b)   == {f \in Fields : ours[b].fields[f] = Absent /\ theirs[b].fields[f] # Absent}
Removed(b) == {f \in Fields : ours[b].fields[f] # Absent /\ theirs[b].fields[f] = Absent}

CompareSchema ==
  IF "schema" \notin arrived \/ \A b \in Blocks : ~Has(theirs, b) THEN {}
  ELSE {<<"schema", b>> : b \in {x \in Blocks :
          \/ Has(ours, x) # Has(theirs, x)
          \/ /\ Has(ours, x) /\ Has(theirs, x)
             /\ \/ Added(x) \cup Removed(x) \cup Retyped(x) # {}
                \/ Added(x) \cup Removed(x) = {} /\ ours[x].shape # theirs[x].shape}}

CompareFixtureVersion ==
  IF "version" \in arrived /\ \E p \in pinned, s \in ships : p < s THEN {<<"fixture-version">>} ELSE {}

CompareContractVersion ==
  IF "source" \in arrived /\ (declares = 0 \/ declares > Understood) THEN {<<"contract-version">>} ELSE {}

\* compare, and check_contract_freshness.py's exit code, 0 for unknown too.
Freshness ==
  LET drifts == CompareSchema \cup CompareFixtureVersion \cup CompareContractVersion
  IN  /\ check = "freshness" /\ status = "" /\ found' = drifts
      /\ \/ drifts # {} /\ status' = "stale" /\ rc' = 1
         \/ drifts = {} /\ status' = (IF arrived = {"schema", "version", "source"} THEN "fresh" ELSE "unknown")
            /\ rc' = 0
      /\ UNCHANGED given

-----------------------------------------------------------------------------
(* seams.py.  A row is not this check's, or cannot be judged, or holds a   *)
(* vendored tree whose files moved some commits ago, or a schema.  git is  *)
(* asked three ways, and each may fail: show, for the origin's file, which *)
(* then reads as gone; rev-list, for the lag; ls-files, for what is        *)
(* tracked, which then reads as nothing.                                   *)

SeamRow ==
  [kind : {"elsewhere", "no checkout", "no copy", "no manifest", "read in place"}]
  \cup [kind : {"vendor"}, moved : BOOLEAN, lag : {"unknown", "within", "beyond"}, shows : BOOLEAN]
  \cup [kind : {"contract"}, upstream : {"same", "reworded", "changed", "gone", "unreadable"}, shows : BOOLEAN]

Stale(row) == row.moved \/ ~row.shows
Vendor(row) == CASE ~Stale(row) -> "" [] Stale(row) /\ row.lag = "unknown" -> "unchecked"
                 [] Stale(row) /\ row.lag = "within" -> "" [] OTHER -> "stale"
\* Mutant: only what git showed is compared.
ContractCopyIfShown(row) == CASE ~row.shows \/ row.upstream = "gone" -> "unchecked"
                              [] row.shows /\ row.upstream = "unreadable" -> "unchecked"
                              [] row.shows /\ row.upstream = "changed" -> "stale" [] OTHER -> ""
ContractCopy(row) == CASE ~row.shows \/ row.upstream = "gone" -> "no-schema"
                       [] row.shows /\ row.upstream = "unreadable" -> "unchecked"
                       [] row.shows /\ row.upstream = "changed" -> "stale" [] OTHER -> ""
One(row) == CASE row.kind = "elsewhere" -> "" [] row.kind = "no checkout" -> "unchecked"
              [] row.kind = "no copy" -> "missing-copy" [] row.kind = "vendor" -> Vendor(row)
              [] row.kind = "contract" -> ContractCopy(row) [] OTHER -> ""

\* scan_copies, over what a tree may track; one under tests is nobody's copy.
Copies == {"a manifest", "under vendor", "a fixture schema", "under tests"}
Covered == {"a manifest"}   \* its row names the directory it is in
Tracked == IF tracked THEN lone ELSE {}
Unregistered == {c \in Tracked : c # "under tests" /\ c \notin Covered}

\* check and main.
JudgeSeams ==
  LET judged == {s \in Seams : One(seam[s]) # ""}
      kinds  == {One(seam[s]) : s \in judged} \cup IF Unregistered # {} THEN {"unregistered"} ELSE {}
      total  == Cardinality(judged) + Cardinality(Unregistered)
  IN  /\ check = "seams" /\ status = "" /\ \A s \in Seams : seam[s].kind # "no manifest"
      /\ found' = kinds /\ status' = "judged"
      /\ rc' = CASE kinds = {"unchecked"} /\ total >= Cardinality(Seams) -> 3
                 [] kinds = {"unchecked"} /\ total < Cardinality(Seams) -> 0
                 [] kinds = {} -> 0
                 [] OTHER -> 1
      /\ UNCHANGED given

\* A vendored tree whose MANIFEST cannot be read raises: a traceback, and nothing is printed.
NoManifest ==
  /\ check = "seams" /\ status = "" /\ \E s \in Seams : seam[s].kind = "no manifest"
  /\ status' = "crashed" /\ rc' = 1
  /\ UNCHANGED <<given, found>>

-----------------------------------------------------------------------------
(* versions.py.  A pin's value against the register's; a tool declared     *)
(* twice keeps its last bound, an action every ref that is not the         *)
(* registered commit.                                                      *)

Levels == {"unpinned", "lower", "equal", "higher", "next major"}
Refs   == {"registered", "tag", "other commit", "no row"}
Last2(declared) == declared[Len(declared)]

Runtime == IF pins.runtime \in {"absent", "equal"} THEN {} ELSE {"runtime"}
Tools   == {t \in {"tool", "typescript"} : /\ pins[t] # <<>>
                                          /\ \/ Last2(pins[t]) \in {"unpinned", "lower"}
                                             \/ t = "typescript" /\ Last2(pins[t]) = "next major"}
Actions == IF pins.refs \subseteq {"registered"} THEN {} ELSE {"action"}
UpdateBot == IF bot THEN {} ELSE {"update-bot"}
DriftOf == Runtime \cup Tools \cup Actions \cup UpdateBot

\* classify and report: a row for the repository, or for one of its pins.
Open == IF <<"r", "*">> \in excepted THEN {}
        ELSE {d \in DriftOf : <<"r", d>> \notin excepted}
JudgeVersions ==
  /\ check = "versions" /\ status = "" /\ found' = Open /\ status' = "judged"
  /\ rc' = IF Open # {} THEN 1 ELSE 0
  /\ UNCHANGED given

\* A register that cannot be read judges nothing.
NoRegister ==
  /\ check \in {"seams", "versions"} /\ status = "" /\ rc' = 3 /\ found' = {"unchecked"} /\ status' = "no register"
  /\ UNCHANGED given

-----------------------------------------------------------------------------
Same == [b \in Blocks |-> NoBlock]
Init ==
  /\ check \in {"freshness", "seams", "versions"} /\ status = "" /\ found = {} /\ rc = 0
  /\ IF check = "freshness"
     THEN \/ /\ ours \in {s \in [Blocks -> Block] : \E b \in Blocks : Has(s, b) /\ s[b].prose = "old"}
             /\ theirs \in [Blocks -> Block]
             /\ pinned = {1} /\ ships = {1} /\ declares = Understood /\ arrived = {"schema", "version", "source"}
          \/ /\ ours = [b \in Blocks |-> CHOOSE block \in Block : block.shape = "any"]
             /\ theirs \in {ours, [b \in Blocks |-> CHOOSE block \in Block : block.shape = "object"]}
             /\ pinned \in {{}} \cup {{v} : v \in 1..MaxVersion} /\ ships \in {{}} \cup {{v} : v \in 1..MaxVersion}
             /\ declares \in 0..Understood + 1 /\ arrived \in SUBSET {"schema", "version", "source"}
     ELSE ours = Same /\ theirs = Same /\ pinned = {} /\ ships = {} /\ declares = 0 /\ arrived = {}
  /\ seam \in IF check = "seams" THEN [Seams -> SeamRow] ELSE {[s \in Seams |-> [kind |-> "elsewhere"]]}
  /\ lone \in IF check = "seams" THEN SUBSET Copies ELSE {{}}
  /\ tracked \in IF check = "seams" THEN BOOLEAN ELSE {TRUE}
  /\ IF check = "versions"
     THEN /\ pins \in [runtime : {"absent", "lower", "equal", "higher"},
                       tool : {<<>>} \cup {<<l>> : l \in Levels} \cup {<<"lower", "equal">>, <<"equal", "lower">>},
                       typescript : {<<>>} \cup {<<l>> : l \in Levels}, refs : SUBSET Refs]
          /\ bot \in BOOLEAN
          /\ excepted \in {{}} \cup {{x} : x \in {"r", "other"} \X {"*", "tool", "action"}}
     ELSE pins = [runtime |-> "absent", tool |-> <<>>, typescript |-> <<>>, refs |-> {}] /\ bot = TRUE /\ excepted = {}

Next == Freshness \/ JudgeSeams \/ NoManifest \/ JudgeVersions \/ NoRegister
Spec == Init /\ [][Next]_vars

-----------------------------------------------------------------------------
TypeOK == /\ status \in {"", "fresh", "stale", "unknown", "judged", "crashed", "no register"} /\ rc \in {0, 1, 3}
          /\ ours \in [Blocks -> Block] /\ lone \subseteq Copies /\ tracked \in BOOLEAN /\ bot \in BOOLEAN

Differs(b) == Contract(ours[b]) # Contract(theirs[b])
Drifted(row) == \/ row.kind = "no copy"
                \/ row.kind = "vendor" /\ row.moved /\ row.lag = "beyond"
                \/ row.kind = "contract" /\ row.upstream \in {"changed", "gone"}
Unshown(row) == row.kind \in {"vendor", "contract"} /\ ~row.shows
SeamsAreTrue ==
  /\ check = "seams" /\ status # "" /\ rc = 0 =>
       /\ tracked => lone \subseteq Covered \cup {"under tests"}
       /\ \A s \in Seams : /\ seam[s].kind \notin {"no copy", "no manifest"}
                           /\ seam[s].kind = "vendor" /\ seam[s].moved => seam[s].lag # "beyond"
                           /\ seam[s].kind = "contract" => seam[s].upstream \notin {"changed", "gone"}
  /\ check = "seams" /\ rc = 1 =>
       \/ Unregistered # {}
       \/ \E s \in Seams : Drifted(seam[s]) \/ Unshown(seam[s]) \/ seam[s].kind = "no manifest"
  /\ check = "seams" /\ rc = 3 => found = {"unchecked"}

\* "NOT fresh: a report that says the vendored contract matches upstream when the schema
\* fetch failed is a lie" (freshness.py): fresh only when everything arrived and nothing a
\* reader depends on differs, the prose aside, and stale only when something did.  A
\* green exit of seams and versions leaves no stale copy beyond its lag, no unregistered
\* copy that git listed and no unexcepted pin; seams exits 1 only for a copy that did
\* drift, is gone or has no row, for an origin's file git did not show, or by a traceback.
\* Not claimed, for the code does not: an upstream schema without blocks and versions
\* that cannot be compared pass as no drift, an unchecked seam does not fail the exit,
\* a copy no row names passes when git ls-files fails, and of a tool declared twice the
\* last bound is looked at.
OriginsAreTrue ==
  /\ status = "fresh" =>
       /\ arrived = {"schema", "version", "source"} /\ declares \in 1..Understood
       /\ (\E b \in Blocks : Has(theirs, b)) => \A b \in Blocks : ~Differs(b)
       /\ \A p \in pinned, s \in ships : p >= s
  /\ status = "stale" => \/ "schema" \in arrived /\ \E b \in Blocks : Differs(b)
                         \/ "version" \in arrived /\ pinned # ships
                         \/ "source" \in arrived /\ declares \notin 1..Understood
  /\ status = "unknown" => arrived # {"schema", "version", "source"} /\ rc = 0
  /\ SeamsAreTrue
  /\ check = "versions" /\ status # "" /\ rc = 0 /\ <<"r", "*">> \notin excepted =>
       /\ pins.runtime \in {"absent", "equal"} /\ bot
       /\ pins.refs \subseteq {"registered"} \/ <<"r", "action">> \in excepted
       /\ Len(pins.tool) = 1 /\ pins.tool[1] \in {"lower", "unpinned"} => <<"r", "tool">> \in excepted
  /\ check = "versions" /\ rc = 1 => <<"r", "*">> \notin excepted
=============================================================================
