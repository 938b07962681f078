------------------------------- MODULE Descriptor -------------------------------
(***************************************************************************)
(* What the orchestrator reads in a project's config.yaml and what doctor, *)
(* hardening, memory and the contract column say of it: a value may be     *)
(* absent, unreadable, of another type than the contract gives it, or out  *)
(* of bounds.  A path is "" when undeclared, else how it resolves.         *)
(***************************************************************************)
EXTENDS Integers, FiniteSets

CONSTANTS
  ContractVersion,      \* CONTRACT_VERSION of doctor, the floor
  ContractVersionMax    \* CONTRACT_VERSION_MAX, the newest understood

VARIABLES
  topic,     \* which part of the file varies
  yaml,      \* how the file parses
  contract, stack, tier,          \* project_init_contract_version; the memory: block
  memoryPath, vault, graph, rag,  \* memory_path, vault_path, graph_path, rag_endpoint
  scope, context, heal,           \* the marker keys and heal.mode
  observability, deploy, delivery,
  checkout,  \* what doctor and hardening find beside the file
  shown      \* what was printed, no fields before

config == <<yaml, contract, stack, tier, memoryPath, vault, graph, rag, scope, context, heal,
            observability, deploy, delivery>>
given  == <<topic, config, checkout>>
vars   == <<given, shown>>

DescriptorAssumption == /\ ContractVersion \in Nat \ {0} /\ ContractVersionMax \in Nat
                        /\ ContractVersion <= ContractVersionMax

Ladder == [s \in {"auto", "obsidian-only", "obsidian-graphify", "obsidian-graphify-rag"} |->
             CASE s = "auto" -> 0 [] s = "obsidian-only" -> 1
               [] s = "obsidian-graphify" -> 2 [] s = "obsidian-graphify-rag" -> 3]   \* STACK_TIERS

-----------------------------------------------------------------------------
(* descriptor.py; a number is how it was written, and its value *)

Absent    == [is |-> "absent", n |-> 0]
Number(n) == [is |-> "integer", n |-> n]
Broken    == [is : {"word", "bool", "fraction"}, n : {1}]

\* A text that is a number, a list or a mapping, and a block that is no mapping, null
\* included: what asks isinstance reads nothing there, and says nothing.
Mistyped     == "another type"
Text(value)  == IF value = Mistyped THEN "" ELSE value

\* A file that does not parse is an empty one: nothing is declared in it.
Parsed(declared, nothing) == IF yaml = "mapping" THEN declared ELSE nothing

IsIntegral(value) == value.is \notin {"bool", "fraction"}
Malformed(value)  == value.is # "absent" /\ ~(IsIntegral(value) /\ value.is # "word")
AsInt(value)      == IF value.is # "absent" /\ IsIntegral(value) /\ value.is # "word" THEN value.n ELSE 0

Version == AsInt(Parsed(contract, Absent))
IsV2    == Version >= 2
HasMemoryBlock == Parsed(stack, "no block") # "no block"
Declared(value)   == IF HasMemoryBlock /\ stack # Mistyped THEN value ELSE ""
Surface(value)    == Text(Declared(value))

\* Mutant: no block reads as a stack that was forgotten.
AbsenceIsUnknown == IF HasMemoryBlock /\ stack \notin {"", Mistyped} THEN stack ELSE "unknown"
MemoryStack == CASE ~HasMemoryBlock /\ Version >= 1 -> "none"
                 [] ~HasMemoryBlock /\ Version < 1  -> "unknown"
                 [] OTHER -> IF stack \in {"", Mistyped} THEN "unknown" ELSE stack
DeclaredTier == IF HasMemoryBlock /\ stack # Mistyped THEN tier ELSE Absent
MemoryTier   == CASE MemoryStack = "none" -> 0
                  [] MemoryStack \in DOMAIN Ladder -> Ladder[MemoryStack]
                  [] OTHER -> AsInt(DeclaredTier)
TierDisagrees == /\ MemoryStack \in DOMAIN Ladder /\ DeclaredTier.is # "absent"
                 /\ ~Malformed(DeclaredTier) /\ AsInt(DeclaredTier) # MemoryTier

\* _contain; the str() of a value of another type is a name inside the project.
Contained(path) == path \in {"inside", Mistyped}
TierGatedPath(path, minTier) ==
  IF Surface(path) # "" /\ Contained(path) /\ MemoryTier >= minTier THEN path ELSE ""
TierGatedEndpoint == IF Surface(rag) # "" /\ MemoryTier >= 3 THEN rag ELSE ""
MemoryPath == IF Declared(memoryPath) # "" /\ Contained(memoryPath) THEN memoryPath ELSE "default"
ObservabilityPath == IF IsV2 /\ Contained(Text(Parsed(observability, ""))) THEN observability ELSE ""

HealMode == IF Text(Parsed(heal, "")) \in {"fix", "notify"} THEN heal ELSE ""
ReadMarkerKey(declared, allowed) == IF Parsed(declared, "") \in allowed THEN declared ELSE ""
Scope  == ReadMarkerKey(scope, {"project", "user"})
Legacy == ReadMarkerKey(context, {"repo", "ambient"})
Context == CASE Legacy = "ambient" \/ Scope = "user" -> "ambient"
             [] Legacy # "ambient" /\ Scope # "user" /\ (Legacy = "repo" \/ Scope = "project") -> "repo"
             [] OTHER -> ""
MarkerKey == CASE Parsed(scope, "") # "" /\ Parsed(context, "") # "" -> "both"
               [] Parsed(scope, "") # "" /\ Parsed(context, "") = "" -> "scope"
               [] Parsed(scope, "") = "" /\ Parsed(context, "") # "" -> "context"
               [] OTHER -> ""
Deploy == CASE ~IsV2 -> "no block" [] IsV2 /\ Parsed(deploy, "no block") = Mistyped -> "none"
            [] OTHER -> Parsed(deploy, "no block")

\* Mutant: an ignored path of a lower tier leaves no word.
EscapesOnly(path, minTier) == Surface(path) # "" /\ ~Contained(path)
PathWarns(path, minTier) == Surface(path) # "" /\ (~Contained(path) \/ MemoryTier < minTier)
Warnings ==
  {w \in {"yaml", "contract", "tier", "disagrees", "memory_path", "vault_path", "graph_path", "rag_endpoint",
          "scope", "context", "heal", "observability"} :
     CASE w = "yaml"         -> yaml # "mapping"
       [] w = "contract"     -> Malformed(Parsed(contract, Absent))
       [] w = "tier"         -> Malformed(DeclaredTier)
       [] w = "disagrees"    -> TierDisagrees
       [] w = "memory_path"  -> Declared(memoryPath) # "" /\ ~Contained(memoryPath)
       [] w = "vault_path"   -> PathWarns(vault, 1)
       [] w = "graph_path"   -> PathWarns(graph, 2)
       [] w = "rag_endpoint" -> Surface(rag) # "" /\ MemoryTier < 3
       [] w = "scope"        -> Parsed(scope, "") # "" /\ Scope = ""
       [] w = "context"      -> Parsed(context, "") # "" /\ Legacy = ""
       [] w = "heal"         -> Text(Parsed(heal, "")) # "" /\ HealMode = ""
       [] w = "observability" -> IsV2 /\ Text(Parsed(observability, "")) \notin {"", "inside"}}

-----------------------------------------------------------------------------
(* The readers *)

ContractLabel == CASE Malformed(Parsed(contract, Absent)) -> "bad"
                   [] OTHER -> IF Version = 0 THEN "none" ELSE "version"

CheckContract == CASE Version < 0 -> "negative"
                   [] Version >= 0 /\ Version < ContractVersion ->
                        IF Malformed(Parsed(contract, Absent)) THEN "unreadable" ELSE "absent or 0"
                   [] Version > ContractVersionMax -> "newer"
                   [] OTHER -> "ok"
CheckCloud ==
  CASE delivery # "service" \/ Deploy = "cloud-run, complete" -> "ok"
    [] delivery = "service" /\ Deploy # "cloud-run, complete" -> "warn"
CheckDeployWorkflow ==
  IF delivery # "service" \/ Deploy \in {"no block", "none"} \/ "deploy" \in checkout.ships THEN "ok" ELSE "warn"

Warns == \/ checkout.hooks \in {"missing", "partial", "stale"} \/ CheckContract = "newer"
         \/ ~({"manifest", "upgrade", "tooling", "version"} \subseteq checkout.ships)
         \/ MarkerKey = "context" \/ CheckCloud = "warn" \/ CheckDeployWorkflow = "warn"
DoctorStatus == CASE Warnings # {} \/ CheckContract \in {"negative", "unreadable", "absent or 0"} -> "fail"
                  [] OTHER -> IF Warns THEN "warn" ELSE "ok"

MemoryItems == IF MemoryStack = "none" THEN {}
               ELSE IF checkout.memory # "indexed" THEN {"memory"} ELSE {}
Items == MemoryItems \cup (IF checkout.hooks \in {"missing", "partial", "stale"} THEN {"hooks"} ELSE {})
                     \cup (IF checkout.gates THEN {} ELSE {"checks"})

RetrievalMode == CASE MemoryTier >= 3 /\ TierGatedEndpoint # "" -> "rag"
                   [] (MemoryTier < 3 \/ TierGatedEndpoint = "") /\ MemoryTier >= 2
                        /\ TierGatedPath(graph, 2) # "" -> "graph"
                   [] OTHER -> "grep"
\* load_memory and load_memory_sources: what a search reads, each place once.
Notes == (IF checkout.memory = "missing" THEN {} ELSE {"notes"})
         \cup (IF MemoryTier >= 2 /\ TierGatedPath(graph, 2) # "" /\ checkout.graph = "nodes" THEN {"graph"} ELSE {})
Sources == IF checkout.source = "listed" THEN {"source"} ELSE {}

-----------------------------------------------------------------------------
Paths    == {"", "inside", "escapes", "unresolvable", Mistyped}
Stacks   == {"no block", Mistyped, "", "none", "other"} \cup DOMAIN Ladder
Numbers  == {Absent} \cup Broken
Complete == [hooks |-> "ok", ships |-> {"manifest", "upgrade", "tooling", "version", "deploy"},
             memory |-> "indexed", gates |-> TRUE, graph |-> "nodes", source |-> "none"]
Deploys  == {"no block", Mistyped, "none", "cloud-run, no region", "cloud-run, complete", "unsupported"}

Init ==
  /\ topic \in {"memory", "markers", "repository"} /\ shown = [x \in {} |-> ""]
  /\ yaml \in IF topic = "markers" THEN {"mapping", "bad", "empty"} ELSE {"mapping"}
  /\ contract \in IF topic = "markers" THEN Numbers \cup {Number(n) : n \in (-1)..(ContractVersionMax + 1)}
                  ELSE IF topic = "memory" THEN {Absent, Number(1)} ELSE {Number(1), Number(2), Number(3)}
  /\ stack \in IF topic = "memory" THEN Stacks ELSE {"auto"}
  /\ tier \in IF topic = "memory" THEN {Absent, [is |-> "bool", n |-> 1]} \cup {Number(n) : n \in 0..3} ELSE {Absent}
  /\ memoryPath \in IF topic = "memory" THEN {"", "unresolvable", Mistyped} ELSE {""}
  /\ vault \in IF topic = "memory" THEN Paths \ {"unresolvable"} ELSE {""}
  /\ graph \in IF topic = "memory" THEN Paths \ {"unresolvable", "escapes"} ELSE {""}
  /\ rag \in IF topic = "memory" THEN {"", "endpoint", Mistyped} ELSE {""}
  /\ scope \in IF topic = "markers" THEN {"", "project", "user", "other", Mistyped} ELSE {""}
  /\ context \in IF topic = "markers" THEN {"", "repo", "ambient", "other", Mistyped} ELSE {""}
  /\ heal \in IF topic = "markers" THEN {"", "fix", "notify", "other", Mistyped} ELSE {""}
  /\ observability \in IF topic = "markers" THEN Paths ELSE {""}
  /\ deploy \in IF topic = "repository" THEN Deploys ELSE {"no block"}
  /\ delivery \in IF topic = "repository" THEN {"service", "library"} ELSE {"library"}
  /\ checkout \in
       IF topic = "repository"
       THEN [hooks : {"ok", "-", "missing", "stale"}, ships : SUBSET Complete.ships,
             memory : {"missing", "no index", "indexed"}, gates : BOOLEAN, graph : {"nodes"}, source : {"none"}]
       ELSE IF topic = "memory"
       THEN {[Complete EXCEPT !.memory = "missing", !.source = "listed"],
             [Complete EXCEPT !.graph = "unreadable", !.source = "unlistable"],
             [Complete EXCEPT !.source = "a project's own"]}
       ELSE {Complete}

Quiet == shown = [x \in {} |-> ""] /\ UNCHANGED given

\* doctor and the contract column; the fleet it was asked of may be empty.
Doctor ==
  /\ Quiet
  /\ \/ shown' = [rc |-> IF DoctorStatus = "fail" THEN 1 ELSE 0, doctor |-> DoctorStatus,
                  contract |-> CheckContract, label |-> ContractLabel, context |-> Context]
     \/ shown' = [rc |-> 2]

Hardening == Quiet /\ shown' = [rc |-> IF Items # {} THEN 1 ELSE 0, items |-> Items]

\* memory, which names the sources it could not list and notes an endpoint it does not ask.
Memory == /\ Quiet
          /\ shown' = [mode |-> RetrievalMode, read |-> Notes \cup Sources,
                       skipped |-> checkout.source = "unlistable"]

Next == Doctor \/ Hardening \/ Memory
Spec == Init /\ [][Next]_vars

-----------------------------------------------------------------------------
Printed(field) == field \in DOMAIN shown
TypeOK == /\ topic \in {"memory", "markers", "repository"} /\ yaml \in {"mapping", "bad", "empty"}
          /\ stack \in Stacks /\ {vault, graph, memoryPath, observability} \subseteq Paths
          /\ DOMAIN shown \subseteq {"rc", "doctor", "contract", "label", "context", "items", "mode", "read", "skipped"}

Declined == stack \in {"no block", "none"} /\ (stack = "no block" => Version >= 1)
Rung == IF stack \in DOMAIN Ladder THEN Ladder[stack]
        ELSE IF Declined \/ stack = Mistyped THEN 0 ELSE AsInt(tier)
Honoured ==
  /\ yaml = "mapping" /\ contract.is = "integer" /\ contract.n >= ContractVersion
  /\ stack \notin {"no block", Mistyped} =>
       /\ tier.is \in {"absent", "integer"} /\ memoryPath \in {"", MemoryPath}
       /\ vault \in {Mistyped, TierGatedPath(vault, 1)} /\ graph \in {Mistyped, TierGatedPath(graph, 2)}
       /\ rag \in {Mistyped, TierGatedEndpoint}
       /\ stack \in DOMAIN Ladder /\ tier.is = "integer" => tier.n = Ladder[stack]
  /\ scope \in {"", "project", "user"} /\ context \in {"", "repo", "ambient"}
  /\ heal \in {Mistyped, HealMode}
  /\ contract.n >= 2 => observability \in {Mistyped, ObservabilityPath}

\* A project doctor does not fail has nothing in its config.yaml that the fleet ignores,
\* but for a block, path or endpoint of another type than the contract's, dropped in silence;
\* an unreadable version is never taken for an absent one; no surface outside the project
\* or above its stack's tier is read; either marker key opts out and nothing else does;
\* who declined a memory is not asked for one, and who forgot it is (descriptor.py:
\* "absent from present and broken"; hardening.py _memory_items; doctor.py).
ReadingsAreTrue ==
  /\ Printed("doctor") =>
       /\ shown.doctor # "fail" <=> Honoured
       /\ shown.rc = 1 <=> shown.doctor = "fail"
       /\ shown.label = "bad" <=> yaml = "mapping" /\ contract.is \notin {"absent", "integer"}
       /\ shown.label = "bad" <=> shown.contract = "unreadable"
       /\ shown.context = "ambient" <=> yaml = "mapping" /\ (scope = "user" \/ context = "ambient")
  /\ Printed("items") =>
       /\ "memory" \in shown.items <=> ~Declined /\ checkout.memory # "indexed"
       /\ shown.rc = 0 <=> shown.items = {}
  /\ Printed("mode") =>
       /\ shown.mode = "rag" => rag = "endpoint" /\ Rung >= 3
       /\ "graph" \in shown.read => graph = "inside" /\ Rung >= 2 /\ stack \notin {"no block", Mistyped}
       /\ checkout.memory # "missing" => "notes" \in shown.read
       /\ "source" \in shown.read <=> checkout.source = "listed"
=============================================================================
