------------------------------- MODULE Judgements -------------------------------
(***************************************************************************)
(* What the orchestrator finds, probes, reads and prints of the fleet.     *)
(* The modules share no state, so each is a question to one model:         *)
(* JudgeInit chooses the question, its module runs, and the state of the   *)
(* others stands still.                                                    *)
(***************************************************************************)
EXTENDS Integers, FiniteSets, Sequences

CONSTANTS Questions,
          N, MrCountCap, Interval, MaxClock, Passes, MaxEntries, MaxTurns, MaxMishaps,
          Manifested, Hooks, Versions, Blocks, SchemaFields, Seams, MaxVersion, Understood,
          ContractVersion, ContractVersionMax, Suites, MaxFailed,
          Names, Regions, MaxLive, MeteredRuns, MaxPieces, MaxSize, TailBytes, MaxBytes

VARIABLES
  question,
  disk, plain, next, held, fleet, warned, cut,
  query, source, field, run, open, service, health, reach, ci, prs, cloud, ciExit,
  clock, back, set, timer, since, running, beat, silence, unrecorded,
  gate, tip, build, sup, turns, owns, cache, stamp, history, lock, pass, log, apart,
  column, manifest, expected, clone, own, others, latest, plugin, shipped, checks, where, row,
  check, ours, theirs, pinned, ships, declares, arrived, seam, lone, tracked, pins, bot, excepted,
  status, found, verdict,
  part, yaml, contract, stack, tier, memoryPath, vault, graph, rag, scope, context, heal,
  observability, deploy, delivery, checkout, shown,
  repo, admitted, scanned, listed, asked, rows, testExit,
  scoped, environ, estate, narrow, broken, projects, report, orphans, code,
  logs, unreadable, killed, total

Dsc == INSTANCE Discovery
Prb == INSTANCE Probes WITH verb <- query, rc <- ciExit
Hrt == INSTANCE Heartbeat WITH age <- silence, faults <- unrecorded
Wtc == INSTANCE Watch WITH head <- tip, ci <- build, shifts <- turns, MaxShifts <- MaxTurns
Viw == INSTANCE FleetView WITH Files <- Manifested, topic <- column, tree <- manifest,
                               checkout <- clone, shown <- row
Org == INSTANCE Origins WITH Fields <- SchemaFields, rc <- verdict
Cfg == INSTANCE Descriptor WITH topic <- part
Tst == INSTANCE FleetTests WITH Repos <- Suites, rc <- testExit
Est == INSTANCE Estate WITH rc <- code
Mtr == INSTANCE Meter WITH Runs <- MeteredRuns, lost <- unreadable

ASSUME JudgementsAssumption ==
  /\ Questions \subseteq {"discovery", "probes", "heartbeat", "watch", "view", "origins", "descriptor",
                       "tests", "estate", "meter"}
  /\ N \in Nat \ {0} /\ MrCountCap \in Nat
  /\ Hrt!HeartbeatAssumption /\ Wtc!WatchAssumption /\ Viw!FleetViewAssumption
  /\ Org!OriginsAssumption /\ Cfg!DescriptorAssumption /\ Tst!FleetTestsAssumption
  /\ Est!EstateAssumption /\ Mtr!MeterAssumption

dscVars == <<disk, plain, next, held, fleet, warned, cut>>
prbVars == <<query, source, field, run, open, service, health, reach, ci, prs, cloud, ciExit>>
hrtVars == <<clock, back, set, timer, since, running, beat, silence, unrecorded>>
wtcVars == <<gate, tip, build, sup, turns, owns, cache, stamp, history, lock, pass, log, apart>>
viwVars == <<column, manifest, expected, clone, own, others, latest, plugin, shipped, checks, where, row>>
orgVars == <<check, ours, theirs, pinned, ships, declares, arrived, seam, lone, tracked, pins, bot, excepted,
             status, found, verdict>>
cfgVars == <<part, yaml, contract, stack, tier, memoryPath, vault, graph, rag, scope, context, heal,
             observability, deploy, delivery, checkout, shown>>
tstVars == <<repo, admitted, scanned, listed, asked, rows, testExit>>
estVars == <<scoped, environ, estate, narrow, broken, projects, report, orphans, code>>
mtrVars == <<logs, unreadable, killed, total>>
judgedVars == <<question, dscVars, prbVars, hrtVars, wtcVars, viwVars, orgVars, cfgVars, tstVars, estVars, mtrVars>>

Still == "-"   \* a variable of a question that is not asked
DscStill == disk = Still /\ plain = Still /\ next = Still /\ held = Still /\ fleet = Still /\ warned = Still
            /\ cut = Still
PrbStill == query = Still /\ source = Still /\ field = Still /\ run = Still /\ open = Still /\ service = Still
            /\ health = Still /\ reach = Still /\ ci = Still /\ prs = Still /\ cloud = Still /\ ciExit = Still
HrtStill == clock = Still /\ back = Still /\ set = Still /\ timer = Still /\ since = Still /\ running = Still
            /\ beat = Still /\ silence = Still /\ unrecorded = Still
WtcStill == gate = Still /\ tip = Still /\ build = Still /\ sup = Still /\ turns = Still /\ owns = Still
            /\ cache = Still /\ stamp = Still /\ history = Still /\ lock = Still /\ pass = Still /\ log = Still
            /\ apart = Still
ViwStill == column = Still /\ manifest = Still /\ expected = Still /\ clone = Still /\ own = Still /\ others = Still
            /\ latest = Still /\ plugin = Still /\ shipped = Still /\ checks = Still /\ where = Still
            /\ row = Still
OrgStill == check = Still /\ ours = Still /\ theirs = Still /\ pinned = Still /\ ships = Still
            /\ declares = Still /\ arrived = Still /\ seam = Still /\ lone = Still /\ tracked = Still /\ pins = Still
            /\ bot = Still /\ excepted = Still /\ status = Still /\ found = Still /\ verdict = Still
CfgStill == part = Still /\ yaml = Still /\ contract = Still /\ stack = Still /\ tier = Still
            /\ memoryPath = Still /\ vault = Still /\ graph = Still /\ rag = Still /\ scope = Still
            /\ context = Still /\ heal = Still /\ observability = Still /\ deploy = Still /\ delivery = Still
            /\ checkout = Still /\ shown = Still
TstStill == repo = Still /\ admitted = Still /\ scanned = Still /\ listed = Still /\ asked = Still
            /\ rows = Still /\ testExit = Still
EstStill == scoped = Still /\ environ = Still /\ estate = Still /\ narrow = Still /\ broken = Still
            /\ projects = Still /\ report = Still /\ orphans = Still /\ code = Still
MtrStill == logs = Still /\ unreadable = Still /\ killed = Still /\ total = Still

JudgeInit ==
  /\ question \in Questions
  /\ IF question = "discovery"  THEN Dsc!Init ELSE DscStill
  /\ IF question = "probes"     THEN Prb!Init ELSE PrbStill
  /\ IF question = "heartbeat"  THEN Hrt!Init ELSE HrtStill
  /\ IF question = "watch"      THEN Wtc!Init ELSE WtcStill
  /\ IF question = "view"       THEN Viw!Init ELSE ViwStill
  /\ IF question = "origins"    THEN Org!Init ELSE OrgStill
  /\ IF question = "descriptor" THEN Cfg!Init ELSE CfgStill
  /\ IF question = "tests"      THEN Tst!Init ELSE TstStill
  /\ IF question = "estate"     THEN Est!Init ELSE EstStill
  /\ IF question = "meter"      THEN Mtr!Init ELSE MtrStill

JudgeNext ==
  /\ UNCHANGED question
  /\ IF question = "discovery"  THEN Dsc!Next ELSE UNCHANGED dscVars
  /\ IF question = "probes"     THEN Prb!Next ELSE UNCHANGED prbVars
  /\ IF question = "heartbeat"  THEN Hrt!Next ELSE UNCHANGED hrtVars
  /\ IF question = "watch"      THEN Wtc!Next ELSE UNCHANGED wtcVars
  /\ IF question = "view"       THEN Viw!Next ELSE UNCHANGED viwVars
  /\ IF question = "origins"    THEN Org!Next ELSE UNCHANGED orgVars
  /\ IF question = "descriptor" THEN Cfg!Next ELSE UNCHANGED cfgVars
  /\ IF question = "tests"      THEN Tst!Next ELSE UNCHANGED tstVars
  /\ IF question = "estate"     THEN Est!Next ELSE UNCHANGED estVars
  /\ IF question = "meter"      THEN Mtr!Next ELSE UNCHANGED mtrVars
JudgeSpec == JudgeInit /\ [][JudgeNext]_judgedVars

-----------------------------------------------------------------------------
JudgeTypeOK == CASE question = "discovery" -> Dsc!TypeOK [] question = "probes" -> Prb!TypeOK
            [] question = "heartbeat" -> Hrt!TypeOK [] question = "watch" -> Wtc!TypeOK
            [] question = "view" -> Viw!TypeOK [] question = "origins" -> Org!TypeOK
            [] question = "descriptor" -> Cfg!TypeOK [] question = "tests" -> Tst!TypeOK
            [] question = "estate" -> Est!TypeOK [] question = "meter" -> Mtr!TypeOK

\* Two checkouts of one repository are both in the fleet only when the operator listed one,
\* nothing governed, listed or broken is left out without a word (Discovery, registry.py), and
\* of what runs in the cloud orphans names all that no project governs (Estate, orphans.py).
FleetIsTrue == /\ question = "discovery" => Dsc!OnePerRepository /\ Dsc!NothingDropsSilently
               /\ question = "estate"    => Est!OrphansAreTold
\* A CI or cloud result is the platform's, and unknown only when nobody knows (Probes, adapters/).
ProbesAreTrue == question = "probes" => Prb!ProbesAreTrue
\* A watch that stopped asking is told of, and one that asks is not (Heartbeat, watchdog.py).
SilenceIsTold == question = "heartbeat" => Hrt!SilenceIsTold
\* watch raises what it found failing and nothing else, and concurrent passes lose no entry
\* of the history (Watch, __main__.py _cmd_watch, history.py).
WatchIsTrue == question = "watch" => Wtc!RedIsAlerted /\ Wtc!HistoryIsWhole
\* The tables, filters, alerts and upgrade plan take no unknown for a known (FleetView, fleet.py),
\* and a total of prices no unknown for a zero (Meter, cost.py).
ViewIsTrue == /\ question = "view"  => Viw!ViewIsTrue
              /\ question = "meter" => Mtr!TotalIsHonest
\* The checks against an origin are green only when it is so (Origins, freshness.py, seams.py).
OriginsAreTrue == question = "origins" => Org!OriginsAreTrue
\* Nothing declared in config.yaml is taken for absent, but what is of another type
\* than the contract's (Descriptor, descriptor.py, doctor.py).
ReadingsAreTrue == question = "descriptor" => Cfg!ReadingsAreTrue
\* test-fleet exits 0 only when everybody asked was tested and green (FleetTests, testfleet.py).
RedIsNeverGreen == question = "tests" => Tst!RedIsNeverGreen
=============================================================================
