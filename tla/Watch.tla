---------------------------------- MODULE Watch ----------------------------------
(***************************************************************************)
(* The passes over one project: watch, checks and ci run gates and probes, *)
(* save what they found to the shared cache, append it to the shared       *)
(* history, and watch then reads its alerts back from the cache.  Passes   *)
(* overlap and are killed, a save or a drop fails without a word, a file   *)
(* cannot be read and counts as empty, a lock cannot be had and is done    *)
(* without, and the project changes under them.  Three results stand for   *)
(* all: a gate that may be reused, a remote probe, and the supervised      *)
(* process.  An update of the cache is one step: what becomes of two that  *)
(* overlap is CheckCache's question.                                       *)
(***************************************************************************)
EXTENDS Naturals, Sequences, FiniteSets

CONSTANTS
  Passes,     \* bound: the passes that ever run
  MaxEntries, \* bound: stands for MAX_ENTRIES of the history
  MaxShifts,  \* bound: changes of the project: a commit, its CI, its process
  MaxMishaps  \* bound: operations that fail without a word

VARIABLES
  gate, head, ci, sup, shifts,  \* the project: its gate at each head, its CI, its process
  owns,     \* it declares a process gate of its own
  cache,    \* the cached statuses
  stamp,    \* the head the cached gate result was recorded at
  history,  \* the history log: tasks and statuses
  lock,     \* who holds its lock
  pass,     \* the passes
  log,      \* what was ever recorded
  apart     \* so far no two passes overlapped, none was killed and every save took effect

world == <<gate, head, ci, sup, shifts, owns>>
vars  == <<world, cache, stamp, history, lock, pass, log, apart>>

Tasks    == {"test", "ci", "process"}
Statuses == {"none", "pass", "fail", "unknown"}
Steps == [watch  |-> <<"gates", "ci", "process", "save", "load", "write", "alerts">>,
          checks |-> <<"gates", "save", "load", "write">>,
          ci     |-> <<"ci", "save">>]

Nothing == [t \in Tasks |-> "none"]
\* kind, next step, results, head of the reusable pass, the other passes' writes since its
\* own, history as it loaded it, what failed without a word, exit code
Idle == [kind |-> "idle", pc |-> 0, found |-> Nothing, reusable |-> 0, later |-> {},
         loaded |-> <<>>, mishaps |-> {}, rc |-> 0]

At(p, step) == /\ pass[p].kind \in DOMAIN Steps /\ pass[p].pc \in DOMAIN Steps[pass[p].kind]
               /\ Steps[pass[p].kind][pass[p].pc] = step
Finished(p) == pass[p].kind \in DOMAIN Steps /\ pass[p].pc > Len(Steps[pass[p].kind])
Active(p)   == pass[p].kind \in DOMAIN Steps /\ ~Finished(p)
Advanced(p) == [pass[p] EXCEPT !.pc = @ + 1]

\* What fails and is logged at most: p goes on.
Mishaps == {"drop", "read", "save", "load", "write", "alerts"}
Despite(p, mishap) == [Advanced(p) EXCEPT !.mishaps = @ \cup {mishap}]
MayFail == Cardinality(UNION {{p} \X pass[p].mishaps : p \in Passes}) < MaxMishaps

\* p wrote the tasks of the cache: its own earlier findings stand, the others' do not.
Wrote(p, own, tasks) ==
  [q \in Passes |-> IF q = p THEN [own EXCEPT !.later = @ \ tasks]
                    ELSE IF Active(q) THEN [pass[q] EXCEPT !.later = @ \cup tasks] ELSE pass[q]]

WatchAssumption == /\ IsFiniteSet(Passes) /\ "free" \notin Passes
                   /\ MaxEntries \in Nat \ {0} /\ MaxShifts \in Nat /\ MaxMishaps \in Nat

Init ==
  /\ \E verdict \in {"pass", "fail"} : gate = [h \in 1..MaxShifts + 1 |-> verdict]
  /\ head = 1
  /\ ci = "pass" /\ sup \in {"none", "up"} /\ shifts = 0   \* bound: CI passes at first
  /\ owns \in BOOLEAN /\ (owns => sup = "none")   \* who owns the gate is not asked about
  /\ cache = [Nothing EXCEPT !.process = IF owns THEN "fail" ELSE "none"] /\ stamp = 0
  /\ history = <<>> /\ lock = "free" /\ pass = [p \in Passes |-> Idle] /\ log = <<>>
  /\ apart = TRUE

-----------------------------------------------------------------------------
(* The steps of a pass. *)

\* watch and checks with --changed-only keep the head a cached pass was recorded at.
Begin(p, kind) ==
  /\ pass[p].kind = "idle"
  /\ \E reusable \in {0} \cup IF kind # "ci" /\ cache.test = "pass" THEN {stamp} ELSE {} :
       pass' = [pass EXCEPT ![p] = [Idle EXCEPT !.kind = kind, !.pc = 1, !.reusable = reusable]]
  /\ apart' = (apart /\ \A q \in Passes : ~Active(q))
  /\ UNCHANGED <<world, cache, stamp, history, lock, log>>

\* _project_checks: a reused pass is neither saved nor recorded again.
Gates(p) ==
  /\ At(p, "gates")
  /\ pass' = [pass EXCEPT ![p] = IF pass[p].reusable = head THEN Advanced(p)
                                 ELSE [Advanced(p) EXCEPT !.found.test = gate[head],
                                                          !.reusable = head]]
  /\ UNCHANGED <<world, cache, stamp, history, lock, log, apart>>

ProbeCi(p) ==
  /\ At(p, "ci")
  /\ \E answer \in {ci, "unknown"} : pass' = [pass EXCEPT ![p] = [Advanced(p) EXCEPT !.found.ci = answer]]
  /\ UNCHANGED <<world, cache, stamp, history, lock, log, apart>>

Liveness(p) ==
  /\ At(p, "process")
  /\ \/ owns /\ pass' = [pass EXCEPT ![p] = Advanced(p)] /\ UNCHANGED <<sup, cache>>
     \/ /\ ~owns /\ sup = "up" /\ UNCHANGED <<sup, cache>>
        /\ pass' = [pass EXCEPT ![p] = [Advanced(p) EXCEPT !.found.process = "pass"]]
     \/ /\ ~owns /\ sup = "died" /\ sup' = "none" /\ UNCHANGED cache
        /\ pass' = [pass EXCEPT ![p] = [Advanced(p) EXCEPT !.found.process = "fail"]]
     \/ /\ ~owns /\ sup = "none" /\ UNCHANGED sup   \* drop_result, which may not take effect
        /\ \/ pass' = Wrote(p, Advanced(p), {"process"}) /\ cache' = [cache EXCEPT !.process = "none"]
           \/ MayFail /\ pass' = [pass EXCEPT ![p] = Despite(p, "drop")] /\ UNCHANGED cache
  /\ UNCHANGED <<gate, head, ci, shifts, owns, stamp, history, lock, log, apart>>

Found(p) == {t \in Tasks : pass[p].found[t] # "none"}

\* Mutant: the probes' results are saved only when no gate ran.
FreshOrRemote(p) == IF "test" \in Found(p) THEN {"test"} ELSE Found(p)
Saved(p) == Found(p)

\* save_results: the results it was given replace the ones that are there, or all of a cache
\* it cannot read, or nothing is written and nobody is told.
Save(p) ==
  /\ At(p, "save")
  /\ \/ /\ cache' = [t \in Tasks |-> IF t \in Saved(p) THEN pass[p].found[t] ELSE cache[t]]
        /\ stamp' = IF "test" \in Saved(p) THEN pass[p].reusable ELSE stamp
        /\ pass' = Wrote(p, Advanced(p), Found(p)) /\ UNCHANGED apart
     \/ /\ MayFail /\ cache' = [t \in Tasks |-> IF t \in Saved(p) THEN pass[p].found[t] ELSE "none"]
        /\ stamp' = IF "test" \in Saved(p) THEN pass[p].reusable ELSE 0
        /\ pass' = Wrote(p, Despite(p, "read"), Tasks) /\ apart' = FALSE
     \/ /\ MayFail /\ pass' = [pass EXCEPT ![p] = Despite(p, "save")]
        /\ apart' = FALSE /\ UNCHANGED <<cache, stamp>>
  /\ UNCHANGED <<world, history, lock, log>>

-----------------------------------------------------------------------------
(* history.record, under the lock of the log from its load to its write. *)

\* What is neither pass nor fail is not recorded.
Entry(p, t) == IF pass[p].found[t] \in {"pass", "fail"} THEN <<[task |-> t, status |-> pass[p].found[t]]>>
               ELSE <<>>
Recorded(p) == Entry(p, "test") \o Entry(p, "ci") \o Entry(p, "process")
Kept(entries) == SubSeq(entries, IF Len(entries) > MaxEntries THEN Len(entries) - MaxEntries + 1 ELSE 1,
                        Len(entries))

\* Mutant: the lock is taken for the write alone.
LockForWrite(p) == lock' = lock
TakeLock(p) == lock = "free" /\ lock' = p

\* Without a lock it cannot have persist.locked goes on, and a log that cannot be read is empty.
Load(p) ==
  /\ At(p, "load") /\ Recorded(p) # <<>>
  /\ \/ TakeLock(p) /\ pass' = [pass EXCEPT ![p] = [Advanced(p) EXCEPT !.loaded = history]]
     \/ /\ MayFail
        /\ \/ UNCHANGED lock /\ pass' = [pass EXCEPT ![p] = [Despite(p, "load") EXCEPT !.loaded = history]]
           \/ TakeLock(p) /\ pass' = [pass EXCEPT ![p] = Despite(p, "load")]
  /\ UNCHANGED <<world, cache, stamp, history, log, apart>>

RecordNothing(p) ==
  /\ At(p, "load") /\ Recorded(p) = <<>>
  /\ pass' = [pass EXCEPT ![p] = [pass[p] EXCEPT !.pc = @ + 2]]
  /\ UNCHANGED <<world, cache, stamp, history, lock, log, apart>>

Record(p) ==
  /\ At(p, "write")
  /\ \/ /\ history' = Kept(pass[p].loaded \o Recorded(p)) /\ log' = log \o Recorded(p)
        /\ pass' = [pass EXCEPT ![p] = Advanced(p)] /\ UNCHANGED apart
     \/ /\ MayFail /\ UNCHANGED <<history, log>>   \* the log cannot be written
        /\ pass' = [pass EXCEPT ![p] = Despite(p, "write")] /\ apart' = FALSE
  /\ lock' = IF lock = p THEN "free" ELSE lock
  /\ UNCHANGED <<world, cache, stamp>>

\* fleet_alerts over a fresh snapshot of the cache, which is the exit code; one that cannot be
\* read is empty.
Failing(results) == \E t \in Tasks : results[t] = "fail"
Alerts(p) ==
  /\ At(p, "alerts")
  /\ \/ pass' = [pass EXCEPT ![p] = [Advanced(p) EXCEPT !.rc = IF Failing(cache) THEN 1 ELSE 0]]
     \/ MayFail /\ pass' = [pass EXCEPT ![p] = [Despite(p, "alerts") EXCEPT !.rc = 0]]
  /\ UNCHANGED <<world, cache, stamp, history, lock, log, apart>>

Killed(p) ==
  /\ Active(p)
  /\ pass' = [pass EXCEPT ![p] = [Idle EXCEPT !.kind = "killed", !.mishaps = pass[p].mishaps]]
  /\ apart' = FALSE
  /\ lock' = IF lock = p THEN "free" ELSE lock
  /\ UNCHANGED <<world, cache, stamp, history, log>>

-----------------------------------------------------------------------------
(* The project changes. *)

\* A death waits, record or tombstone, for the next liveness check (Supervisor).
Shift ==
  /\ shifts < MaxShifts /\ shifts' = shifts + 1
  /\ \/ /\ head' = head + 1 /\ UNCHANGED <<ci, sup>>   \* a commit
        /\ \E verdict \in {"pass", "fail"} : gate' = [gate EXCEPT ![head'] = verdict]
     \/ ci' \in {"pass", "fail"} \ {ci} /\ UNCHANGED <<gate, head, sup>>
     \/ ~owns /\ sup' \in (IF sup = "up" THEN {"died", "none"} ELSE {"up"}) /\ UNCHANGED <<gate, head, ci>>
  /\ UNCHANGED <<owns, cache, stamp, history, lock, pass, log, apart>>

Next ==
  \/ \E p \in Passes : \/ \E kind \in DOMAIN Steps : Begin(p, kind)
                       \/ Gates(p) \/ ProbeCi(p) \/ Liveness(p) \/ Save(p)
                       \/ Load(p) \/ RecordNothing(p) \/ Record(p) \/ Alerts(p) \/ Killed(p)
  \/ Shift
Spec == Init /\ [][Next]_vars

-----------------------------------------------------------------------------
TypeOK ==
  /\ head \in 1..MaxShifts + 1 /\ shifts \in 0..MaxShifts /\ stamp \in 0..MaxShifts + 1
  /\ sup \in {"none", "up", "died"} /\ cache \in [Tasks -> Statuses] /\ lock \in {"free"} \cup Passes
  /\ Len(history) <= MaxEntries

\* watch "exits 1 when the pass was eventful": a pass whose save took effect and that could
\* read the cache back raises what it found failing, the death it alone was told of included;
\* and one whose save and drop took effect raises nothing else, unless another pass wrote in
\* between or the project has a process gate of its own.
RedIsAlerted ==
  \A p \in Passes : Finished(p) /\ pass[p].kind = "watch" =>
    /\ {"save", "alerts"} \cap pass[p].mishaps = {} =>
         \A t \in Tasks \ pass[p].later : pass[p].found[t] = "fail" => pass[p].rc = 1
    /\ pass[p].rc = 1 => \/ owns \/ pass[p].later # {} \/ Failing(pass[p].found)
                         \/ {"drop", "save"} \cap pass[p].mishaps # {}

\* "Two concurrent checks or watch runs both loaded the same snapshot ... and the second
\* replacement discarded the first run's entries" (history.py): while each has its lock and
\* can read the log, the history is the last MAX_ENTRIES of all that was recorded; and where
\* passes kept apart, the trend's last outcome is the cached one.
IsLastOutcome(entries, i) == /\ entries[i].task = "test"
                             /\ \A j \in DOMAIN entries : j > i => entries[j].task # "test"
HistoryIsWhole ==
  (\A p \in Passes : "load" \notin pass[p].mishaps) =>
    /\ history = Kept(log)
    /\ apart /\ (\A p \in Passes : ~Active(p)) =>
         \A i \in DOMAIN history : IsLastOutcome(history, i) => history[i].status = cache.test
=============================================================================
