-------------------------------- MODULE Digest --------------------------------
(***************************************************************************)
(* The audit digest: __main__._cmd_audit --digest and _emit_digest over    *)
(* digest.py and notify.post_payload.  Audits by the timer and by people   *)
(* run at once, each over the projects discovery found or the one asked    *)
(* for; reads, writes and posts fail, and an audit is killed between any   *)
(* two steps.  The baseline file is one value: its write is persist's.     *)
(***************************************************************************)
EXTENDS Naturals, FiniteSets

CONSTANTS
  Audits,      \* invocations of audit --digest
  Findings,    \* the findings there can be
  Projects, ProjectOf,  \* the projects, and the one a finding is about
  MaxShifts    \* bound: findings that appear or go

DigestAssumption == ProjectOf \in [Findings -> Projects] /\ MaxShifts \in Nat

VARIABLES
  issues,   \* the findings an audit would see now
  baseline, \* those the state file holds
  audit,    \* the state of each audit
  told,     \* the findings ever reported as new
  lost,     \* those whose report died with its audit
  shifts

vars == <<issues, baseline, audit, told, lost, shifts>>

Fresh == [at |-> "idle", selected |-> {}, current |-> {}, new |-> {}, resolved |-> {}, rc |-> 0]

TypeOK ==
  /\ {issues, baseline, told, lost} \subseteq SUBSET Findings /\ shifts \in 0..MaxShifts
  /\ \A a \in Audits :
       /\ audit[a].at \in {"idle", "collect", "compute", "save", "emit", "done", "killed"}
       /\ audit[a].selected \subseteq Projects /\ audit[a].rc \in 0..2
       /\ {audit[a].current, audit[a].new, audit[a].resolved} \subseteq SUBSET Findings

Init == /\ issues = {} /\ baseline = {} /\ audit = [a \in Audits |-> Fresh]
        /\ told = {} /\ lost = {} /\ shifts = 0

Of(finds, projects) == {f \in finds : ProjectOf[f] \in projects}

Unresolved(fleet) == fleet = {}

\* Discovery finds every project or, when its root is missing, none; --project narrows it.
\* An unresolved fleet returns before the digest is computed.
Begin(a) ==
  /\ audit[a].at = "idle"
  /\ \E fleet \in {Projects, {}} : \E narrowed \in {fleet} \cup {{p} : p \in fleet} :
       audit' = IF Unresolved(fleet)
                THEN [audit EXCEPT ![a].at = "done", ![a].rc = 2]
                ELSE [audit EXCEPT ![a].at = "collect", ![a].selected = narrowed]
  /\ UNCHANGED <<issues, baseline, told, lost, shifts>>

\* audit_project of each selected project, and _issues of the reports.
Collect(a) ==
  /\ audit[a].at = "collect"
  /\ audit' = [audit EXCEPT ![a].at = "compute", ![a].current = Of(issues, audit[a].selected)]
  /\ UNCHANGED <<issues, baseline, told, lost, shifts>>

\* Mutant: what this audit saw is already the baseline.
LoadAfterSave(a) == {baseline \cup audit[a].current}

\* load_prior: a file that cannot be read is no prior run.
LoadPrior(a) == {baseline, {}}

ComputeDigest(a) ==
  /\ audit[a].at = "compute"
  /\ \E prior \in LoadPrior(a) :
       audit' = [audit EXCEPT ![a].at = "save", ![a].new = audit[a].current \ prior,
                              ![a].resolved = prior \ audit[a].current]
  /\ UNCHANGED <<issues, baseline, told, lost, shifts>>

\* save_current; a write that fails is only logged.
SaveCurrent(a) ==
  /\ audit[a].at = "save"
  /\ baseline' \in {audit[a].current, baseline}
  /\ audit' = [audit EXCEPT ![a].at = "emit"]
  /\ UNCHANGED <<issues, told, lost, shifts>>

\* The post, which may fail, then the printed digest and its exit code.
Emit(a) ==
  /\ audit[a].at = "emit"
  /\ told' = told \cup audit[a].new
  /\ audit' = [audit EXCEPT ![a].at = "done", ![a].rc = IF audit[a].new # {} THEN 1 ELSE 0]
  /\ UNCHANGED <<issues, baseline, lost, shifts>>

Again(a) == /\ audit[a].at \in {"done", "killed"} /\ audit' = [audit EXCEPT ![a] = Fresh]
            /\ UNCHANGED <<issues, baseline, told, lost, shifts>>

Killed(a) == /\ audit[a].at \in {"collect", "compute", "save", "emit"}
             /\ audit' = [audit EXCEPT ![a].at = "killed"]
             /\ lost' = IF audit[a].at = "emit" THEN lost \cup audit[a].new ELSE lost
             /\ UNCHANGED <<issues, baseline, told, shifts>>

Shift == /\ shifts < MaxShifts /\ shifts' = shifts + 1
         /\ \E f \in Findings : issues' = IF f \in issues THEN issues \ {f} ELSE issues \cup {f}
         /\ UNCHANGED <<baseline, audit, told, lost>>

Next == Shift \/ \E a \in Audits : Begin(a) \/ Collect(a) \/ ComputeDigest(a) \/ SaveCurrent(a)
                                   \/ Emit(a) \/ Again(a) \/ Killed(a)
Spec == Init /\ [][Next]_vars

-----------------------------------------------------------------------------
\* "A transient discovery failure would corrupt every later delta", and the baseline is
\* saved before it is reported: however audits overlap, fail and die, the baseline changes
\* only by an audit that had projects to audit, and a finding in it was reported as new,
\* is about to be by a running audit, or died with one killed between the two.
DigestsAreTrue ==
  [][/\ baseline' # baseline => \E a \in Audits : audit[a].at = "save" /\ audit[a].selected # {}
     /\ baseline' \subseteq told' \cup lost' \cup
                            UNION {audit'[a].new : a \in {b \in Audits : audit'[b].at = "emit"}}]_vars
=============================================================================
