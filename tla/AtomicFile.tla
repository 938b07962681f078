------------------------------ MODULE AtomicFile ------------------------------
(***************************************************************************)
(* What persist.py promises its callers: a file that read-modify-writes    *)
(* change one at a time, each applied to what the previous one left, and   *)
(* that a power loss leaves at a version not older than the last durable   *)
(* one.                                                                    *)
(***************************************************************************)
CONSTANTS Contents,     \* what the file may hold
          Start,        \* what it holds at first
          Updates,      \* what callers may do to it
          Apply(_, _)   \* Apply(u, c): what update u makes of c

VARIABLES file,         \* what a reader finds
          versions      \* what a power loss may leave

vars == <<file, versions>>

Init == file = Start /\ versions = {Start}

Update(u) == file' = Apply(u, file) /\ versions' = versions \cup {file'}
Sync      == versions' = {file} /\ UNCHANGED file
PowerLoss == file' \in versions /\ versions' = {file'}

Next == Sync \/ PowerLoss \/ \E u \in Updates : Update(u)

Spec == Init /\ [][Next]_vars
=============================================================================
