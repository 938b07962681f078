------------------------------ MODULE HealPassMC ------------------------------
(* A fleet of three for HealPass: two projects an agent may fix, one that only *)
(* wants to be notified.                                                       *)
EXTENDS HealPass

CONSTANTS api, web, legacy, lint

Fleet == <<api, legacy, web>>
Modes == [p \in Projects |-> IF p = legacy THEN "notify" ELSE ""]

Red(ps) == [p \in Projects |-> IF p \in ps THEN Tasks ELSE {}]
\* `legacy` is red; `api` may be red, and HEAD, edits and cache may disagree on it;
\* `web` is red or not.
Starts == {[head  |-> Red({legacy} \cup h \cup w), clone |-> Red({legacy} \cup c \cup w),
            cache |-> Red({legacy} \cup k \cup w)] :
             h, c, k \in {{}, {api}}, w \in {{}, {web}}}
=============================================================================
