------------------------------ MODULE OperationsMC ------------------------------
EXTENDS Operations

\* Two projects with a finding each; one file of two executable.
TheProject == [f \in Findings |-> IF f = "f1" THEN "p" ELSE "q"]
TheMode    == [f \in Files |-> f = "kept"]
\* Commit 1 is the old tree, 2 drops a file and keeps the version, 3 is a branch that
\* changes the file and the version.
TheTrees   == [c \in Commits |-> [f \in Files \cup {Pyproject} |->
                CASE c = 1 \/ f = "kept" -> "old"
                  [] c = 2 /\ f = "dropped" -> "absent"
                  [] c = 2 /\ f = Pyproject -> "old"
                  [] c = 3 /\ f # "kept" -> "new"]]
=============================================================================
