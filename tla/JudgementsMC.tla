----------------------------- MODULE JudgementsMC -----------------------------
EXTENDS Judgements, TLC

\* What the passes, suites and runs are called makes no difference.
Symmetry == Permutations(Passes) \cup Permutations(Suites) \cup Permutations(MeteredRuns)
=============================================================================
