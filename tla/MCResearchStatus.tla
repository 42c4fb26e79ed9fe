-------------------------- MODULE MCResearchStatus --------------------------
(***************************************************************************)
(* The job system and its status endpoint on small instances.              *)
(***************************************************************************)
EXTENDS ResearchStatus, TLC

CONSTANTS j1, w1, w2, c1, c2

OneJob == {j1}
OneWorker == {w1}
TwoWorkers == {w1, w2}
OneCommit == {c1}
TwoCommits == {c1, c2}

\* Workers are interchangeable.
Symmetry == Permutations(Workers)
=============================================================================
