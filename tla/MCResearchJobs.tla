--------------------------- MODULE MCResearchJobs ---------------------------
(***************************************************************************)
(* The job system on small instances.                                      *)
(***************************************************************************)
EXTENDS ResearchJobs, TLC

CONSTANTS j1, j2, w1, w2, c1, c2

OneJob == {j1}
TwoJobs == {j1, j2}
OneWorker == {w1}
TwoWorkers == {w1, w2}
OneCommit == {c1}
TwoCommits == {c1, c2}

\* Workers are interchangeable, and so are commits and jobs.
Symmetry == Permutations(Workers) \cup Permutations(Commits) \cup Permutations(Jobs)
=============================================================================
