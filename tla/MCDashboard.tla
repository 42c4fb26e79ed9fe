---------------------------- MODULE MCDashboard -----------------------------
(***************************************************************************)
(* The dashboard on small instances.                                       *)
(***************************************************************************)
EXTENDS Dashboard

CONSTANTS j1, j2

TwoJobs == {j1, j2}
OneBadged == {j1}
=============================================================================
