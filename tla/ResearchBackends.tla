-------------------------- MODULE ResearchBackends --------------------------
(***************************************************************************)
(* What the API process and the worker processes share: the PostgreSQL     *)
(* rows of crud_research.py, the Redis keys of redis_adapter.py and the    *)
(* head commit of the researched repository on GitHub.                     *)
(*                                                                         *)
(* All jobs research one repository: jobs of different repositories share  *)
(* nothing but the worker processes.  A commit stands for everything read  *)
(* from GitHub at that commit, and the AI insights computed from a commit  *)
(* are represented by the commit itself.                                   *)
(***************************************************************************)
EXTENDS Naturals, FiniteSets

CONSTANTS Jobs,      \* job ids (uuid4), one per submission
          Commits,   \* the commits the default branch may point to
          None,      \* Python's None: an absent row, key or value
          Faults     \* the faults and environment moves of this instance

\* raise: a call to a service raises inside a try block of the caller;
\* crash: the process dies, or an exception escapes to asyncio.run;
\* late:  the visibility timeout runs out under a worker that still works;
\* ttl:   Redis drops a key whose expiry has passed;
\* push:  the default branch moves to another commit.
FaultKinds == {"raise", "crash", "late", "ttl", "push"}

ASSUME FaultsAssumption == Faults \subseteq FaultKinds

Statuses == {"pending", "processing", "completed", "failed"}

\* ai_fallback_reason: None, the empty string, or any other text.
Reasons == {"none", "empty", "text"}

\* ResearchJobRecord; error tells whether the column holds a message, and
\* key is the commit in ai_cache_key.
Rows == [status : Statuses, error : BOOLEAN, commit : Commits, key : Commits]

\* FinalResearchReportRecord.
Reports == [commit : Commits, insights : Commits \cup {None},
            fallback : BOOLEAN, reason : Reasons]

\* ResearchJobStateSnapshot; instant tells whether instant_data is present.
Snapshots == [status : Statuses, error : BOOLEAN, fallback : BOOLEAN,
              instant : BOOLEAN]

ASSUME NoneAssumption == None \notin Commits \cup Rows \cup Reports \cup Snapshots

VARIABLES record,    \* research_job_records, by job_id
          report,    \* final_research_report_records, by job_id
          snap,      \* Redis research:job:<job_id>
          aiCache,   \* Redis research:ai:<owner>/<repo>@<commit>
          head       \* commit oid of the default branch on GitHub

backends == <<record, report, snap, aiCache, head>>

BackendsTypeOK ==
  /\ record \in [Jobs -> Rows \cup {None}]
  /\ report \in [Jobs -> Reports \cup {None}]
  /\ snap \in [Jobs -> Snapshots \cup {None}]
  /\ aiCache \in [Commits -> Commits \cup {None}]
  /\ head \in Commits

BackendsInit ==
  /\ record = [j \in Jobs |-> None]
  /\ report = [j \in Jobs |-> None]
  /\ snap = [j \in Jobs |-> None]
  /\ aiCache = [c \in Commits |-> None]
  /\ head \in Commits

-----------------------------------------------------------------------------
(* PostgreSQL: crud_research.py over SQLAlchemy.                           *)

\* SQLAlchemy puts a column in the UPDATE only when the assigned value
\* differs from the value it loaded; another column keeps what is stored.
Column(stored, loaded, wanted) == IF wanted = loaded THEN stored ELSE wanted

FlushRow(stored, loaded, wanted) ==
  [status |-> Column(stored.status, loaded.status, wanted.status),
   error  |-> Column(stored.error, loaded.error, wanted.error),
   commit |-> Column(stored.commit, loaded.commit, wanted.commit),
   key    |-> Column(stored.key, loaded.key, wanted.key)]

FlushReport(stored, loaded, wanted) ==
  [commit   |-> Column(stored.commit, loaded.commit, wanted.commit),
   insights |-> Column(stored.insights, loaded.insights, wanted.insights),
   fallback |-> Column(stored.fallback, loaded.fallback, wanted.fallback),
   reason   |-> Column(stored.reason, loaded.reason, wanted.reason)]

\* create_job_record as submit calls it.
CreateRow(j, c) ==
  record' = [record EXCEPT ![j] =
               [status |-> "pending", error |-> FALSE, commit |-> c, key |-> c]]

\* The second half of update_job_status: assign and commit.  The first half,
\* the SELECT, is the caller's step before it.
UpdateRow(j, loaded, wanted) ==
  record' = [record EXCEPT ![j] = FlushRow(record[j], loaded, wanted)]

\* The unique index on job_id refuses the INSERT of a second report.
InsertRefused(j, loaded) == loaded = None /\ report[j] # None

\* The second half of save_final_report: INSERT when the SELECT found
\* nothing, otherwise assign and commit.
StoreReport(j, loaded, wanted) ==
  /\ ~InsertRefused(j, loaded)
  /\ report' = [report EXCEPT ![j] =
                  IF loaded = None THEN wanted ELSE FlushReport(report[j], loaded, wanted)]

-----------------------------------------------------------------------------
(* Redis: redis_adapter.py.                                                *)

SetState(j, snapshot) == snap' = [snap EXCEPT ![j] = snapshot]

Snapshot(status, instant) ==
  [status |-> status, error |-> status = "failed", fallback |-> FALSE, instant |-> instant]

\* The keys of set_state live for RESEARCH_STATUS_TTL_SECONDS.
ExpireState(j) ==
  /\ "ttl" \in Faults
  /\ snap[j] # None
  /\ SetState(j, None)
  /\ UNCHANGED <<record, report, aiCache, head>>

SetInsights(c, insights) == aiCache' = [aiCache EXCEPT ![c] = insights]

\* The keys of set_cached_ai_result live for RESEARCH_CACHE_TTL_SECONDS.
ExpireInsights(c) ==
  /\ "ttl" \in Faults
  /\ aiCache[c] # None
  /\ SetInsights(c, None)
  /\ UNCHANGED <<record, report, snap, head>>

-----------------------------------------------------------------------------
(* GitHub.                                                                 *)

\* Somebody pushes to the default branch.
Push(c) ==
  /\ "push" \in Faults
  /\ c # head
  /\ head' = c
  /\ UNCHANGED <<record, report, snap, aiCache>>
=============================================================================
