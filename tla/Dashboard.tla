----------------------------- MODULE Dashboard ------------------------------
(***************************************************************************)
(* The script of templates/research.html: one browser page that submits    *)
(* repositories, polls the status endpoint and shows what it answers.      *)
(*                                                                         *)
(* Every callback (submit, click, timer, answer of a fetch) is an action.  *)
(* A callback runs to its next await; what it does afterwards is another   *)
(* action, which works on whatever the global variables hold by then.      *)
(*                                                                         *)
(* Time is modelled by the order of timers alone: a timer fires after the  *)
(* timers that were pending when it was set and are not longer than it.    *)
(* Fetches and the user may take any time.                                 *)
(***************************************************************************)
EXTENDS Naturals, FiniteSets, Functions

CONSTANTS Jobs,       \* the job ids the server hands out, one per submission
          Badged,     \* those of repositories that have what a badge shows
          None,       \* null
          FaultSets,  \* the kinds of fault that occur together
          MaxTimers   \* bound on the timers pending at once

\* error:   the server answers a GET or a POST with a problem;
\* network: a fetch throws;
\* slow:    a fetch may still be in flight when the user starts over or the
\*          deadline passes.
FaultKinds == {"error", "network", "slow"}

ASSUME BadgedAssumption == Badged \subseteq Jobs
ASSUME FaultsAssumption == FaultSets \subseteq SUBSET FaultKinds
ASSUME MaxTimersAssumption == MaxTimers \in Nat
ASSUME NoneAssumption == None \notin Jobs \cup Nat

Views == {"search", "loading", "results"}

\* The body of a status answer; insights tells whether report.ai_insights is
\* there.  instant_data comes with every answer but failed.
Answers == [job : Jobs, status : {"working", "completed", "failed"}, insights : BOOLEAN]

\* Milliseconds, with RESEARCH_POLL_INTERVAL_SECONDS = 2.  pause is the timer
\* of scheduleReturnToSearch.
Duration == [render |-> 800, poll |-> 2000, pause |-> 4000, static |-> 5000,
             deadline |-> 120000]

Handles == 1..MaxTimers

\* after: the pending timers that are due earlier.
Timers == [id : Handles, kind : DOMAIN Duration, answer : Answers \cup {None},
           after : SUBSET Handles]

VARIABLES
  faults,      \* what may go wrong in this behaviour
  server,      \* job_id -> none, working, completed, fallback, failed
  posting,     \* POSTs in flight
  getting,     \* job_id -> GETs in flight
  timers,      \* the timers that have neither fired nor been cleared
  currentJobId, pollTimer, pollDeadline, staticTimer, staticShown,
  latestPollData,
  views,       \* the sections without the class hidden
  page         \* what the elements of the results section hold

vars == <<faults, server, posting, getting, timers, currentJobId, pollTimer,
          pollDeadline, staticTimer, staticShown, latestPollData, views, page>>

\* meta: whose name, stars and forks the header shows; badge: whose data stand in
\* a badge (license, topics, languages, the commit chart, ...: each is made
\* visible on its own, and one stands for all); insights: whose AI sections are
\* visible; summary: the text of ai-summary; banner: whether
\* bg-processing-banner is visible; markdown: what the copy button copies.
Pages == [meta : Jobs \cup {None}, badge : Jobs \cup {None}, insights : Jobs \cup {None},
          summary : {"blank", "analysing", "insights", "unavailable", "failed"},
          banner : BOOLEAN, markdown : Jobs \cup {None}]

TypeOK ==
  /\ faults \in FaultSets
  /\ server \in [Jobs -> {"none", "working", "completed", "fallback", "failed"}]
  /\ posting \in Nat
  /\ getting \in [Jobs -> Nat]
  /\ timers \subseteq Timers /\ \A t, u \in timers : t.id = u.id => t = u
  /\ currentJobId \in Jobs \cup {None}
  /\ {pollTimer, pollDeadline, staticTimer} \subseteq Handles \cup {None}
  /\ staticShown \in BOOLEAN
  /\ latestPollData \in Answers \cup {None}
  /\ views \subseteq Views
  /\ page \in Pages

Init ==
  /\ faults \in FaultSets
  /\ server = [j \in Jobs |-> "none"]
  /\ posting = 0
  /\ getting = [j \in Jobs |-> 0]
  /\ timers = {}
  /\ currentJobId = None
  /\ pollTimer = None /\ pollDeadline = None /\ staticTimer = None
  /\ staticShown = FALSE
  /\ latestPollData = None
  /\ views = {"search"}
  /\ page = [meta |-> None, badge |-> None, insights |-> None, summary |-> "blank",
             banner |-> FALSE, markdown |-> None]

-----------------------------------------------------------------------------
(* setTimeout and clearTimeout.                                            *)

\* A handle is not reused while a variable still holds it.
FreeHandles == Handles \ ({t.id : t \in timers} \cup {pollTimer, pollDeadline, staticTimer})

\* setTimeout returns a handle of its own choice; taken are the handles that
\* it returned in the same callback.
Available(taken) == FreeHandles \ taken # {}

Fresh(taken) == CHOOSE id \in FreeHandles \ taken : TRUE

\* The timers set without those that fired or were cleared.
Without(handles) ==
  {[t EXCEPT !.after = @ \ handles] : t \in {u \in timers : u.id \notin handles}}

\* The timers set with one more.
Started(set, id, kind, answer) ==
  set \cup {[id |-> id, kind |-> kind, answer |-> answer,
             after |-> {t.id : t \in {u \in set : Duration[u.kind] <= Duration[kind]}}]}

Fires(t, kind) == t \in timers /\ t.kind = kind /\ t.after = {}

Pending(kind) == {t \in timers : t.kind = kind}

PollInFlight == \E j \in Jobs : getting[j] > 0

\* Unless the network is slow, a fetch is answered before the user or the
\* deadline does anything.
Prompt == "slow" \in faults \/ (~PollInFlight /\ posting = 0)

-----------------------------------------------------------------------------
(* renderResults, renderStaticData and updateAiInsights.                   *)

Summary(answer) == IF answer.insights THEN "insights" ELSE "unavailable"

\* Badges and sections of AI data are set and made visible when the answer has
\* what they show, and never cleared or hidden again.
Rendered(answer) ==
  [page EXCEPT !.meta = answer.job,
               !.badge = IF answer.job \in Badged THEN answer.job ELSE @,
               !.insights = IF answer.insights THEN answer.job ELSE @,
               !.summary = Summary(answer),
               !.markdown = IF answer.status = "completed" THEN answer.job ELSE @]

RenderedStatic(answer) ==
  [Rendered(answer) EXCEPT !.summary = "analysing", !.banner = TRUE]

Patched(answer) ==
  [page EXCEPT !.banner = FALSE,
               !.insights = IF answer.insights THEN answer.job ELSE @,
               !.summary = Summary(answer),
               !.markdown = IF answer.status = "completed" THEN answer.job ELSE @]

\* Mutant: the state of the copy button is left out of the reset.
MarkdownKept ==
  page

\* markdownText = ''
MarkdownCleared ==
  [page EXCEPT !.markdown = None]

ShowResults == views' = (views \ {"loading"}) \cup {"results"}

-----------------------------------------------------------------------------
(* The user.                                                               *)

\* Mutant: a reset that forgets the poll timer.
ResetKeepsPoll ==
  /\ pollDeadline' = None /\ staticTimer' = None
  /\ currentJobId' = None
  /\ staticShown' = FALSE
  /\ latestPollData' = None
  /\ timers' = Without({pollDeadline, staticTimer})
  /\ UNCHANGED pollTimer

Reset ==
  /\ pollTimer' = None /\ pollDeadline' = None /\ staticTimer' = None
  /\ currentJobId' = None
  /\ staticShown' = FALSE
  /\ latestPollData' = None
  /\ timers' = Without({pollTimer, pollDeadline, staticTimer})

\* startAnalysis up to the POST, for a valid URL.
Submit ==
  /\ "search" \in views
  /\ Prompt
  /\ posting + Cardinality({j \in Jobs : server[j] # "none"}) < Cardinality(Jobs)
  /\ Reset
  /\ page' = MarkdownCleared
  /\ views' = {"loading"}
  /\ posting' = posting + 1
  /\ UNCHANGED <<faults, server, getting>>

\* Mutant: the search is shown and the results are not hidden.
NewAnalysisBelow ==
  /\ "results" \in views
  /\ Prompt
  /\ Reset
  /\ page' = [MarkdownCleared EXCEPT !.banner = FALSE]
  /\ views' = views \cup {"search"}
  /\ UNCHANGED <<faults, server, posting, getting>>

\* The button of the results section.
NewAnalysis ==
  /\ "results" \in views
  /\ Prompt
  /\ Reset
  /\ page' = [MarkdownCleared EXCEPT !.banner = FALSE]
  /\ views' = (views \ {"results"}) \cup {"search"}
  /\ UNCHANGED <<faults, server, posting, getting>>

-----------------------------------------------------------------------------
(* The answer to the POST.                                                 *)

\* 202: the deadline, the static timer and the first poll are set.
PostAccepted(j) ==
  LET poll == Fresh({})
      static == Fresh({poll})
      deadline == Fresh({poll, static})
  IN
  /\ posting > 0
  /\ server[j] = "none"
  /\ posting' = posting - 1
  /\ server' = [server EXCEPT ![j] = "working"]
  /\ currentJobId' = j
  /\ staticShown' = FALSE
  /\ latestPollData' = None
  /\ Available({poll, static})
  /\ pollTimer' = poll /\ staticTimer' = static /\ pollDeadline' = deadline
  /\ timers' = Started(Started(Started(timers, poll, "poll", None),
                               static, "static", None),
                       deadline, "deadline", None)
  /\ UNCHANGED <<faults, getting, views, page>>

\* scheduleReturnToSearch, after the timers in gone have fired or been cleared.
ReturnToSearch(gone) ==
  Available({}) /\ timers' = Started(Without(gone), Fresh({}), "pause", None)

PostRefused ==
  /\ {"error", "network"} \cap faults # {}
  /\ posting > 0
  /\ posting' = posting - 1
  /\ ReturnToSearch({})
  /\ UNCHANGED <<faults, server, getting, currentJobId, pollTimer, pollDeadline, staticTimer,
                 staticShown, latestPollData, views, page>>

-----------------------------------------------------------------------------
(* doPoll.                                                                 *)

\* Mutant: the poll is set with setInterval.
PollRepeats(t) ==
  /\ Fires(t, "poll")
  /\ getting' = IF currentJobId = None THEN getting
                ELSE [getting EXCEPT ![currentJobId] = @ + 1]
  /\ UNCHANGED <<faults, server, posting, timers, currentJobId, pollTimer, pollDeadline,
                 staticTimer, staticShown, latestPollData, views, page>>

PollFires(t) ==
  /\ Fires(t, "poll")
  /\ timers' = Without({t.id})
  /\ getting' = IF currentJobId = None THEN getting
                ELSE [getting EXCEPT ![currentJobId] = @ + 1]
  /\ UNCHANGED <<faults, server, posting, currentJobId, pollTimer, pollDeadline, staticTimer,
                 staticShown, latestPollData, views, page>>

Answered(j) ==
  getting[j] > 0 /\ getting' = [getting EXCEPT ![j] = @ - 1]

SchedulePoll ==
  /\ Available({})
  /\ pollTimer' = Fresh({})
  /\ timers' = Started(timers, Fresh({}), "poll", None)

\* pending or processing.
PollWorking(j) ==
  /\ server[j] \in {"working", "completed", "fallback", "failed"}
  /\ Answered(j)
  /\ latestPollData' = [job |-> j, status |-> "working", insights |-> FALSE]
  /\ SchedulePoll
  /\ UNCHANGED <<faults, server, posting, currentJobId, pollDeadline, staticTimer, staticShown,
                 views, page>>

\* Mutant: a completed job does not stop the deadline.
PollCompletedKeepsDeadline(j) ==
  LET answer == [job |-> j, status |-> "completed", insights |-> server[j] = "completed"]
  IN
  /\ server[j] \in {"completed", "fallback"}
  /\ Answered(j)
  /\ Available({})
  /\ latestPollData' = answer
  /\ staticTimer' = None
  /\ page' = IF staticShown THEN Patched(answer) ELSE page
  /\ timers' = IF staticShown THEN Without({staticTimer})
               ELSE Started(Without({staticTimer}), Fresh({}), "render", answer)
  /\ UNCHANGED <<faults, server, posting, currentJobId, pollTimer, pollDeadline, staticShown,
                 views>>

\* completed: clear the deadline and the static timer, and patch or render.
PollCompleted(j) ==
  LET answer == [job |-> j, status |-> "completed", insights |-> server[j] = "completed"]
      rest == Without({pollDeadline, staticTimer})
  IN
  /\ server[j] \in {"completed", "fallback"}
  /\ Answered(j)
  /\ latestPollData' = answer
  /\ pollDeadline' = None /\ staticTimer' = None
  /\ \/ /\ staticShown
        /\ page' = Patched(answer)
        /\ timers' = rest
     \/ /\ ~staticShown
        /\ Available({})
        /\ timers' = Started(rest, Fresh({}), "render", answer)
        /\ UNCHANGED page
  /\ UNCHANGED <<faults, server, posting, currentJobId, pollTimer, staticShown, views>>

\* Mutant: a failed job stops the timers and leaves the user at the terminal.
PollFailedQuietly(j) ==
  /\ server[j] = "failed"
  /\ Answered(j)
  /\ latestPollData' = [job |-> j, status |-> "failed", insights |-> FALSE]
  /\ pollDeadline' = None /\ staticTimer' = None
  /\ timers' = Without({pollDeadline, staticTimer})
  /\ UNCHANGED <<faults, server, posting, currentJobId, pollTimer, staticShown, views, page>>

\* failed: clear both as well, and tell the user in place or return.
PollFailed(j) ==
  /\ server[j] = "failed"
  /\ Answered(j)
  /\ latestPollData' = [job |-> j, status |-> "failed", insights |-> FALSE]
  /\ pollDeadline' = None /\ staticTimer' = None
  /\ \/ /\ staticShown
        /\ page' = [page EXCEPT !.banner = FALSE, !.summary = "failed"]
        /\ timers' = Without({pollDeadline, staticTimer})
     \/ /\ ~staticShown
        /\ ReturnToSearch({pollDeadline, staticTimer})
        /\ UNCHANGED page
  /\ UNCHANGED <<faults, server, posting, currentJobId, pollTimer, staticShown, views>>

\* A problem: return to the search, with the other timers left running.  The
\* static timer of the job has run for the 2 s before its first poll, and is
\* due before the 3.5 s of the return.
PollRefused(j) ==
  /\ "error" \in faults
  /\ Answered(j)
  /\ Available({})
  /\ timers' = {IF t.id = Fresh({}) /\ j = currentJobId
                THEN [t EXCEPT !.after = @ \cup {u.id : u \in Pending("static")}] ELSE t :
                t \in Started(timers, Fresh({}), "pause", None)}
  /\ UNCHANGED <<faults, server, posting, currentJobId, pollTimer, pollDeadline, staticTimer,
                 staticShown, latestPollData, views, page>>

PollThrows(j) ==
  /\ "network" \in faults
  /\ Answered(j)
  /\ SchedulePoll
  /\ UNCHANGED <<faults, server, posting, currentJobId, pollDeadline, staticTimer, staticShown,
                 latestPollData, views, page>>

-----------------------------------------------------------------------------
(* The other timers.                                                       *)

\* Mutant: the deadline leaves the poll timer running.
DeadlineKeepsPoll(t) ==
  /\ Fires(t, "deadline")
  /\ Prompt
  /\ staticTimer' = None
  /\ IF staticShown THEN timers' = Without({t.id, staticTimer})
     ELSE ReturnToSearch({t.id, staticTimer})
  /\ UNCHANGED <<faults, server, posting, getting, currentJobId, pollTimer, pollDeadline,
                 staticShown, latestPollData, views, page>>

\* The 2 minutes are over.
DeadlineFires(t) ==
  /\ Fires(t, "deadline")
  /\ Prompt
  /\ pollTimer' = None /\ staticTimer' = None
  /\ IF staticShown THEN timers' = Without({t.id, pollTimer, staticTimer})
     ELSE ReturnToSearch({t.id, pollTimer, staticTimer})
  /\ UNCHANGED <<faults, server, posting, getting, currentJobId, pollDeadline, staticShown,
                 latestPollData, views, page>>

HasInstantData(answer) == answer # None /\ answer.status # "failed"

\* onStaticTimeout: 5 s after the job was accepted.
StaticFires(t) ==
  /\ Fires(t, "static")
  /\ timers' = Without({t.id})
  /\ staticTimer' = None
  /\ IF "results" \notin views /\ currentJobId # None /\ HasInstantData(latestPollData)
     THEN /\ staticShown' = TRUE
          /\ page' = RenderedStatic(latestPollData)
          /\ ShowResults
     ELSE UNCHANGED <<staticShown, page, views>>
  /\ UNCHANGED <<faults, server, posting, getting, currentJobId, pollTimer, pollDeadline,
                 latestPollData>>

PauseEnds(t) ==
  /\ Fires(t, "pause")
  /\ timers' = Without({t.id})
  /\ views' = {"search"}
  /\ UNCHANGED <<faults, server, posting, getting, currentJobId, pollTimer, pollDeadline,
                 staticTimer, staticShown, latestPollData, page>>

\* 800 ms after the last line of the terminal.
RenderFires(t) ==
  /\ Fires(t, "render")
  /\ timers' = Without({t.id})
  /\ page' = Rendered(t.answer)
  /\ ShowResults
  /\ UNCHANGED <<faults, server, posting, getting, currentJobId, pollTimer, pollDeadline,
                 staticTimer, staticShown, latestPollData>>

-----------------------------------------------------------------------------
\* The workers finish a job.
ServerFinishes(j) ==
  /\ server[j] = "working"
  /\ \E outcome \in {"completed", "fallback", "failed"} :
       server' = [server EXCEPT ![j] = outcome]
  /\ UNCHANGED <<faults, posting, getting, timers, currentJobId, pollTimer, pollDeadline,
                 staticTimer, staticShown, latestPollData, views, page>>

User == Submit \/ NewAnalysis

Answer ==
  \/ PostRefused
  \/ \E j \in Jobs : PostAccepted(j) \/ PollWorking(j) \/ PollCompleted(j)
                       \/ PollFailed(j) \/ PollRefused(j) \/ PollThrows(j)

Expires(t) ==
  PollFires(t) \/ DeadlineFires(t) \/ StaticFires(t) \/ PauseEnds(t) \/ RenderFires(t)

TimerFires == \E t \in timers : Expires(t)

Next == User \/ Answer \/ TimerFires \/ \E j \in Jobs : ServerFinishes(j)

Spec == Init /\ [][Next]_vars

\* A fetch is answered in the end, and the browser fires each timer that is
\* due: no poll is so fast that another timer never is.  Strong fairness, since
\* a deadline may find a GET in flight each time it is due.
Fairness ==
  /\ WF_vars(Answer)
  /\ \A id \in Handles : SF_vars(\E t \in timers : t.id = id /\ Expires(t))

FairSpec == Spec /\ Fairness

-----------------------------------------------------------------------------
(* Properties.                                                             *)

\* Every fetch is answered before the user starts over or the deadline passes.
\* Nothing in the script stops a fetch or tells whose answer it was, so what
\* needs this is not promised by a slow network.
FetchesAreFast == "slow" \notin faults

\* The return to the search scheduled by a problem or a late answer keeps no
\* handle and cannot be cleared: it may come in the next analysis.
NoLateReturn == faults \cap {"slow", "error"} = {}

\* As long as fetches are answered before the user starts over, pollTimer names
\* the one poll there is, as a pending timer or a GET in flight: setting it over
\* a pending timer would start a second loop that nothing can clear
\* (schedulePoll, doPoll).
OnePollLoop ==
  FetchesAreFast =>
    /\ \A t \in Pending("poll") : t.id = pollTimer /\ ~PollInFlight
    /\ \A i, j \in Jobs : getting[i] > 0 /\ getting[j] > 0 => i = j /\ getting[i] = 1

\* As long as no return comes late, the results section shows the job the page
\* is waiting for or has finished: its name and counts, each badge it has data
\* for, and its AI sections when the summary says there are insights, though
\* they come from three callbacks (renderResults, updateAiInsights).  What the
\* job has no data for is left out: there the page shows what an earlier job
\* has left.
PageIsCurrent ==
  NoLateReturn /\ "results" \in views =>
    /\ page.meta = currentJobId
    /\ page.meta \in Badged => page.badge = page.meta
    /\ page.summary = "insights" => page.insights = page.meta

\* As long as no return comes late, the copy button copies the report of the
\* repository on screen, or nothing (markdownText outlives the job that set it).
CopiesShownReport ==
  NoLateReturn /\ "results" \in views => page.markdown \in {None, page.meta}

\* As long as no GET is in flight when the deadline passes, no poll is set or in
\* flight once the deadline has passed or was cleared: research.html:576 says
\* "Hard deadline - stop polling after 2 minutes".  A GET that is in flight then
\* goes on polling (PollsDoNotMultiply bounds it).
PollsUntilDeadline ==
  FetchesAreFast /\ (Pending("poll") # {} \/ PollInFlight) => Pending("deadline") # {}

\* Whatever fetches are slow or refused, a submission adds one poll at most, set
\* or in flight: an answer that comes when the user has started over, or after
\* the deadline, takes up the loop it belongs to and starts no second one
\* (schedulePoll overwrites pollTimer and clears nothing).
PollsDoNotMultiply ==
  Cardinality(Pending("poll")) + SumFunction(getting)
    <= Cardinality({j \in Jobs : server[j] # "none"})

\* As long as no return comes late, the page is in one of its three views: a
\* section shown on top of another would come from two callbacks that both
\* believe to be the last.
OneView == NoLateReturn => Cardinality(views) = 1

\* As long as fetches are fast and answered without a problem, results on screen
\* are taken away by the user alone: the returns that the deadline, a failed job
\* and a POST that throws schedule are over by then (scheduleReturnToSearch).
ReportStays ==
  [][(NoLateReturn /\ "results" \in views /\ "results" \notin views') => User]_vars

\* The terminal gives way to the results or to the search form, whatever the
\* server and the network do.
LoadingEnds == "loading" \in views ~> "loading" \notin views

\* research.html:1038: "renders GitHub metadata; ai is null so AI sections stay
\* hidden".  While the page waits for insights it shows none.
AISectionsStayHidden ==
  "results" \in views /\ page.summary = "analysing" => page.insights = None
=============================================================================
