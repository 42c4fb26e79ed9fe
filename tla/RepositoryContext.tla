-------------------------- MODULE RepositoryContext --------------------------
(***************************************************************************)
(* The data of one job on its way from the client's URL to the report: the *)
(* request validates and looks the repository up, the worker validates the *)
(* URL of the message again, fetches, looks into the insight cache, builds *)
(* the prompt, adds its warnings to the insights and renders.  The message *)
(* may be delivered again, with the repository changed and the cache kept. *)
(* ResearchJobs has the same path with two workers and no data.            *)
(***************************************************************************)
EXTENDS RepositoryTarget, GitHubAnswer

CONSTANTS Paths,      \* the paths of the URLs that clients send
          MaxPasses   \* bound on deliveries of the message

ASSUME PathsAssumption == Paths \subseteq Seq(Segments \ {EmptySegment})

VARIABLES stage,       \* what is done next
          pass,        \* deliveries so far
          url,         \* of the request, then of the message
          requested,   \* the target submit looked up
          target,      \* the target of the pipeline
          context,     \* RepositoryRawContext of the pipeline
          readme,      \* length of what the prompt has of the README
          tree,        \* length of what the prompt has of the tree
          warnings,    \* what PartialAnalysisWarnings are about
          cache,       \* the insights in the cache, with their commits
          insights,    \* ai_insights of the pipeline
          reason,      \* ai_fallback_reason of the pipeline
          report,      \* the report that is saved
          problem      \* the problem or exception that ended the path

vars == <<stage, pass, url, requested, target, context, readme, tree, warnings, cache,
          insights, reason, report, problem>>

Stages == {"validate", "look_up", "queued", "fetch", "look_aside", "format", "cut_readme",
           "cut_tree", "analyze", "render", "done", "refused", "raised"}

Problems == {"invalid-repository-url"} \cup FetchProblems

\* What an LLM's answer may be cut from.
Texts == {"readme", "tree"}

\* StructuredAIResponse: what its limitations name, "own" standing for the LLM's.
\* The rest is history: the texts it was made from, and which were cut.
Insights == [limitations : SUBSET (Texts \cup {"own"}), readme : ReadmeLengths,
             tree : TreeLengths, cut : SUBSET Texts]

Reasons == {"empty", "text", None}

Headings == DataSections \cup {"Repository Overview", "Project Insights", "Tech Stack",
              "Architecture", "Security & Health", "Limitations", "AI Analysis"}

Reports == [ai_insights : Insights \cup {None}, ai_fallback : BOOLEAN,
            ai_fallback_reason : Reasons, headings : SUBSET Headings]

ASSUME NoContextAssumption ==
  None \notin Contexts \cup Problems \cup Insights \cup Reports \cup {"empty", "text"}

TypeOK ==
  /\ stage \in Stages
  /\ pass \in Nat
  /\ url \in URLs
  /\ requested \in Targets \cup {None}
  /\ target \in Targets \cup {None}
  /\ context \in Contexts \cup {None}
  /\ readme \in Nat
  /\ tree \in Nat
  /\ warnings \subseteq Texts
  /\ cache \subseteq [commit : Commits \cup {Unknown}, insights : Insights]
  /\ insights \in Insights \cup {None}
  /\ reason \in Reasons
  /\ report \in Reports \cup {None}
  /\ problem \in Problems \cup {None}

\* Locals of execute_research_pipeline before they are assigned.
Cleared ==
  /\ target' = None /\ context' = None /\ readme' = 0 /\ tree' = 0 /\ warnings' = {}
  /\ insights' = None /\ reason' = None /\ report' = None /\ problem' = None

Init ==
  /\ stage = "validate"
  /\ pass = 1
  /\ url \in [site : Sites, path : Paths]
  /\ requested = None
  /\ target = None
  /\ context = None
  /\ readme = 0
  /\ tree = 0
  /\ warnings = {}
  /\ cache = {}
  /\ insights = None
  /\ reason = None
  /\ report = None
  /\ problem = None

\* The exception that leaves the parser: a problem, or urlparse's ValueError.
ParseProblem ==
  IF url.site = "malformed" THEN "unexpected" ELSE "invalid-repository-url"

Stop(end, why) ==
  /\ stage' = end
  /\ problem' = why
  /\ UNCHANGED <<pass, url, requested, target, context, readme, tree, warnings, cache,
                 insights, reason, report>>

-----------------------------------------------------------------------------
\* submit: parse_github_repository_url of the request's URL.
Validate ==
  /\ stage = "validate"
  /\ Parse(url) # None
  /\ stage' = "look_up"
  /\ requested' = Parse(url)
  /\ UNCHANGED <<pass, url, target, context, readme, tree, warnings, cache, insights,
                 reason, report, problem>>

ValidateRefuses ==
  /\ stage = "validate"
  /\ Parse(url) = None
  /\ Stop("refused", ParseProblem)

\* GitHub gives no repository a name that ends in ".git".
OnGitHub(repository) == repository.repo.git = 0

\* Mutant: the job is queued without looking the repository up.
LookUpSkipped ==
  /\ stage = "look_up"
  /\ stage' = "queued"
  /\ url' = Canonical(requested)
  /\ UNCHANGED <<pass, requested, target, context, readme, tree, warnings, cache,
                 insights, reason, report, problem>>

\* fetch_repository_context of the request; the message carries the canonical URL.
LookUp ==
  /\ stage = "look_up"
  /\ OnGitHub(requested)
  /\ stage' = "queued"
  /\ url' = Canonical(requested)
  /\ UNCHANGED <<pass, requested, target, context, readme, tree, warnings, cache,
                 insights, reason, report, problem>>

LookUpRaises ==
  /\ stage = "look_up"
  /\ \E why \in FetchProblems : Stop("refused", why)

-----------------------------------------------------------------------------
\* The pipeline: parse_github_repository_url of the message's URL.
Receive ==
  /\ stage = "queued"
  /\ IF Parse(url) = None
     THEN Stop("raised", ParseProblem)
     ELSE /\ stage' = "fetch"
          /\ target' = Parse(url)
          /\ UNCHANGED <<pass, url, requested, context, readme, tree, warnings, cache,
                         insights, reason, report, problem>>

\* fetch_repository_context of the pipeline.
Fetch ==
  /\ stage = "fetch"
  /\ OnGitHub(target)
  /\ \E repository \in Repositories : context' = RawContext(repository)
  /\ stage' = "look_aside"
  /\ UNCHANGED <<pass, url, requested, target, readme, tree, warnings, cache, insights,
                 reason, report, problem>>

FetchRaises ==
  /\ stage = "fetch"
  /\ \E why \in FetchProblems : Stop("raised", why)

\* get_cached_ai_result: with insights of this commit there is no prompt.
LookAside ==
  /\ stage = "look_aside"
  /\ \/ \E entry \in cache :
          /\ entry.commit = context.commit
          /\ insights' = entry.insights
          /\ stage' = "render"
     \/ /\ \A entry \in cache : entry.commit # context.commit
        /\ stage' = "format"
        /\ UNCHANGED insights
  /\ UNCHANGED <<pass, url, requested, target, context, readme, tree, warnings, cache,
                 reason, report, problem>>

\* build_prompt_payload, up to the first prompt.
Format ==
  /\ stage = "format"
  /\ context.branch # "brace"
  /\ stage' = "cut_readme"
  /\ readme' = context.readme
  /\ tree' = context.tree
  /\ UNCHANGED <<pass, url, requested, target, context, warnings, cache, insights, reason,
                 report, problem>>

FormatRaises ==
  /\ stage = "format"
  /\ context.branch = "brace"
  /\ Stop("raised", "unexpected")

Length == PromptLength(context, readme, tree)

CutReadme ==
  /\ stage = "cut_readme"
  /\ stage' = "cut_tree"
  /\ IF ~Fits(Length) /\ readme > 0
     THEN /\ readme' = Cut(readme, Length - MaxChars, ReadmeMargin, ReadmeFloor)
          /\ warnings' = warnings \cup {"readme"}
     ELSE UNCHANGED <<readme, warnings>>
  /\ UNCHANGED <<pass, url, requested, target, context, tree, cache, insights, reason,
                 report, problem>>

\* Mutant: elif, so that one prompt is cut once.
CutTreeElse ==
  /\ stage = "cut_tree"
  /\ stage' = "analyze"
  /\ IF ~Fits(Length) /\ tree > 0 /\ warnings = {}
     THEN /\ tree' = Cut(tree, Length - MaxChars, TreeMargin, TreeFloor)
          /\ warnings' = warnings \cup {"tree"}
     ELSE UNCHANGED <<tree, warnings>>
  /\ UNCHANGED <<pass, url, requested, target, context, readme, cache, insights, reason,
                 report, problem>>

CutTree ==
  /\ stage = "cut_tree"
  /\ stage' = "analyze"
  /\ IF ~Fits(Length) /\ tree > 0
     THEN /\ tree' = Cut(tree, Length - MaxChars, TreeMargin, TreeFloor)
          /\ warnings' = warnings \cup {"tree"}
     ELSE UNCHANGED <<tree, warnings>>
  /\ UNCHANGED <<pass, url, requested, target, context, readme, cache, insights, reason,
                 report, problem>>

-----------------------------------------------------------------------------
\* What the prompt lacks of the context's texts.
CutTexts == (IF readme # context.readme THEN {"readme"} ELSE {})
              \cup (IF tree # context.tree THEN {"tree"} ELSE {})

\* What the LLM answers, its limitations as they are.
LLMAnswers == {[limitations |-> own, readme |-> context.readme, tree |-> context.tree,
                cut |-> CutTexts] : own \in SUBSET {"own"}}

\* A warning that the limitations have already is not added again.
WithWarnings(answer) == [answer EXCEPT !.limitations = @ \cup warnings]

\* set_cached_ai_result.
Cached(entry) == {other \in cache : other.commit # entry.commit} \cup {entry}

\* Mutant: the answer is cached as it came, without the warnings.
AnalyzeCachesAnswer ==
  /\ stage = "analyze"
  /\ stage' = "render"
  /\ \E answer \in LLMAnswers :
       /\ insights' = WithWarnings(answer)
       /\ cache' = Cached([commit |-> context.commit, insights |-> answer])
  /\ UNCHANGED <<pass, url, requested, target, context, readme, tree, warnings, reason,
                 report, problem>>

\* analyze returns: the warnings join the limitations, then the insights are cached.
Analyze ==
  /\ stage = "analyze"
  /\ stage' = "render"
  /\ \E answer \in LLMAnswers :
       /\ insights' = WithWarnings(answer)
       /\ cache' = Cached([commit |-> context.commit, insights |-> WithWarnings(answer)])
  /\ UNCHANGED <<pass, url, requested, target, context, readme, tree, warnings, reason,
                 report, problem>>

\* What else analyze may meet, and the text of the exception it raises.
FallbackReason ==
  [no_key |-> "text", raises |-> "text", raises_without_text |-> "empty",
   no_choices |-> "text", refuses |-> "text", unparsed |-> "text"]

\* LLMUnavailableError or ContentPolicyError: a report without insights.
AnalyzeFallsBack ==
  /\ stage = "analyze"
  /\ stage' = "render"
  /\ \E outcome \in DOMAIN FallbackReason : reason' = FallbackReason[outcome]
  /\ UNCHANGED <<pass, url, requested, target, context, readme, tree, warnings, cache,
                 insights, report, problem>>

\* build_markdown_report: the headings, of data only if there is any.
MarkdownReport ==
  {"Repository Overview"} \cup context.data \cup
  IF insights = None THEN {"AI Analysis"}
  ELSE {"Project Insights", "Tech Stack", "Architecture", "Security & Health"}
         \cup (IF insights.limitations = {} THEN {} ELSE {"Limitations"})

\* build_research_report and save_final_report.
Render ==
  /\ stage = "render"
  /\ stage' = "done"
  /\ report' = [ai_insights |-> insights, ai_fallback |-> reason = "text",
                ai_fallback_reason |-> reason, headings |-> MarkdownReport]
  /\ UNCHANGED <<pass, url, requested, target, context, readme, tree, warnings, cache,
                 insights, reason, problem>>

\* The message comes again, after an exception or an ack that was lost, or
\* another job's does with the same URL.
Again ==
  /\ stage \in {"done", "raised"}
  /\ pass < MaxPasses
  /\ pass' = pass + 1
  /\ stage' = "queued"
  /\ Cleared
  /\ UNCHANGED <<url, requested, cache>>

CacheExpires ==
  /\ \E entry \in cache : cache' = cache \ {entry}
  /\ UNCHANGED <<stage, pass, url, requested, target, context, readme, tree, warnings,
                 insights, reason, report, problem>>

Next ==
  \/ Validate
  \/ ValidateRefuses
  \/ LookUp
  \/ LookUpRaises
  \/ Receive
  \/ Fetch
  \/ FetchRaises
  \/ LookAside
  \/ Format
  \/ FormatRaises
  \/ CutReadme
  \/ CutTree
  \/ Analyze
  \/ AnalyzeFallsBack
  \/ Render
  \/ Again
  \/ CacheExpires

Spec == Init /\ [][Next]_vars

-----------------------------------------------------------------------------
\* The worker researches the repository the request looked up, and never finds
\* the URL of its message invalid, although parsing takes a suffix ".git" off
\* each time: URLs are rejected "before any background job" (spec.md:115).
WorkerAgreesOnTarget ==
  /\ target # None => target = requested
  /\ stage = "raised" => target # None

\* "The maximum payload sent to the LLM MUST be capped at the configured
\* budget" (spec.md:132): it is, if the budget has room for the header and for
\* what both cuts leave at least (build_prompt_payload).
HasRoom ==
  PromptLength(context, ReadmeFloor + Suffix, TreeFloor + Suffix) <= MaxChars

PromptFitsBudget == stage = "analyze" /\ HasRoom => Length <= MaxChars

\* "README first" (tasks.md:96): the tree is cut only if there is no README or
\* it is down to its floor, and a context that fits is sent whole and without a
\* warning.
CutsInOrder ==
  stage = "analyze" =>
    /\ "tree" \in warnings => context.readme = 0 \/ readme <= ReadmeFloor + Suffix
    /\ PromptLength(context, context.readme, context.tree) <= MaxChars
         => readme = context.readme /\ tree = context.tree /\ warnings = {}

\* A report whose insights come from a text that was cut has the cut among its
\* limitations ("`PartialAnalysisWarning` appended to report",
\* design-notes.md:167), also when the prompt was built for an earlier delivery
\* and its insights come from the cache (pipeline.py:100).
CutsAreReported ==
  report # None /\ report.ai_insights # None =>
    /\ report.ai_insights.cut \subseteq report.ai_insights.limitations
    /\ report.ai_insights.cut # {} => "Limitations" \in report.headings

\* Insights are about the README and the tree of the report they are in, whatever
\* is pushed between two deliveries, also for a repository without a commit,
\* whose key is "unknown" (github_adapter.py:230).
InsightsAreOfTheContext ==
  report # None /\ report.ai_insights # None =>
    /\ report.ai_insights.readme = context.readme
    /\ report.ai_insights.tree = context.tree
=============================================================================
