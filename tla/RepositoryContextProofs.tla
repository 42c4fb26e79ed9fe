----------------------- MODULE RepositoryContextProofs -----------------------
(***************************************************************************)
(* Proofs about RepositoryContext: for all names, paths and lengths, and   *)
(* every budget.                                                           *)
(***************************************************************************)
EXTENDS RepositoryContext, TLAPS

\* Which target is known when.
TargetInv ==
  /\ stage = "look_up" => requested = Parse(url) /\ requested # None
  /\ stage \notin {"validate", "look_up", "refused"} =>
       requested # None /\ Parse(url) = requested
  /\ stage \in {"validate", "look_up", "queued", "refused"} => target = None
  /\ stage \notin {"validate", "look_up", "queued", "refused"} =>
       target # None /\ target = requested

\* What is left of README and tree.
Whole == readme = context.readme /\ tree = context.tree /\ warnings = {}

ReadmeCut ==
  /\ tree = context.tree
  /\ warnings = {"readme"}
  /\ Fits(Length) \/ readme <= ReadmeFloor + Suffix

TreeCut ==
  /\ "tree" \in warnings
  /\ "readme" \notin warnings => readme = context.readme
  /\ readme <= ReadmeFloor + Suffix
  /\ Fits(Length) \/ tree <= TreeFloor + Suffix

FitsWhole == Fits(PromptLength(context, context.readme, context.tree))

PayloadInv ==
  /\ stage \in {"look_aside", "format", "cut_readme", "cut_tree", "analyze", "render", "done"}
       => context # None
  /\ stage \in {"validate", "look_up", "queued", "fetch", "look_aside", "format", "cut_readme"}
       => warnings = {}
  /\ stage = "cut_readme" => Whole
  /\ stage = "cut_tree" =>
       \/ Whole /\ (Fits(Length) \/ readme = 0)
       \/ ReadmeCut /\ ~FitsWhole
  /\ stage = "analyze" =>
       \/ Whole /\ (Fits(Length) \/ (readme = 0 /\ tree = 0))
       \/ ReadmeCut /\ ~FitsWhole /\ (Fits(Length) \/ tree = 0)
       \/ TreeCut /\ ~FitsWhole

\* Insights name what was cut, and are about the texts of one context.
Reported(i) == i.cut \subseteq i.limitations

Describes(i, c) == i.readme = c.readme /\ i.tree = c.tree

\* A context comes from GitHub; what is cached for a commit is about all
\* contexts of that commit.
InsightsInv ==
  /\ context # None => \E r \in Repositories : context = RawContext(r)
  /\ \A entry \in cache :
       /\ Reported(entry.insights)
       /\ \A r \in Repositories :
            CommitSha(r) = entry.commit => Describes(entry.insights, RawContext(r))
  /\ insights # None =>
       stage \in {"render", "done"} /\ Reported(insights) /\ Describes(insights, context)
  /\ report # None =>
       /\ stage = "done"
       /\ report.ai_insights = insights
       /\ report.headings = MarkdownReport

ContextIInv == TypeOK /\ TargetInv /\ PayloadInv /\ InsightsInv

-----------------------------------------------------------------------------
\* Parsing what was parsed changes nothing, unless there is another suffix.
LEMMA ParseCanonical ==
  ASSUME NEW u \in URLs, Parse(u) # None, OnGitHub(Parse(u))
  PROVE  Parse(Canonical(Parse(u))) = Parse(u)
<1> DEFINE t == Parse(u)
<1>1. /\ t = [owner |-> u.path[1], repo |-> Stripped(u.path[2])]
      /\ ValidOwner(u.path[1]) /\ ValidRepo(Stripped(u.path[2]))
  BY DEF Parse
<1>2. Stripped(t.repo) = t.repo
  BY <1>1 DEF OnGitHub, Stripped
<1>3. /\ Canonical(t).site = "github" /\ Len(Canonical(t).path) = 2
      /\ Canonical(t).path[1] = t.owner /\ Canonical(t).path[2] = t.repo
  BY DEF Canonical
<1> HIDE DEF t
<1> QED BY <1>1, <1>2, <1>3 DEF Parse

\* The types of the parser.
LEMMA ParseType ==
  ASSUME NEW u \in URLs
  PROVE  /\ Parse(u) \in Targets \cup {None}
         /\ Parse(u) # None => Canonical(Parse(u)) \in URLs
<1>1. CASE Parse(u) = None
  BY <1>1
<1>2. CASE Parse(u) # None
  <2>1. /\ Parse(u) = [owner |-> u.path[1], repo |-> Stripped(u.path[2])]
        /\ ValidRepo(Stripped(u.path[2])) /\ Len(u.path) = 2
    BY <1>2 DEF Parse
  <2>2. u.path[1] \in Segments \ {EmptySegment} /\ u.path[2] \in Segments
    BY <2>1 DEF URLs
  <2>3. Stripped(u.path[2]) \in Segments \ {EmptySegment}
    BY <2>1, <2>2, TargetAssumption DEF Stripped, Segments, ValidRepo
  <2>4. <<Parse(u).owner, Parse(u).repo>> \in Seq(Segments \ {EmptySegment})
    BY <2>1, <2>2, <2>3
  <2> QED BY <2>1, <2>2, <2>3, <2>4 DEF Targets, Canonical, URLs, Sites
<1> QED BY <1>1, <1>2

-----------------------------------------------------------------------------
LEMMA ContextInitEstablishes == Init => ContextIInv
BY PathsAssumption
   DEF Init, ContextIInv, TypeOK, TargetInv, PayloadInv, InsightsInv, Stages, URLs, Reasons

\* What GitHub answers has the type of a context.
LEMMA RawContextType ==
  ASSUME NEW r \in Repositories
  PROVE  /\ RawContext(r) \in Contexts
         /\ Readme(r) \in ReadmeLengths /\ r.tree \in TreeLengths
         /\ RawContext(r).readme = Readme(r) /\ RawContext(r).tree = r.tree
         /\ RawContext(r).commit = CommitSha(r)
<1>1. r \in Answered
  BY AnswerAssumption
<1>2. Readme(r) \in ReadmeLengths
  <2> DEFINE blob == IF r.readmeLower # Absent THEN r.readmeLower ELSE r.readmeUpper
  <2>1. blob \in Blobs \cup {Absent}
    BY <1>1 DEF Answered
  <2>2. Readme(r) = IF blob = Absent THEN 0 ELSE IF blob.text = Absent THEN 0 ELSE blob.text
    BY DEF Readme
  <2> HIDE DEF blob
  <2>3. CASE blob = Absent
    BY <2>2, <2>3, AnswerAssumption
  <2>4. CASE blob # Absent
    <3>1. blob.text \in ReadmeLengths \cup {Absent}
      BY <2>1, <2>4 DEF Blobs
    <3> QED BY <2>2, <2>4, <3>1, AnswerAssumption
  <2> QED BY <2>3, <2>4
<1>3. CommitSha(r) \in Commits \cup {Unknown}
  BY <1>1 DEF Answered, CommitSha
<1>4. /\ r.branch \in Branches \cup {Absent} /\ r.header \in HeaderLengths
      /\ r.tree \in TreeLengths /\ r.data \in SUBSET DataSections
  BY <1>1 DEF Answered
<1> QED BY <1>2, <1>3, <1>4 DEF RawContext, Contexts, Branches

\* Contexts of one commit have one content, the empty one included.
LEMMA OneContent ==
  ASSUME NEW r \in Repositories, NEW s \in Repositories, CommitSha(r) = CommitSha(s)
  PROVE  Readme(r) = Readme(s) /\ r.tree = s.tree
<1>1. r.commit \in Commits \cup {Absent} /\ s.commit \in Commits \cup {Absent}
  BY AnswerAssumption DEF Answered
<1>2. r.commit = s.commit
  BY <1>1, AnswerAssumption DEF CommitSha
<1> QED BY <1>2, AnswerAssumption

\* Before there are insights, a step that leaves the cache alone keeps InsightsInv.
LEMMA InsightsKept ==
  ASSUME ContextIInv, stage \notin {"render", "done"},
         UNCHANGED <<cache, insights, report>>, context' = context \/ context' = None
  PROVE  InsightsInv'
<1>1. insights = None /\ report = None
  BY DEF ContextIInv, InsightsInv
<1> QED BY <1>1 DEF ContextIInv, InsightsInv

\* Stop leaves everything but the stage.
LEMMA StopStep ==
  ASSUME ContextIInv, NEW end, NEW why \in Problems, Stop(end, why),
         \/ end = "refused" /\ stage \in {"validate", "look_up"}
         \/ end = "raised" /\ stage \in {"fetch", "format"}
  PROVE  ContextIInv'
<1>1. InsightsInv'
  BY InsightsKept DEF Stop
<1> QED BY <1>1 DEF ContextIInv, TypeOK, TargetInv, PayloadInv, Stages, Stop

\* The steps up to the pipeline's fetch.
LEMMA TargetSteps ==
  ASSUME ContextIInv, Validate \/ ValidateRefuses \/ LookUp \/ LookUpRaises \/ Receive
  PROVE  ContextIInv'
<1>1. url \in URLs
  BY DEF ContextIInv, TypeOK
<1>2. ParseProblem \in Problems /\ FetchProblems \subseteq Problems
  BY DEF ParseProblem, Problems, FetchProblems, FetchProblem
<1>3. CASE Validate
  <2>1. InsightsInv'
    BY <1>3, InsightsKept DEF Validate
  <2> QED BY <1>1, <1>3, <2>1, ParseType
          DEF Validate, ContextIInv, TypeOK, TargetInv, PayloadInv, Stages
<1>4. CASE ValidateRefuses
  BY <1>2, <1>4, StopStep DEF ValidateRefuses
<1>5. CASE LookUp
  <2>1. /\ requested = Parse(url) /\ requested # None
        /\ Canonical(requested) \in URLs /\ Parse(Canonical(requested)) = requested
    BY <1>1, <1>5, ParseType, ParseCanonical DEF LookUp, ContextIInv, TargetInv
  <2>2. InsightsInv'
    BY <1>5, InsightsKept DEF LookUp
  <2> QED BY <1>5, <2>1, <2>2 DEF LookUp, ContextIInv, TypeOK, TargetInv, PayloadInv, Stages
<1>6. CASE LookUpRaises
  BY <1>2, <1>6, StopStep DEF LookUpRaises
<1>7. CASE Receive
  <2>1. Parse(url) = requested /\ requested # None
    BY <1>7 DEF Receive, ContextIInv, TargetInv
  <2>2. InsightsInv'
    BY <1>7, <2>1, InsightsKept DEF Receive
  <2> QED BY <1>7, <2>1, <2>2
          DEF Receive, ContextIInv, TypeOK, TargetInv, PayloadInv, Stages
<1> QED BY <1>3, <1>4, <1>5, <1>6, <1>7

\* The fetch of the pipeline and the first prompt.
LEMMA FetchSteps ==
  ASSUME ContextIInv, Fetch \/ FetchRaises \/ Format \/ FormatRaises
  PROVE  ContextIInv'
<1>1. FetchProblems \subseteq Problems /\ "unexpected" \in Problems
  BY DEF Problems, FetchProblems, FetchProblem
<1>2. CASE Fetch
  <2>1. PICK r \in Repositories : context' = RawContext(r)
    BY <1>2 DEF Fetch
  <2>2. context' \in Contexts /\ context' # None
    BY <2>1, RawContextType, NoContextAssumption
  <2>3. insights = None /\ report = None
    BY <1>2 DEF Fetch, ContextIInv, InsightsInv
  <2>4. InsightsInv'
    BY <1>2, <2>1, <2>3 DEF Fetch, ContextIInv, InsightsInv
  <2> QED BY <1>2, <2>2, <2>4
          DEF Fetch, ContextIInv, TypeOK, TargetInv, PayloadInv, Stages
<1>3. CASE FetchRaises
  BY <1>1, <1>3, StopStep DEF FetchRaises
<1>4. CASE Format
  <2>1. context \in Contexts
    BY <1>4 DEF Format, ContextIInv, TypeOK, PayloadInv
  <2>2. context.readme \in Nat /\ context.tree \in Nat
    BY <2>1, PayloadAssumption DEF Contexts
  <2>3. InsightsInv'
    BY <1>4, InsightsKept DEF Format
  <2> QED BY <1>4, <2>1, <2>2, <2>3
          DEF Format, ContextIInv, TypeOK, TargetInv, PayloadInv, Stages, Whole
<1>5. CASE FormatRaises
  BY <1>1, <1>5, StopStep DEF FormatRaises
<1> QED BY <1>2, <1>3, <1>4, <1>5

\* Insights of the cache are about the context, which is one of their commit.
LEMMA LookAsideStep ==
  ASSUME ContextIInv, LookAside
  PROVE  ContextIInv'
<1>1. /\ stage = "look_aside" /\ stage' \in {"render", "format"}
      /\ UNCHANGED <<pass, url, requested, target, context, readme, tree, warnings, cache,
                     reason, report, problem>>
      /\ insights = None /\ report = None
  BY DEF LookAside, ContextIInv, InsightsInv
<1>2. /\ insights' \in Insights \cup {None}
      /\ insights' # None =>
           stage' = "render" /\ Reported(insights') /\ Describes(insights', context)
  <2>1. CASE insights' = insights
    BY <1>1, <2>1
  <2>2. CASE insights' # insights
    <3>1. PICK entry \in cache : /\ entry.commit = context.commit
                                 /\ insights' = entry.insights /\ stage' = "render"
      BY <2>2 DEF LookAside
    <3>2. PICK r \in Repositories : context = RawContext(r)
      BY <1>1, NoContextAssumption DEF ContextIInv, PayloadInv, InsightsInv
    <3>3. CommitSha(r) = entry.commit
      BY <3>1, <3>2, RawContextType
    <3> QED BY <3>1, <3>2, <3>3 DEF ContextIInv, TypeOK, InsightsInv
  <2> QED BY <2>1, <2>2
<1>3. InsightsInv'
  BY <1>1, <1>2 DEF ContextIInv, InsightsInv, Describes
<1> QED BY <1>1, <1>2, <1>3 DEF ContextIInv, TypeOK, TargetInv, PayloadInv, Stages

\* Where the texts are cut, context and lengths are known.
LEMMA Lengths ==
  ASSUME ContextIInv, stage \in {"format", "cut_readme", "cut_tree", "analyze"}
  PROVE  /\ context \in Contexts /\ context.header \in Nat
         /\ context.readme \in Nat /\ context.tree \in Nat
         /\ readme \in Nat /\ tree \in Nat /\ MaxChars \in Nat
         /\ Length \in Nat
<1>1. context \in Contexts /\ readme \in Nat /\ tree \in Nat
  BY DEF ContextIInv, TypeOK, PayloadInv
<1>2. context.header \in Nat /\ context.readme \in Nat /\ context.tree \in Nat
  BY <1>1, PayloadAssumption DEF Contexts
<1>3. Length \in Nat
  BY <1>1, <1>2 DEF Length, PromptLength
<1> QED BY <1>1, <1>2, <1>3, PayloadAssumption

\* The README is cut so that the prompt fits, or down to its floor.
LEMMA CutReadmeStep ==
  ASSUME ContextIInv, CutReadme
  PROVE  ContextIInv'
<1>1. /\ stage = "cut_readme" /\ Whole
      /\ stage' = "cut_tree"
      /\ UNCHANGED <<pass, url, requested, target, context, tree, cache, insights, reason,
                     report, problem>>
      /\ InsightsInv'
  BY InsightsKept DEF CutReadme, ContextIInv, PayloadInv
<1>2. CASE ~Fits(Length) /\ readme > 0
  <2>1. readme' = Cut(readme, Length - MaxChars, ReadmeMargin, ReadmeFloor)
    BY <1>2 DEF CutReadme
  <2>2. warnings' = {"readme"}
    BY <1>1, <1>2 DEF CutReadme, Whole
  <2>3. /\ Length - MaxChars \in Nat /\ ReadmeMargin \in Nat /\ ReadmeFloor \in Nat
        /\ readme \in Nat
    BY <1>1, <1>2, Lengths DEF Fits, ReadmeMargin, ReadmeFloor
  <2>4. /\ readme' \in Nat
        /\ \/ readme' <= ReadmeFloor + Suffix
           \/ readme' = readme - (Length - MaxChars) - ReadmeMargin + Suffix
    BY <2>1, <2>3 DEF Cut, Larger, Smaller, Suffix, ReadmeMargin, ReadmeFloor
  <2>5. readme' <= ReadmeFloor + Suffix \/ Fits(Length)'
    BY <1>1, <1>2, <2>4, Lengths
       DEF Fits, Length, PromptLength, ReadmeMargin, ReadmeFloor, Suffix
  <2>6. ~FitsWhole'
    BY <1>1, <1>2 DEF FitsWhole, Fits, Length, Whole
  <2> QED BY <1>1, <2>2, <2>4, <2>5, <2>6
          DEF ContextIInv, TypeOK, TargetInv, PayloadInv, Stages, ReadmeCut, Whole, Texts
<1>3. CASE ~(~Fits(Length) /\ readme > 0)
  <2>1. UNCHANGED <<readme, warnings>>
    BY <1>3 DEF CutReadme
  <2>2. (Fits(Length) \/ readme = 0)'
    BY <1>1, <1>3, <2>1, Lengths DEF Fits, Length
  <2> QED BY <1>1, <2>1, <2>2
          DEF ContextIInv, TypeOK, TargetInv, PayloadInv, Stages, Whole
<1> QED BY <1>2, <1>3

\* The tree is cut only after the README, so that the prompt fits, or down to
\* its floor.
LEMMA CutTreeStep ==
  ASSUME ContextIInv, CutTree
  PROVE  ContextIInv'
<1>1. /\ stage = "cut_tree" /\ stage' = "analyze"
      /\ \/ Whole /\ (Fits(Length) \/ readme = 0)
         \/ ReadmeCut /\ ~FitsWhole
      /\ UNCHANGED <<pass, url, requested, target, context, readme, cache, insights, reason,
                     report, problem>>
      /\ InsightsInv'
  BY InsightsKept DEF CutTree, ContextIInv, PayloadInv
<1>2. CASE ~Fits(Length) /\ tree > 0
  <2>1. /\ tree' = Cut(tree, Length - MaxChars, TreeMargin, TreeFloor)
        /\ warnings' = warnings \cup {"tree"}
    BY <1>2 DEF CutTree
  <2>2. /\ Length - MaxChars \in Nat /\ TreeMargin \in Nat /\ TreeFloor \in Nat
        /\ tree \in Nat
    BY <1>1, <1>2, Lengths DEF Fits, TreeMargin, TreeFloor
  <2>3. /\ tree' \in Nat
        /\ \/ tree' <= TreeFloor + Suffix
           \/ tree' = tree - (Length - MaxChars) - TreeMargin + Suffix
    BY <2>1, <2>2 DEF Cut, Larger, Smaller, Suffix, TreeMargin, TreeFloor
  <2>4. tree' <= TreeFloor + Suffix \/ Fits(Length)'
    BY <1>1, <1>2, <2>3, Lengths
       DEF Fits, Length, PromptLength, TreeMargin, TreeFloor, Suffix
  <2>5. ~FitsWhole'
    BY <1>1, <1>2 DEF FitsWhole, Fits, Length, Whole
  <2>6. /\ readme <= ReadmeFloor + Suffix
        /\ "readme" \notin warnings => readme = context.readme
    BY <1>1, <1>2 DEF Whole, ReadmeCut, ReadmeFloor, Suffix
  <2>7. TreeCut'
    BY <1>1, <2>1, <2>4, <2>6 DEF TreeCut
  <2>8. warnings' \subseteq Texts
    BY <2>1 DEF ContextIInv, TypeOK, Texts
  <2> QED BY <1>1, <2>3, <2>5, <2>7, <2>8
          DEF ContextIInv, TypeOK, TargetInv, PayloadInv, Stages
<1>3. CASE ~(~Fits(Length) /\ tree > 0)
  <2>1. UNCHANGED <<tree, warnings>>
    BY <1>3 DEF CutTree
  <2>2. Fits(Length) \/ tree = 0
    BY <1>1, <1>3, Lengths DEF Fits
  <2>3. /\ Length' = Length
        /\ FitsWhole' = FitsWhole
        /\ Whole' = Whole
        /\ ReadmeCut' = ReadmeCut
    BY <1>1, <2>1 DEF Length, FitsWhole, Fits, Whole, ReadmeCut
  <2>4. /\ Fits(Length)' = Fits(Length) /\ readme' = readme /\ tree' = tree
    BY <1>1, <2>1, <2>3 DEF Fits
  <2>5. \/ Whole' /\ (Fits(Length)' \/ (readme' = 0 /\ tree' = 0))
        \/ ReadmeCut' /\ ~FitsWhole' /\ (Fits(Length)' \/ tree' = 0)
    BY <1>1, <2>2, <2>3, <2>4
  <2> QED BY <1>1, <2>1, <2>5
          DEF ContextIInv, TypeOK, TargetInv, PayloadInv, Stages
<1> QED BY <1>2, <1>3

\* The warnings name everything that was cut, and the cache is told as well.
LEMMA AnalyzeStep ==
  ASSUME ContextIInv, Analyze
  PROVE  ContextIInv'
<1>1. /\ stage = "analyze" /\ stage' = "render"
      /\ UNCHANGED <<pass, url, requested, target, context, readme, tree, warnings, reason,
                     report, problem>>
  BY DEF Analyze
<1>2. PICK answer \in LLMAnswers :
        /\ insights' = WithWarnings(answer)
        /\ cache' = Cached([commit |-> context.commit, insights |-> WithWarnings(answer)])
  BY DEF Analyze
<1> DEFINE new == WithWarnings(answer)
           entry == [commit |-> context.commit, insights |-> new]
<1>3. PICK own \in SUBSET {"own"} :
        answer = [limitations |-> own, readme |-> context.readme, tree |-> context.tree,
                  cut |-> CutTexts]
  BY DEF LLMAnswers
<1>4. new = [limitations |-> own \cup warnings, readme |-> context.readme,
             tree |-> context.tree, cut |-> CutTexts]
  BY <1>3 DEF WithWarnings
<1>5. CutTexts \subseteq warnings /\ CutTexts \subseteq Texts /\ warnings \subseteq Texts
  BY <1>1 DEF ContextIInv, TypeOK, PayloadInv, CutTexts, Texts, Whole, ReadmeCut, TreeCut
<1>6. context \in Contexts /\ (\E r \in Repositories : context = RawContext(r))
  BY <1>1 DEF ContextIInv, TypeOK, PayloadInv, InsightsInv
<1>7. new \in Insights /\ Reported(new) /\ Describes(new, context)
  BY <1>4, <1>5, <1>6 DEF Insights, Contexts, Reported, Describes, Texts
<1>8. entry \in [commit : Commits \cup {Unknown}, insights : Insights]
  BY <1>6, <1>7 DEF Contexts
<1>9. ASSUME NEW r \in Repositories, CommitSha(r) = context.commit
      PROVE  Describes(new, RawContext(r))
  <2>1. PICK s \in Repositories : context = RawContext(s)
    BY <1>6
  <2>2. Readme(r) = Readme(s) /\ r.tree = s.tree
    BY <1>9, <2>1, RawContextType, OneContent
  <2> QED BY <1>7, <2>1, <2>2, RawContextType DEF Describes
<1> HIDE DEF new
<1>10. cache' \subseteq cache \cup {entry}
  BY <1>2 DEF Cached, new
<1> HIDE DEF entry
<1>11. /\ entry.commit = context.commit /\ entry.insights = new
       /\ insights' = new
  BY <1>2 DEF entry, new
<1>12. report = None
  BY <1>1 DEF ContextIInv, InsightsInv
<1>13. InsightsInv'
  <2>1. ASSUME NEW e \in cache'
        PROVE  /\ Reported(e.insights)
               /\ \A r \in Repositories :
                    CommitSha(r) = e.commit => Describes(e.insights, RawContext(r))
    BY <1>7, <1>9, <1>10, <1>11, <2>1 DEF ContextIInv, InsightsInv
  <2> QED BY <1>1, <1>6, <1>7, <1>11, <1>12, <2>1 DEF InsightsInv, Describes
<1>14. /\ cache' \subseteq [commit : Commits \cup {Unknown}, insights : Insights]
       /\ insights' \in Insights \cup {None}
  BY <1>7, <1>8, <1>10, <1>11 DEF ContextIInv, TypeOK
<1> QED BY <1>1, <1>13, <1>14 DEF ContextIInv, TypeOK, TargetInv, PayloadInv, Stages

\* Without an answer there are no insights and a reason.
LEMMA FallBackStep ==
  ASSUME ContextIInv, AnalyzeFallsBack
  PROVE  ContextIInv'
<1>1. InsightsInv'
  BY InsightsKept DEF AnalyzeFallsBack
<1>2. reason' \in Reasons
  BY DEF AnalyzeFallsBack, FallbackReason, Reasons
<1> QED BY <1>1, <1>2
        DEF AnalyzeFallsBack, ContextIInv, TypeOK, TargetInv, PayloadInv, Stages

\* The report is made of what the pipeline has.
LEMMA RenderStep ==
  ASSUME ContextIInv, Render
  PROVE  ContextIInv'
<1>1. /\ stage = "render" /\ stage' = "done"
      /\ report' = [ai_insights |-> insights, ai_fallback |-> reason = "text",
                    ai_fallback_reason |-> reason, headings |-> MarkdownReport]
      /\ UNCHANGED <<pass, url, requested, target, context, readme, tree, warnings, cache,
                     insights, reason, problem>>
  BY DEF Render
<1>2. context \in Contexts
  BY <1>1 DEF ContextIInv, TypeOK, PayloadInv
<1>3. MarkdownReport \subseteq Headings
  BY <1>2 DEF MarkdownReport, Headings, Contexts, DataSections
<1>4. report' \in Reports
  BY <1>1, <1>3 DEF Reports, ContextIInv, TypeOK
<1>5. MarkdownReport' = MarkdownReport
  BY <1>1 DEF MarkdownReport
<1>6. InsightsInv'
  BY <1>1, <1>5 DEF ContextIInv, InsightsInv, Describes
<1> QED BY <1>1, <1>4, <1>6 DEF ContextIInv, TypeOK, TargetInv, PayloadInv, Stages

\* Another delivery begins with nothing but the URL and the cache.
LEMMA AgainSteps ==
  ASSUME ContextIInv, Again \/ CacheExpires
  PROVE  ContextIInv'
<1>1. CASE Again
  <2>1. InsightsInv'
    BY <1>1 DEF Again, Cleared, ContextIInv, InsightsInv
  <2> QED BY <1>1, <2>1
          DEF Again, Cleared, ContextIInv, TypeOK, TargetInv, PayloadInv, Stages, Reasons
<1>2. CASE CacheExpires
  <2>1. /\ cache' \subseteq cache
        /\ UNCHANGED <<stage, pass, url, requested, target, context, readme, tree, warnings,
                       insights, reason, report, problem>>
    BY <1>2 DEF CacheExpires
  <2>2. MarkdownReport' = MarkdownReport
    BY <2>1 DEF MarkdownReport
  <2>3. InsightsInv'
    BY <2>1, <2>2 DEF ContextIInv, InsightsInv, Describes
  <2>4. PayloadInv'
    BY <2>1 DEF ContextIInv, PayloadInv, Whole, ReadmeCut, TreeCut, FitsWhole, Fits, Length
  <2> QED BY <2>1, <2>3, <2>4 DEF ContextIInv, TypeOK, TargetInv
<1> QED BY <1>1, <1>2

\* Every step keeps the invariant.
LEMMA ContextNextPreserves ==
  ASSUME ContextIInv, [Next]_vars
  PROVE  ContextIInv'
<1>1. CASE UNCHANGED vars
  <2>1. InsightsInv'
    BY <1>1 DEF vars, ContextIInv, InsightsInv, Describes, MarkdownReport
  <2> QED BY <1>1, <2>1 DEF vars, ContextIInv, TypeOK, TargetInv, PayloadInv, Whole,
          ReadmeCut, TreeCut, FitsWhole, Fits, Length
<1>2. CASE Next
  BY <1>2, TargetSteps, FetchSteps, LookAsideStep, CutReadmeStep, CutTreeStep, AnalyzeStep,
     FallBackStep, RenderStep, AgainSteps DEF Next
<1> QED BY <1>1, <1>2

-----------------------------------------------------------------------------
\* What is known of target and prompt at each stage holds in every behaviour.
THEOREM ContextInvariance == Spec => []ContextIInv
<1>1. Init => ContextIInv
  BY ContextInitEstablishes
<1>2. ContextIInv /\ [Next]_vars => ContextIInv'
  BY ContextNextPreserves
<1> QED BY <1>1, <1>2, PTL DEF Spec

\* The pipeline of any URL researches the repository that submit looked up and
\* does not find its message's URL invalid (parse_github_repository_url twice).
THEOREM WorkersAgreeOnTarget == Spec => []WorkerAgreesOnTarget
<1>1. ContextIInv => WorkerAgreesOnTarget
  BY DEF ContextIInv, TypeOK, Stages, TargetInv, WorkerAgreesOnTarget
<1> QED BY <1>1, ContextInvariance, PTL

\* For all lengths and budgets: a prompt that has room for its header and both
\* floors is within the budget (build_prompt_payload).
THEOREM PromptsFitBudget == Spec => []PromptFitsBudget
<1>1. ASSUME ContextIInv PROVE PromptFitsBudget
  <2> SUFFICES ASSUME stage = "analyze", HasRoom PROVE Fits(Length)
    BY DEF PromptFitsBudget, Fits
  <2>1. \/ Fits(Length)
        \/ (readme <= ReadmeFloor + Suffix /\ tree <= TreeFloor + Suffix)
    BY <1>1 DEF ContextIInv, PayloadInv, ReadmeCut, TreeCut, ReadmeFloor, TreeFloor, Suffix
  <2>2. CASE readme <= ReadmeFloor + Suffix /\ tree <= TreeFloor + Suffix
    BY <1>1, <2>2, Lengths
       DEF HasRoom, Fits, Length, PromptLength, ReadmeFloor, TreeFloor, Suffix
  <2> QED BY <2>1, <2>2
<1> QED BY <1>1, ContextInvariance, PTL

\* README first, and nothing cut that fits, for all lengths and budgets.
THEOREM CutsAreOrderly == Spec => []CutsInOrder
<1>1. ASSUME ContextIInv PROVE CutsInOrder
  BY <1>1 DEF ContextIInv, PayloadInv, Whole, ReadmeCut, TreeCut, FitsWhole, Fits, CutsInOrder
<1> QED BY <1>1, ContextInvariance, PTL

\* Insights and the markdown made of them name every cut of the prompt they come
\* from, whichever delivery built it (set_cached_ai_result after the warnings).
THEOREM CutsReported == Spec => []CutsAreReported
<1>1. ASSUME ContextIInv PROVE CutsAreReported
  <2> SUFFICES ASSUME report # None, report.ai_insights # None
               PROVE  /\ report.ai_insights.cut \subseteq report.ai_insights.limitations
                      /\ report.ai_insights.cut # {} => "Limitations" \in report.headings
    BY DEF CutsAreReported
  <2>1. /\ report.ai_insights = insights /\ report.headings = MarkdownReport
        /\ insights # None /\ insights.cut \subseteq insights.limitations
    BY <1>1 DEF ContextIInv, InsightsInv, Reported
  <2> QED BY <2>1 DEF MarkdownReport
<1> QED BY <1>1, ContextInvariance, PTL

\* Cached insights are never those of another state of the repository, for any
\* number of deliveries and pushes: the key of each commit, "unknown" included.
THEOREM InsightsOfTheContext == Spec => []InsightsAreOfTheContext
<1>1. ASSUME ContextIInv PROVE InsightsAreOfTheContext
  BY <1>1 DEF ContextIInv, InsightsInv, Describes, InsightsAreOfTheContext
<1> QED BY <1>1, ContextInvariance, PTL
=============================================================================
