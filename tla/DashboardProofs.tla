-------------------------- MODULE DashboardProofs ---------------------------
(***************************************************************************)
(* Proofs about Dashboard, for every set of jobs, every number of handles  *)
(* and every choice of faults: the poll loop and its deadline as long as   *)
(* fetches are fast, the views and what they show as long as no return to  *)
(* the search comes late.                                                  *)
(***************************************************************************)
EXTENDS Dashboard, TLAPS, FiniteSetTheorems

WellFormed(set) == set \subseteq Timers /\ \A t, u \in set : t.id = u.id => t = u

\* What t and u have in common when only the order of timers has changed.
Same(t, u) == t.id = u.id /\ t.kind = u.kind /\ t.answer = u.answer

\* The timers in set are those pending, without the ones in gone.
Remain(set, gone) ==
  /\ \A t \in set : \E u \in timers : u.id \notin gone /\ Same(t, u)
  /\ \A u \in timers : u.id \notin gone => \E t \in set : Same(t, u)

\* A report that waits to be rendered is there.
RenderInv == \A t \in timers : t.kind = "render" => t.answer \in Answers

\* The three handles name the timers there are; a poll that is set or in
\* flight is the only one, for the current job, and has its deadline; while a
\* POST is in flight there is nothing else.
LoopInv ==
  /\ \A t \in timers :
       /\ t.kind = "poll" => t.id = pollTimer /\ ~PollInFlight
       /\ t.kind = "deadline" => t.id = pollDeadline
       /\ t.kind = "static" => t.id = staticTimer
       /\ t.kind = "poll" => \E u \in timers : u.kind = "deadline"
  /\ \A j \in Jobs : getting[j] > 0 =>
       getting[j] = 1 /\ j = currentJobId /\ \E u \in timers : u.kind = "deadline"
  /\ posting \in {0, 1}
  /\ posting = 1 =>
       /\ pollTimer = None /\ pollDeadline = None /\ staticTimer = None
       /\ currentJobId = None /\ ~PollInFlight

\* Where the page is: nothing is pending in the search; a return to the search
\* or a report to be rendered is all that is pending; results that are polled
\* on were shown by the static timer.
PhaseInv ==
  /\ views \in {{"search"}, {"loading"}, {"results"}}
  /\ \A t \in timers : t.kind \in {"pause", "render"} =>
       /\ views = {"loading"} /\ ~PollInFlight
       /\ \A u \in timers : u = t
       /\ t.kind = "render" => t.answer.job = currentJobId
  /\ posting > 0 => views = {"loading"} /\ timers = {}
  /\ views = {"search"} => timers = {} /\ ~PollInFlight
  /\ views = {"loading"} => ~staticShown /\ page.markdown = None
  /\ views = {"results"} =>
       /\ page.meta = currentJobId /\ page.markdown \in {None, page.meta}
       /\ page.meta \in Badged => page.badge = page.meta
       /\ page.summary = "insights" => page.insights = page.meta
       /\ \A t \in timers : t.kind # "static"
       /\ timers # {} \/ PollInFlight => staticShown
  /\ latestPollData # None => latestPollData.job = currentJobId

PageIInv ==
  /\ TypeOK
  /\ RenderInv
  /\ FetchesAreFast => LoopInv
  /\ NoLateReturn => PhaseInv

-----------------------------------------------------------------------------
(* setTimeout and clearTimeout.                                            *)

LEMMA Kinds == DOMAIN Duration = {"render", "poll", "pause", "static", "deadline"}
BY DEF Duration

\* A timer by its fields.
LEMMA TimerType ==
  ASSUME NEW id \in Handles, NEW kind \in DOMAIN Duration, NEW answer \in Answers \cup {None},
         NEW after \in SUBSET Handles
  PROVE  LET t == [id |-> id, kind |-> kind, answer |-> answer, after |-> after]
         IN  t \in Timers /\ t.id = id /\ t.kind = kind /\ t.answer = answer
BY DEF Timers

\* Clearing timers, or their firing, leaves the others.
LEMMA WithoutEffect ==
  ASSUME WellFormed(timers), NEW gone
  PROVE  WellFormed(Without(gone)) /\ Remain(Without(gone), gone)
<1> DEFINE Cut(t) == [t EXCEPT !.after = @ \ gone]
<1>1. Without(gone) = {Cut(t) : t \in {u \in timers : u.id \notin gone}}
  BY DEF Without
<1>2. ASSUME NEW t \in timers PROVE Cut(t) \in Timers /\ Same(Cut(t), t)
  BY DEF WellFormed, Timers, Same
<1> HIDE DEF Cut
<1>3. Remain(Without(gone), gone)
  BY <1>1, <1>2 DEF Remain
<1>4. WellFormed(Without(gone))
  BY <1>1, <1>2 DEF WellFormed, Same
<1> QED BY <1>3, <1>4

\* A handle is fresh as long as there is one.
LEMMA FreshEffect ==
  ASSUME NEW taken, Available(taken)
  PROVE  /\ Fresh(taken) \in Handles \ taken
         /\ Fresh(taken) \notin {pollTimer, pollDeadline, staticTimer}
         /\ Fresh(taken) # None
         /\ \A t \in timers : t.id # Fresh(taken)
<1>1. Fresh(taken) \in FreeHandles \ taken
  BY DEF Available, Fresh
<1> QED BY <1>1, NoneAssumption, MaxTimersAssumption DEF FreeHandles, Handles

\* Setting a timer adds it to the others.
LEMMA StartedEffect ==
  ASSUME NEW set, WellFormed(set), NEW id \in Handles, \A t \in set : t.id # id,
         NEW kind \in DOMAIN Duration, NEW answer \in Answers \cup {None}
  PROVE  /\ WellFormed(Started(set, id, kind, answer))
         /\ \E t : /\ t.id = id /\ t.kind = kind /\ t.answer = answer
                   /\ Started(set, id, kind, answer) = set \cup {t}
<1> DEFINE after == {t.id : t \in {u \in set : Duration[u.kind] <= Duration[kind]}}
           t == [id |-> id, kind |-> kind, answer |-> answer, after |-> after]
<1>1. after \in SUBSET Handles
  BY DEF WellFormed, Timers
<1>2. Started(set, id, kind, answer) = set \cup {t}
  BY DEF Started
<1> HIDE DEF after
<1>3. t \in Timers /\ t.id = id /\ t.kind = kind /\ t.answer = answer
  BY <1>1, TimerType
<1> HIDE DEF t
<1>4. WellFormed(set \cup {t})
  BY <1>3 DEF WellFormed
<1> QED BY <1>2, <1>3, <1>4

\* Some timers are gone, and a new one is set in the same callback.
LEMMA Restarted ==
  ASSUME WellFormed(timers), NEW gone, Available({}),
         NEW kind \in DOMAIN Duration, NEW answer \in Answers \cup {None},
         timers' = Started(Without(gone), Fresh({}), kind, answer)
  PROVE  /\ WellFormed(timers)'
         /\ \E t \in timers' :
              /\ t.id = Fresh({}) /\ t.kind = kind /\ t.answer = answer
              /\ \A u \in timers' : u = t \/ \E v \in timers : v.id \notin gone /\ Same(u, v)
         /\ \A v \in timers : v.id \notin gone => \E u \in timers' : Same(u, v)
<1> DEFINE set == Without(gone)
           id == Fresh({})
<1>1. WellFormed(set) /\ Remain(set, gone)
  BY WithoutEffect
<1>2. id \in Handles /\ \A t \in timers : t.id # id
  BY FreshEffect
<1>3. \A t \in set : t.id # id
  BY <1>1, <1>2 DEF Remain, Same
<1> HIDE DEF set, id
<1>4. timers' = Started(set, id, kind, answer)
  BY DEF set, id
<1>5. PICK t : /\ t.id = id /\ t.kind = kind /\ t.answer = answer
               /\ timers' = set \cup {t}
  BY <1>1, <1>2, <1>3, <1>4, StartedEffect
<1>6. WellFormed(timers)'
  BY <1>1, <1>2, <1>3, <1>4, StartedEffect DEF WellFormed
<1> QED BY <1>1, <1>5, <1>6 DEF Remain, id

\* A timer is set and the others are left alone.
LEMMA Added ==
  ASSUME WellFormed(timers), Available({}),
         NEW kind \in DOMAIN Duration, NEW answer \in Answers \cup {None},
         timers' = Started(timers, Fresh({}), kind, answer)
  PROVE  /\ WellFormed(timers)'
         /\ \E t : /\ t.id = Fresh({}) /\ t.kind = kind /\ t.answer = answer
                   /\ timers' = timers \cup {t}
<1>1. Fresh({}) \in Handles /\ \A t \in timers : t.id # Fresh({})
  BY FreshEffect
<1> DEFINE id == Fresh({})
<1> HIDE DEF id
<1>2. id \in Handles /\ (\A t \in timers : t.id # id) /\ timers' = Started(timers, id, kind, answer)
  BY <1>1 DEF id
<1>3. /\ WellFormed(Started(timers, id, kind, answer))
      /\ \E t : /\ t.id = id /\ t.kind = kind /\ t.answer = answer
                /\ Started(timers, id, kind, answer) = timers \cup {t}
  BY <1>2, StartedEffect
<1> QED BY <1>2, <1>3 DEF id, WellFormed

-----------------------------------------------------------------------------
LEMMA InitHolds == Init => PageIInv
<1> SUFFICES ASSUME Init PROVE PageIInv
  OBVIOUS
<1> USE DEF Init
<1>1. TypeOK
  BY FaultsAssumption DEF TypeOK, Pages, Views
<1>2. RenderInv
  BY DEF RenderInv
<1>3. LoopInv
  BY DEF LoopInv, PollInFlight
<1>4. PhaseInv
  BY DEF PhaseInv, PollInFlight
<1> QED BY <1>1, <1>2, <1>3, <1>4 DEF PageIInv

\* A slow network makes returns late; the faults of a behaviour stay.
LEMMA LateIsSlow == NoLateReturn => FetchesAreFast
BY DEF NoLateReturn, FetchesAreFast

\* A step keeps the invariant when it keeps each part in its circumstances.
LEMMA Closes ==
  ASSUME PageIInv, UNCHANGED faults, TypeOK', RenderInv',
         FetchesAreFast /\ LoopInv => LoopInv',
         NoLateReturn /\ FetchesAreFast /\ LoopInv /\ PhaseInv => PhaseInv'
  PROVE  PageIInv'
BY LateIsSlow DEF PageIInv, FetchesAreFast, NoLateReturn

\* What the reset of submit and of the button leaves pending has no handle.
LEMMA ResetEffect ==
  ASSUME PageIInv, Reset
  PROVE  /\ WellFormed(timers)' /\ RenderInv'
         /\ pollTimer' = None /\ pollDeadline' = None /\ staticTimer' = None
         /\ currentJobId' = None /\ staticShown' = FALSE /\ latestPollData' = None
         /\ LoopInv => \A t \in timers' : t.kind \notin {"poll", "deadline", "static"}
         /\ timers = {} => timers' = {}
         /\ \A t \in timers' : \E u \in timers : Same(t, u)
<1> DEFINE gone == {pollTimer, pollDeadline, staticTimer}
<1>1. WellFormed(timers)
  BY DEF PageIInv, TypeOK, WellFormed
<1>2. timers' = Without(gone)
  BY DEF Reset
<1>3. WellFormed(Without(gone)) /\ Remain(Without(gone), gone)
  BY <1>1, WithoutEffect
<1>4. Remain(timers', gone) /\ WellFormed(timers)'
  BY <1>2, <1>3 DEF WellFormed
<1>5. RenderInv'
  BY <1>4 DEF Remain, Same, RenderInv, PageIInv
<1>6. LoopInv => \A t \in timers' : t.kind \notin {"poll", "deadline", "static"}
  BY <1>4 DEF Remain, Same, LoopInv
<1>7. \A t \in timers' : \E u \in timers : Same(t, u)
  BY <1>4 DEF Remain
<1> QED BY <1>4, <1>5, <1>6, <1>7 DEF Reset

\* The fields of a page that a callback sets.
LEMMA ClearedType ==
  ASSUME PageIInv
  PROVE  /\ MarkdownCleared \in Pages /\ [MarkdownCleared EXCEPT !.banner = FALSE] \in Pages
         /\ MarkdownCleared.markdown = None
BY DEF PageIInv, TypeOK, MarkdownCleared, Pages

\* The variables other than timers, views and page have their types.
GlobalsOK ==
  /\ posting \in Nat /\ getting \in [Jobs -> Nat]
  /\ server \in [Jobs -> {"none", "working", "completed", "fallback", "failed"}]
  /\ currentJobId \in Jobs \cup {None}
  /\ pollTimer \in Handles \cup {None}
  /\ pollDeadline \in Handles \cup {None}
  /\ staticTimer \in Handles \cup {None}
  /\ staticShown \in BOOLEAN
  /\ latestPollData \in Answers \cup {None}

LEMMA TypesApart ==
  TypeOK <=> faults \in FaultSets /\ GlobalsOK /\ WellFormed(timers)
               /\ views \subseteq Views /\ page \in Pages
BY DEF TypeOK, GlobalsOK, WellFormed

LEMMA TypesClose ==
  ASSUME PageIInv, UNCHANGED faults, GlobalsOK', WellFormed(timers)',
         views' \subseteq Views, page' \in Pages
  PROVE  TypeOK'
BY TypesApart DEF PageIInv, TypeOK, GlobalsOK, WellFormed

LEMMA SubmitStep ==
  ASSUME PageIInv, Submit
  PROVE  PageIInv'
<1>1. /\ "search" \in views /\ Reset /\ page' = MarkdownCleared /\ views' = {"loading"}
      /\ posting' = posting + 1 /\ UNCHANGED <<faults, server, getting>>
  BY DEF Submit
<1>2. TypeOK'
  <2>0. posting' \in Nat
    BY <1>1 DEF PageIInv, TypeOK
  <2>1. GlobalsOK'
    BY <1>1, <2>0, ResetEffect, TypesApart DEF PageIInv, GlobalsOK
  <2>2. views' \subseteq Views
    BY <1>1 DEF PageIInv, TypeOK, Views
  <2> QED BY <1>1, <2>1, <2>2, ResetEffect, ClearedType, TypesClose
<1>3. FetchesAreFast /\ LoopInv => LoopInv'
  <2> SUFFICES ASSUME FetchesAreFast, LoopInv PROVE LoopInv'
    OBVIOUS
  <2>1. ~PollInFlight /\ posting = 0
    BY DEF Submit, Prompt, FetchesAreFast
  <2>2. ~PollInFlight'
    BY <1>1, <2>1 DEF PollInFlight
  <2>3. \A t \in timers' : t.kind \notin {"poll", "deadline", "static"}
    BY <1>1, ResetEffect
  <2>4. \A j \in Jobs : ~(getting'[j] > 0)
    BY <2>2 DEF PollInFlight
  <2> QED BY <1>1, <2>1, <2>2, <2>3, <2>4, ResetEffect DEF LoopInv
<1>4. NoLateReturn /\ FetchesAreFast /\ LoopInv /\ PhaseInv => PhaseInv'
  <2> SUFFICES ASSUME PhaseInv PROVE PhaseInv'
    OBVIOUS
  <2>1. timers = {}
    BY <1>1 DEF PhaseInv
  <2>2. timers' = {}
    BY <1>1, <2>1, ResetEffect
  <2>3. page'.markdown = None
    BY <1>1, ClearedType
  <2> QED BY <1>1, <2>2, <2>3, ResetEffect DEF PhaseInv
<1> QED BY <1>1, <1>2, <1>3, <1>4, ResetEffect, Closes

LEMMA NewAnalysisStep ==
  ASSUME PageIInv, NewAnalysis
  PROVE  PageIInv'
<1>1. /\ "results" \in views /\ Reset /\ page' = [MarkdownCleared EXCEPT !.banner = FALSE]
      /\ views' = (views \ {"results"}) \cup {"search"}
      /\ UNCHANGED <<faults, server, posting, getting>>
  BY DEF NewAnalysis
<1>2. TypeOK'
  <2>1. GlobalsOK'
    BY <1>1, ResetEffect, TypesApart DEF PageIInv, GlobalsOK
  <2>2. views' \subseteq Views
    BY <1>1 DEF PageIInv, TypeOK, Views
  <2> QED BY <1>1, <2>1, <2>2, ResetEffect, ClearedType, TypesClose
<1>3. FetchesAreFast /\ LoopInv => LoopInv' /\ ~PollInFlight' /\ posting = 0
  <2> SUFFICES ASSUME FetchesAreFast, LoopInv PROVE LoopInv' /\ ~PollInFlight' /\ posting = 0
    OBVIOUS
  <2>1. ~PollInFlight /\ posting = 0
    BY DEF NewAnalysis, Prompt, FetchesAreFast
  <2>2. ~PollInFlight'
    BY <1>1, <2>1 DEF PollInFlight
  <2>3. \A t \in timers' : t.kind \notin {"poll", "deadline", "static"}
    BY <1>1, ResetEffect
  <2>4. \A j \in Jobs : ~(getting'[j] > 0)
    BY <2>2 DEF PollInFlight
  <2> QED BY <1>1, <2>1, <2>2, <2>3, <2>4, ResetEffect DEF LoopInv
<1>4. NoLateReturn /\ FetchesAreFast /\ LoopInv /\ PhaseInv => PhaseInv'
  <2> SUFFICES ASSUME FetchesAreFast, LoopInv, PhaseInv PROVE PhaseInv'
    OBVIOUS
  <2>1. views = {"results"}
    BY <1>1 DEF PhaseInv
  <2>2. \A t \in timers' : t.kind \notin {"poll", "deadline", "static"}
    BY <1>1, ResetEffect
  <2>3. \A t \in timers' : t.kind \notin {"pause", "render"}
    BY <1>1, <2>1, ResetEffect DEF PhaseInv, Same
  <2>4. timers' = {}
    BY <1>1, <2>2, <2>3, Kinds, ResetEffect DEF WellFormed, Timers
  <2>5. views' = {"search"}
    BY <1>1, <2>1
  <2> QED BY <1>1, <1>3, <2>4, <2>5, ResetEffect DEF PhaseInv
<1> QED BY <1>1, <1>2, <1>3, <1>4, ResetEffect, Closes

-----------------------------------------------------------------------------
(* The answer to the POST.                                                 *)

\* While a POST is in flight no timer has one of the three handles.
LEMMA PostingAlone ==
  ASSUME PageIInv, LoopInv, posting > 0
  PROVE  /\ posting = 1 /\ ~PollInFlight
         /\ \A t \in timers : t.kind \notin {"poll", "deadline", "static"}
<1>1. \A t \in timers : t.id # None
  BY NoneAssumption, MaxTimersAssumption DEF PageIInv, TypeOK, Timers, Handles
<1> QED BY <1>1 DEF LoopInv

\* The three timers of a job are set at once.
LEMMA ThreeAdded ==
  ASSUME PageIInv, NEW j \in Jobs, PostAccepted(j)
  PROVE  /\ WellFormed(timers)'
         /\ {pollTimer, pollDeadline, staticTimer}' \subseteq Handles
         /\ \E t, u, v :
              /\ timers' = timers \cup {t, u, v}
              /\ t.id = pollTimer' /\ t.kind = "poll"
              /\ u.id = staticTimer' /\ u.kind = "static"
              /\ v.id = pollDeadline' /\ v.kind = "deadline"
<1> DEFINE poll == Fresh({})
           static == Fresh({poll})
           deadline == Fresh({poll, static})
           one == Started(timers, poll, "poll", None)
           two == Started(one, static, "static", None)
<1>1. Available({}) /\ Available({poll}) /\ Available({poll, static})
  BY DEF PostAccepted, Available
<1>2. /\ poll \in Handles /\ static \in Handles \ {poll} /\ deadline \in Handles \ {poll, static}
      /\ \A t \in timers : t.id # poll /\ t.id # static /\ t.id # deadline
  BY <1>1, FreshEffect
<1>3. /\ pollTimer' = poll /\ staticTimer' = static /\ pollDeadline' = deadline
      /\ timers' = Started(two, deadline, "deadline", None)
  BY DEF PostAccepted
<1>4. WellFormed(timers) /\ None \in Answers \cup {None}
  BY DEF PageIInv, TypeOK, WellFormed
<1>3a. {"poll", "static", "deadline"} \subseteq DOMAIN Duration
  BY Kinds
<1> HIDE DEF poll, static, deadline
<1>3b. poll \in Handles /\ static \in Handles /\ deadline \in Handles
  BY <1>2
<1>5. WellFormed(one) /\ \E t : t.id = poll /\ t.kind = "poll" /\ one = timers \cup {t}
  BY <1>2, <1>4, <1>3b, <1>3a, StartedEffect
<1>6. PICK t : t.id = poll /\ t.kind = "poll" /\ one = timers \cup {t}
  BY <1>5
<1> HIDE DEF one
<1>7. \A u \in one : u.id # static
  BY <1>2, <1>6
<1>8. WellFormed(two) /\ \E u : u.id = static /\ u.kind = "static" /\ two = one \cup {u}
  <2>1. WellFormed(one) /\ static \in Handles /\ "static" \in DOMAIN Duration
        /\ None \in Answers \cup {None}
    BY <1>4, <1>5, <1>3b, <1>3a
  <2> QED BY <1>7, <2>1, StartedEffect
<1>9. PICK u : u.id = static /\ u.kind = "static" /\ two = one \cup {u}
  BY <1>8
<1> HIDE DEF two
<1>10. \A v \in two : v.id # deadline
  BY <1>2, <1>6, <1>9
<1> DEFINE three == Started(two, deadline, "deadline", None)
<1>11. WellFormed(three) /\ \E v : v.id = deadline /\ v.kind = "deadline" /\ three = two \cup {v}
  <2>1. WellFormed(two) /\ deadline \in Handles /\ "deadline" \in DOMAIN Duration
        /\ None \in Answers \cup {None}
    BY <1>4, <1>8, <1>3b, <1>3a
  <2> QED BY <1>10, <2>1, StartedEffect
<1> HIDE DEF three
<1>12. PICK v : v.id = deadline /\ v.kind = "deadline" /\ three = two \cup {v}
  BY <1>11
<1>13. timers' = three
  BY <1>3 DEF three
<1>14. timers' = timers \cup {t, u, v}
  BY <1>6, <1>9, <1>12, <1>13
<1>15. WellFormed(timers)'
  BY <1>11, <1>13 DEF WellFormed
<1> QED BY <1>2, <1>3, <1>6, <1>9, <1>12, <1>14, <1>15

LEMMA PostAcceptedStep ==
  ASSUME PageIInv, NEW j \in Jobs, PostAccepted(j)
  PROVE  PageIInv'
<1>1. /\ posting > 0 /\ posting' = posting - 1 /\ currentJobId' = j
      /\ staticShown' = FALSE /\ latestPollData' = None
      /\ server' = [server EXCEPT ![j] = "working"]
      /\ UNCHANGED <<faults, getting, views, page>>
  BY DEF PostAccepted
<1>2. PICK t, u, v :
        /\ timers' = timers \cup {t, u, v}
        /\ t.id = pollTimer' /\ t.kind = "poll"
        /\ u.id = staticTimer' /\ u.kind = "static"
        /\ v.id = pollDeadline' /\ v.kind = "deadline"
  BY ThreeAdded
<1>3. TypeOK'
  <2>0. posting' \in Nat
    BY <1>1 DEF PageIInv, TypeOK
  <2>1. GlobalsOK'
    BY <1>1, <2>0, ThreeAdded, TypesApart DEF PageIInv, GlobalsOK
  <2> QED BY <1>1, <2>1, ThreeAdded, TypesClose DEF PageIInv, TypeOK
<1>4. RenderInv'
  BY <1>2 DEF RenderInv, PageIInv
<1>5. FetchesAreFast /\ LoopInv => LoopInv'
  <2> SUFFICES ASSUME LoopInv PROVE LoopInv'
    OBVIOUS
  <2>1. posting' = 0 /\ ~PollInFlight /\ \A x \in timers : x.kind \notin {"poll", "deadline", "static"}
    BY <1>1, PostingAlone
  <2>2. ~PollInFlight' /\ \A i \in Jobs : ~(getting'[i] > 0)
    BY <1>1, <2>1 DEF PollInFlight
  <2> QED BY <1>2, <2>1, <2>2 DEF LoopInv
<1>6. NoLateReturn /\ FetchesAreFast /\ LoopInv /\ PhaseInv => PhaseInv'
  <2> SUFFICES ASSUME LoopInv, PhaseInv PROVE PhaseInv'
    OBVIOUS
  <2>1. views = {"loading"} /\ timers = {} /\ posting' = 0
    BY <1>1, PostingAlone DEF PhaseInv
  <2>2. \A x \in timers' : x.kind \notin {"pause", "render"}
    BY <1>2, <2>1
  <2> QED BY <1>1, <2>1, <2>2 DEF PhaseInv
<1> QED BY <1>1, <1>3, <1>4, <1>5, <1>6, Closes

\* A return to the search is set when the timers in gone are cleared or fired.
LEMMA ReturnEffect ==
  ASSUME PageIInv, NEW gone, ReturnToSearch(gone)
  PROVE  /\ WellFormed(timers)' /\ RenderInv'
         /\ \E t \in timers' :
              /\ t.kind = "pause"
              /\ \A u \in timers' : u = t \/ \E v \in timers : v.id \notin gone /\ Same(u, v)
         /\ \A v \in timers : v.id \notin gone => \E u \in timers' : Same(u, v)
<1>1. WellFormed(timers) /\ None \in Answers \cup {None}
  BY DEF PageIInv, TypeOK, WellFormed
<1>2. Available({}) /\ timers' = Started(Without(gone), Fresh({}), "pause", None)
  BY DEF ReturnToSearch
<1>3. /\ WellFormed(timers)'
      /\ \E t \in timers' :
           /\ t.id = Fresh({}) /\ t.kind = "pause" /\ t.answer = None
           /\ \A u \in timers' : u = t \/ \E v \in timers : v.id \notin gone /\ Same(u, v)
      /\ \A v \in timers : v.id \notin gone => \E u \in timers' : Same(u, v)
  BY <1>1, <1>2, Kinds, Restarted
<1>4. RenderInv'
  BY <1>3 DEF RenderInv, PageIInv, Same
<1> QED BY <1>3, <1>4

LEMMA PostRefusedStep ==
  ASSUME PageIInv, PostRefused
  PROVE  PageIInv'
<1>1. /\ posting > 0 /\ posting' = posting - 1 /\ ReturnToSearch({})
      /\ UNCHANGED <<faults, server, getting, currentJobId, pollTimer, pollDeadline,
                     staticTimer, staticShown, latestPollData, views, page>>
  BY DEF PostRefused
<1>2. PICK t \in timers' :
        t.kind = "pause" /\ \A u \in timers' : u = t \/ \E v \in timers : Same(u, v)
  BY <1>1, ReturnEffect
<1>3. TypeOK'
  <2>0. posting' \in Nat
    BY <1>1 DEF PageIInv, TypeOK
  <2>1. GlobalsOK'
    BY <1>1, <2>0, TypesApart DEF PageIInv, GlobalsOK
  <2> QED BY <1>1, <2>1, ReturnEffect, TypesClose DEF PageIInv, TypeOK
<1>4. FetchesAreFast /\ LoopInv => LoopInv'
  <2> SUFFICES ASSUME LoopInv PROVE LoopInv'
    OBVIOUS
  <2>1. posting' = 0 /\ ~PollInFlight /\ \A x \in timers : x.kind \notin {"poll", "deadline", "static"}
    BY <1>1, PostingAlone
  <2>2. ~PollInFlight' /\ \A i \in Jobs : ~(getting'[i] > 0)
    BY <1>1, <2>1 DEF PollInFlight
  <2>3. \A x \in timers' : x.kind \notin {"poll", "deadline", "static"}
    BY <1>2, <2>1 DEF Same
  <2> QED BY <2>1, <2>2, <2>3 DEF LoopInv
<1>5. NoLateReturn /\ FetchesAreFast /\ LoopInv /\ PhaseInv => PhaseInv'
  <2> SUFFICES ASSUME LoopInv, PhaseInv PROVE PhaseInv'
    OBVIOUS
  <2>1. views = {"loading"} /\ timers = {} /\ posting' = 0 /\ ~PollInFlight
    BY <1>1, PostingAlone DEF PhaseInv
  <2>2. \A u \in timers' : u = t
    BY <1>2, <2>1
  <2>3. ~PollInFlight'
    BY <1>1, <2>1 DEF PollInFlight
  <2> QED BY <1>1, <1>2, <2>1, <2>2, <2>3 DEF PhaseInv
<1> QED BY <1>1, <1>3, <1>4, <1>5, ReturnEffect, Closes

-----------------------------------------------------------------------------
(* The answer to a GET.                                                    *)

\* The GET that is answered is the one of the current job, and the last one.
LEMMA AnsweredEffect ==
  ASSUME PageIInv, NEW j \in Jobs, Answered(j)
  PROVE  /\ getting' \in [Jobs -> Nat] /\ PollInFlight
         /\ LoopInv => /\ ~PollInFlight' /\ \A i \in Jobs : ~(getting'[i] > 0)
                       /\ j = currentJobId /\ posting = 0
                       /\ \A t \in timers : t.kind # "poll"
                       /\ \E u \in timers : u.kind = "deadline"
<1>1. getting \in [Jobs -> Nat] /\ getting[j] > 0 /\ getting' = [getting EXCEPT ![j] = @ - 1]
  BY DEF PageIInv, TypeOK, Answered
<1>2. PollInFlight
  BY <1>1 DEF PollInFlight
<1>3. LoopInv => /\ j = currentJobId /\ posting = 0
                 /\ \A t \in timers : t.kind # "poll"
                 /\ \E u \in timers : u.kind = "deadline"
  BY <1>1, <1>2 DEF LoopInv
<1>4. LoopInv => \A i \in Jobs : ~(getting'[i] > 0)
  BY <1>1 DEF LoopInv
<1>5. getting' \in [Jobs -> Nat]
  BY <1>1
<1> QED BY <1>2, <1>3, <1>4, <1>5 DEF PollInFlight

\* schedulePoll after an answer: the new poll is the only one.
LEMMA PolledOn ==
  ASSUME PageIInv, NEW j \in Jobs, Answered(j), SchedulePoll,
         latestPollData' \in Answers \cup {None},
         latestPollData' = latestPollData \/ latestPollData'.job = j,
         UNCHANGED <<faults, server, posting, currentJobId, pollDeadline, staticTimer,
                     staticShown, views, page>>
  PROVE  PageIInv'
<1>1. /\ Available({}) /\ pollTimer' = Fresh({})
      /\ timers' = Started(timers, Fresh({}), "poll", None)
  BY DEF SchedulePoll
<1>2. WellFormed(timers) /\ None \in Answers \cup {None}
  BY DEF PageIInv, TypeOK, WellFormed
<1>3. /\ WellFormed(timers)'
      /\ \E t : /\ t.id = Fresh({}) /\ t.kind = "poll" /\ t.answer = None
                /\ timers' = timers \cup {t}
  BY <1>1, <1>2, Kinds, Added
<1>4. PICK t : t.id = pollTimer' /\ t.kind = "poll" /\ timers' = timers \cup {t}
  BY <1>1, <1>3
<1>5. pollTimer' \in Handles
  BY <1>1, FreshEffect
<1>6. TypeOK'
  <2>1. GlobalsOK'
    BY <1>5, AnsweredEffect, TypesApart DEF PageIInv, GlobalsOK
  <2> QED BY <1>3, <2>1, TypesClose DEF PageIInv, TypeOK
<1>7. RenderInv'
  BY <1>4 DEF RenderInv, PageIInv
<1>8. FetchesAreFast /\ LoopInv => LoopInv'
  BY <1>4, AnsweredEffect DEF LoopInv
<1>9. NoLateReturn /\ FetchesAreFast /\ LoopInv /\ PhaseInv => PhaseInv'
  <2> SUFFICES ASSUME LoopInv, PhaseInv PROVE PhaseInv'
    OBVIOUS
  <2>1. /\ PollInFlight /\ ~PollInFlight' /\ j = currentJobId /\ posting = 0
    BY AnsweredEffect
  <2>2. \A x \in timers' : x.kind \notin {"pause", "render"}
    BY <1>4, <2>1 DEF PhaseInv
  <2>3. views = {"loading"} \/ (views = {"results"} /\ staticShown)
    BY <2>1 DEF PhaseInv
  <2>4. views = {"results"} => \A x \in timers' : x.kind # "static"
    BY <1>4 DEF PhaseInv
  <2>5. latestPollData' # None => latestPollData'.job = currentJobId
    BY <2>1 DEF PhaseInv
  <2> QED BY <2>1, <2>2, <2>3, <2>4, <2>5 DEF PhaseInv
<1> QED BY <1>6, <1>7, <1>8, <1>9, Closes

LEMMA PollWorkingStep ==
  ASSUME PageIInv, NEW j \in Jobs, PollWorking(j)
  PROVE  PageIInv'
<1> DEFINE answer == [job |-> j, status |-> "working", insights |-> FALSE]
<1>1. answer \in Answers /\ answer.job = j
  BY DEF Answers
<1>2. latestPollData' = answer
  BY DEF PollWorking
<1> HIDE DEF answer
<1> QED BY <1>1, <1>2, PolledOn DEF PollWorking

LEMMA PollThrowsStep ==
  ASSUME PageIInv, NEW j \in Jobs, PollThrows(j)
  PROVE  PageIInv'
BY PolledOn DEF PollThrows, PageIInv, TypeOK

\* A problem: the return to the search is set, and only with "error".
LEMMA PollRefusedStep ==
  ASSUME PageIInv, NEW j \in Jobs, PollRefused(j)
  PROVE  PageIInv'
<1> DEFINE set == Started(timers, Fresh({}), "pause", None)
           Later(t) == IF t.id = Fresh({}) /\ j = currentJobId
                       THEN [t EXCEPT !.after = @ \cup {u.id : u \in Pending("static")}] ELSE t
<1>1. /\ "error" \in faults /\ Answered(j) /\ Available({})
      /\ timers' = {Later(t) : t \in set}
      /\ UNCHANGED <<faults, server, posting, currentJobId, pollTimer, pollDeadline, staticTimer,
                     staticShown, latestPollData, views, page>>
  BY DEF PollRefused
<1>2. WellFormed(timers) /\ None \in Answers \cup {None}
  BY DEF PageIInv, TypeOK, WellFormed
<1>3. Fresh({}) \in Handles /\ \A u \in timers : u.id # Fresh({})
  BY <1>1, FreshEffect
<1>4. /\ WellFormed(set)
      /\ \E t : /\ t.id = Fresh({}) /\ t.kind = "pause" /\ t.answer = None
                /\ set = timers \cup {t}
  BY <1>2, <1>3, Kinds, StartedEffect
<1>5. {u.id : u \in Pending("static")} \subseteq Handles
  BY <1>2 DEF WellFormed, Timers, Pending
<1> HIDE DEF set
<1>6. ASSUME NEW t \in set PROVE Later(t) \in Timers /\ Same(Later(t), t)
  <2>1. t \in Timers
    BY <1>4 DEF WellFormed
  <2> QED BY <1>5, <2>1 DEF Timers, Same
<1> HIDE DEF Later
<1>7. /\ WellFormed(timers)'
      /\ \A t \in timers' : \E u \in set : Same(t, u)
      /\ \A u \in set : \E t \in timers' : Same(t, u)
  <2>1. timers' \subseteq Timers /\ \A u \in set : \E t \in timers' : Same(t, u)
    BY <1>1, <1>6
  <2>2. \A t, u \in timers' : t.id = u.id => t = u
    BY <1>1, <1>4, <1>6 DEF WellFormed, Same
  <2> QED BY <1>1, <1>6, <2>1, <2>2 DEF WellFormed
<1>8. PICK p : p.kind = "pause" /\ set = timers \cup {p}
  BY <1>4
<1>9. TypeOK'
  <2>1. GlobalsOK'
    BY <1>1, AnsweredEffect, TypesApart DEF PageIInv, GlobalsOK
  <2> QED BY <1>1, <1>7, <2>1, TypesClose DEF PageIInv, TypeOK
<1>10. RenderInv'
  BY <1>7, <1>8 DEF RenderInv, PageIInv, Same
<1>11. FetchesAreFast /\ LoopInv => LoopInv'
  <2> SUFFICES ASSUME LoopInv PROVE LoopInv'
    OBVIOUS
  <2>1. \A t \in timers' : t.kind = "pause" \/ \E u \in timers : Same(t, u)
    BY <1>7, <1>8 DEF Same
  <2>2. posting = 0 /\ (\A u \in timers : u.kind # "poll") /\ (\A i \in Jobs : ~(getting'[i] > 0))
    BY <1>1, AnsweredEffect
  <2> QED BY <1>1, <2>1, <2>2 DEF LoopInv, Same
<1>12. ~NoLateReturn
  BY <1>1 DEF NoLateReturn
<1> QED BY <1>1, <1>9, <1>10, <1>11, <1>12, Closes

\* A final answer clears the deadline and the static timer: no handle is left.
LEMMA PollEnds ==
  ASSUME PageIInv, LoopInv, NEW j \in Jobs, Answered(j),
         pollDeadline' = None, staticTimer' = None, UNCHANGED <<posting, currentJobId>>,
         \A u \in timers' : u.kind \in {"pause", "render"} \/
           \E v \in timers : v.id \notin {pollDeadline, staticTimer} /\ Same(u, v)
  PROVE  LoopInv' /\ \A u \in timers' : u.kind \notin {"poll", "deadline", "static"}
<1>1. ~PollInFlight' /\ (\A i \in Jobs : ~(getting'[i] > 0)) /\ posting = 0
      /\ \A t \in timers : t.kind # "poll"
  BY AnsweredEffect
<1>2. \A u \in timers' : u.kind \notin {"poll", "deadline", "static"}
  BY <1>1 DEF LoopInv, Same
<1> QED BY <1>1, <1>2 DEF LoopInv

\* Until then the page is in the terminal, or shows what the static timer did.
LEMMA PolledView ==
  ASSUME PhaseInv, LoopInv, PollInFlight
  PROVE  /\ views = IF staticShown THEN {"results"} ELSE {"loading"}
         /\ \A t \in timers : t.kind \notin {"pause", "render"}
BY DEF PhaseInv

LEMMA PollCompletedStep ==
  ASSUME PageIInv, NEW j \in Jobs, PollCompleted(j)
  PROVE  PageIInv'
<1> DEFINE answer == [job |-> j, status |-> "completed", insights |-> server[j] = "completed"]
           gone == {pollDeadline, staticTimer}
           rest == Without(gone)
<1>1. /\ Answered(j) /\ latestPollData' = answer /\ pollDeadline' = None /\ staticTimer' = None
      /\ UNCHANGED <<faults, server, posting, currentJobId, pollTimer, staticShown, views>>
  BY DEF PollCompleted
<1>2. \/ staticShown /\ page' = Patched(answer) /\ timers' = rest
      \/ /\ ~staticShown /\ Available({}) /\ page' = page
         /\ timers' = Started(rest, Fresh({}), "render", answer)
  BY DEF PollCompleted
<1>3. answer \in Answers /\ answer.job = j
  BY DEF Answers
<1>4. WellFormed(timers)
  BY DEF PageIInv, TypeOK, WellFormed
<1>5. /\ Patched(answer) \in Pages /\ Patched(answer).meta = page.meta
      /\ Patched(answer).markdown \in {page.markdown, j}
      /\ Patched(answer).badge = page.badge
      /\ Patched(answer).summary = "insights" => Patched(answer).insights = j
  <2>1. page \in Pages
    BY DEF PageIInv, TypeOK
  <2>2. /\ Summary(answer) \in {"insights", "unavailable"}
        /\ Summary(answer) = "insights" => answer.insights
    BY DEF Summary
  <2> HIDE DEF answer
  <2>3. answer.insights \in BOOLEAN
    BY <1>3 DEF Answers
  <2> QED BY <1>3, <2>1, <2>2, <2>3 DEF Patched, Pages
<1> HIDE DEF answer, rest
<1>6. CASE staticShown
  <2>1. page' = Patched(answer) /\ timers' = rest
    BY <1>2, <1>6
  <2>2. WellFormed(timers)' /\ Remain(timers', gone)
    BY <1>4, <2>1, WithoutEffect DEF rest, WellFormed
  <2>3. TypeOK'
    <3>1. GlobalsOK'
      BY <1>1, <1>3, AnsweredEffect, TypesApart DEF PageIInv, GlobalsOK
    <3> QED BY <1>1, <1>5, <2>1, <2>2, <3>1, TypesClose DEF PageIInv, TypeOK
  <2>4. RenderInv'
    BY <2>2 DEF RenderInv, PageIInv, Remain, Same
  <2>5. \A u \in timers' : \E v \in timers : v.id \notin gone /\ Same(u, v)
    BY <2>2 DEF Remain
  <2>6. LoopInv => LoopInv' /\ \A u \in timers' : u.kind \notin {"poll", "deadline", "static"}
    BY <1>1, <2>5, PollEnds
  <2>7. LoopInv /\ PhaseInv => PhaseInv'
    <3> SUFFICES ASSUME LoopInv, PhaseInv PROVE PhaseInv'
      OBVIOUS
    <3>1. /\ PollInFlight /\ ~PollInFlight' /\ j = currentJobId /\ posting = 0
      BY <1>1, AnsweredEffect
    <3>2. views = {"results"} /\ \A t \in timers : t.kind \notin {"pause", "render"}
      BY <1>6, <3>1, PolledView
    <3>3. \A t \in timers' : t.kind \notin {"pause", "render"}
      BY <2>5, <3>2 DEF Same
    <3>4. /\ page'.meta = currentJobId /\ page'.markdown \in {None, page'.meta}
          /\ page'.meta \in Badged => page'.badge = page'.meta
          /\ page'.summary = "insights" => page'.insights = page'.meta
      BY <1>5, <2>1, <3>1, <3>2 DEF PhaseInv
    <3>5. latestPollData'.job = currentJobId
      BY <1>1, <1>3, <3>1
    <3> QED BY <1>1, <1>6, <2>6, <3>1, <3>2, <3>3, <3>4, <3>5 DEF PhaseInv
  <2> QED BY <1>1, <2>3, <2>4, <2>6, <2>7, Closes
<1>7. CASE ~staticShown
  <2>1. page' = page /\ Available({}) /\ timers' = Started(rest, Fresh({}), "render", answer)
    BY <1>2, <1>7
  <2>2. answer \in Answers \cup {None} /\ "render" \in DOMAIN Duration
    BY <1>3, Kinds
  <2>3. /\ WellFormed(timers)'
        /\ \E t \in timers' :
             /\ t.id = Fresh({}) /\ t.kind = "render" /\ t.answer = answer
             /\ \A u \in timers' : u = t \/ \E v \in timers : v.id \notin gone /\ Same(u, v)
    BY <1>4, <2>1, <2>2, Restarted DEF rest
  <2>4. PICK t \in timers' :
          /\ t.kind = "render" /\ t.answer = answer
          /\ \A u \in timers' : u = t \/ \E v \in timers : v.id \notin gone /\ Same(u, v)
    BY <2>3
  <2>5. TypeOK'
    <3>1. GlobalsOK'
      BY <1>1, <1>3, AnsweredEffect, TypesApart DEF PageIInv, GlobalsOK
    <3> QED BY <1>1, <2>1, <2>3, <3>1, TypesClose DEF PageIInv, TypeOK
  <2>6. RenderInv'
    BY <1>3, <2>4 DEF RenderInv, PageIInv, Same
  <2>7. LoopInv => LoopInv' /\ \A u \in timers' : u.kind \notin {"poll", "deadline", "static"}
    BY <1>1, <2>4, PollEnds
  <2>8. LoopInv /\ PhaseInv => PhaseInv'
    <3> SUFFICES ASSUME LoopInv, PhaseInv PROVE PhaseInv'
      OBVIOUS
    <3>1. /\ PollInFlight /\ ~PollInFlight' /\ j = currentJobId /\ posting = 0
      BY <1>1, AnsweredEffect
    <3>2. views = {"loading"} /\ \A u \in timers : u.kind \notin {"pause", "render"}
      BY <1>7, <3>1, PolledView
    <3>3. \A u \in timers' : u.kind \in {"pause", "render"} => u = t
      BY <2>4, <3>2 DEF Same
    <3>4. \A u \in timers' : u = t
      BY <2>3, <2>7, <3>3, Kinds DEF WellFormed, Timers
    <3>5. latestPollData'.job = currentJobId /\ t.answer.job = currentJobId
      BY <1>1, <1>3, <2>4, <3>1
    <3>6. page.markdown = None
      BY <3>2 DEF PhaseInv
    <3> QED BY <1>1, <1>7, <2>1, <2>4, <3>1, <3>2, <3>4, <3>5, <3>6 DEF PhaseInv
  <2> QED BY <1>1, <2>5, <2>6, <2>7, <2>8, Closes
<1> QED BY <1>6, <1>7

LEMMA PollFailedStep ==
  ASSUME PageIInv, NEW j \in Jobs, PollFailed(j)
  PROVE  PageIInv'
<1> DEFINE answer == [job |-> j, status |-> "failed", insights |-> FALSE]
           told == [page EXCEPT !.banner = FALSE, !.summary = "failed"]
           gone == {pollDeadline, staticTimer}
<1>1. /\ Answered(j) /\ latestPollData' = answer /\ pollDeadline' = None /\ staticTimer' = None
      /\ UNCHANGED <<faults, server, posting, currentJobId, pollTimer, staticShown, views>>
  BY DEF PollFailed
<1>2. \/ staticShown /\ page' = told /\ timers' = Without(gone)
      \/ ~staticShown /\ page' = page /\ ReturnToSearch(gone)
  BY DEF PollFailed
<1>3. answer \in Answers /\ answer.job = j
  BY DEF Answers
<1>4. WellFormed(timers)
  BY DEF PageIInv, TypeOK, WellFormed
<1>5. /\ told \in Pages /\ told.meta = page.meta /\ told.markdown = page.markdown
      /\ told.badge = page.badge /\ told.summary = "failed"
  BY DEF PageIInv, TypeOK, Pages
<1> HIDE DEF answer, told
<1>6. CASE staticShown
  <2>1. page' = told /\ timers' = Without(gone)
    BY <1>2, <1>6
  <2>2. WellFormed(timers)' /\ Remain(timers', gone)
    BY <1>4, <2>1, WithoutEffect DEF WellFormed
  <2>3. TypeOK'
    <3>1. GlobalsOK'
      BY <1>1, <1>3, AnsweredEffect, TypesApart DEF PageIInv, GlobalsOK
    <3> QED BY <1>1, <1>5, <2>1, <2>2, <3>1, TypesClose DEF PageIInv, TypeOK
  <2>4. RenderInv'
    BY <2>2 DEF RenderInv, PageIInv, Remain, Same
  <2>5. \A u \in timers' : \E v \in timers : v.id \notin gone /\ Same(u, v)
    BY <2>2 DEF Remain
  <2>6. LoopInv => LoopInv' /\ \A u \in timers' : u.kind \notin {"poll", "deadline", "static"}
    BY <1>1, <2>5, PollEnds
  <2>7. LoopInv /\ PhaseInv => PhaseInv'
    <3> SUFFICES ASSUME LoopInv, PhaseInv PROVE PhaseInv'
      OBVIOUS
    <3>1. /\ PollInFlight /\ ~PollInFlight' /\ j = currentJobId /\ posting = 0
      BY <1>1, AnsweredEffect
    <3>2. views = {"results"} /\ \A t \in timers : t.kind \notin {"pause", "render"}
      BY <1>6, <3>1, PolledView
    <3>3. \A t \in timers' : t.kind \notin {"pause", "render"}
      BY <2>5, <3>2 DEF Same
    <3>4. /\ page'.meta = currentJobId /\ page'.markdown \in {None, page'.meta}
          /\ page'.meta \in Badged => page'.badge = page'.meta
          /\ page'.summary = "insights" => page'.insights = page'.meta
      BY <1>5, <2>1, <3>1, <3>2 DEF PhaseInv
    <3>5. latestPollData'.job = currentJobId
      BY <1>1, <1>3, <3>1
    <3> QED BY <1>1, <1>6, <2>6, <3>1, <3>2, <3>3, <3>4, <3>5 DEF PhaseInv
  <2> QED BY <1>1, <2>3, <2>4, <2>6, <2>7, Closes
<1>7. CASE ~staticShown
  <2>1. page' = page /\ ReturnToSearch(gone)
    BY <1>2, <1>7
  <2>2. PICK t \in timers' :
          /\ t.kind = "pause"
          /\ \A u \in timers' : u = t \/ \E v \in timers : v.id \notin gone /\ Same(u, v)
    BY <2>1, ReturnEffect
  <2>3. TypeOK'
    <3>1. GlobalsOK'
      BY <1>1, <1>3, AnsweredEffect, TypesApart DEF PageIInv, GlobalsOK
    <3> QED BY <1>1, <2>1, ReturnEffect, <3>1, TypesClose DEF PageIInv, TypeOK
  <2>4. LoopInv => LoopInv' /\ \A u \in timers' : u.kind \notin {"poll", "deadline", "static"}
    BY <1>1, <2>2, PollEnds
  <2>5. LoopInv /\ PhaseInv => PhaseInv'
    <3> SUFFICES ASSUME LoopInv, PhaseInv PROVE PhaseInv'
      OBVIOUS
    <3>1. /\ PollInFlight /\ ~PollInFlight' /\ j = currentJobId /\ posting = 0
      BY <1>1, AnsweredEffect
    <3>2. views = {"loading"} /\ \A u \in timers : u.kind \notin {"pause", "render"}
      BY <1>7, <3>1, PolledView
    <3>3. \A u \in timers' : u.kind \in {"pause", "render"} => u = t
      BY <2>2, <3>2 DEF Same
    <3>4. \A u \in timers' : u = t
      BY <2>1, <2>4, <3>3, Kinds, ReturnEffect DEF WellFormed, Timers
    <3>5. latestPollData'.job = currentJobId
      BY <1>1, <1>3, <3>1
    <3>6. page.markdown = None
      BY <3>2 DEF PhaseInv
    <3> QED BY <1>1, <1>7, <2>1, <2>2, <3>1, <3>2, <3>4, <3>5, <3>6 DEF PhaseInv
  <2> QED BY <1>1, <2>1, <2>3, <2>4, <2>5, ReturnEffect, Closes
<1> QED BY <1>6, <1>7

-----------------------------------------------------------------------------
(* The timers.                                                             *)

\* The timer that fires is gone, and the others are still there.
LEMMA FiredEffect ==
  ASSUME PageIInv, NEW t \in timers, timers' = Without({t.id})
  PROVE  /\ WellFormed(timers)' /\ RenderInv'
         /\ \A u \in timers' : \E v \in timers : v # t /\ v.id # t.id /\ Same(u, v)
         /\ \A v \in timers : v # t => \E u \in timers' : Same(u, v)
         /\ (\A u \in timers : u = t) => timers' = {}
<1>1. WellFormed(timers)
  BY DEF PageIInv, TypeOK, WellFormed
<1>2. WellFormed(timers)' /\ Remain(timers', {t.id})
  BY <1>1, WithoutEffect DEF WellFormed
<1>3. RenderInv'
  BY <1>2 DEF Remain, Same, RenderInv, PageIInv
<1>4. \A u \in timers' : \E v \in timers : v # t /\ v.id # t.id /\ Same(u, v)
  BY <1>2 DEF Remain
<1>5. \A v \in timers : v # t => \E u \in timers' : Same(u, v)
  BY <1>1, <1>2 DEF Remain, WellFormed
<1> QED BY <1>2, <1>3, <1>4, <1>5

LEMMA PollFiresStep ==
  ASSUME PageIInv, NEW t \in timers, PollFires(t)
  PROVE  PageIInv'
<1>1. /\ t.kind = "poll" /\ timers' = Without({t.id})
      /\ getting' = IF currentJobId = None THEN getting
                    ELSE [getting EXCEPT ![currentJobId] = @ + 1]
      /\ UNCHANGED <<faults, server, posting, currentJobId, pollTimer, pollDeadline, staticTimer,
                     staticShown, latestPollData, views, page>>
  BY DEF PollFires, Fires
<1>a. /\ \A u \in timers' : \E v \in timers : v # t /\ v.id # t.id /\ Same(u, v)
      /\ \A v \in timers : v # t => \E u \in timers' : Same(u, v)
  BY <1>1, FiredEffect
<1>b. t \in timers /\ t.kind = "poll"
      /\ UNCHANGED <<posting, currentJobId, pollTimer, pollDeadline, staticTimer, staticShown,
                     latestPollData, views, page>>
  BY <1>1
<1>2. getting \in [Jobs -> Nat] /\ currentJobId \in Jobs \cup {None} /\ posting \in Nat
  BY DEF PageIInv, TypeOK
<1>3. getting' \in [Jobs -> Nat]
  BY <1>1, <1>2
<1>4. TypeOK'
  <2>1. GlobalsOK'
    BY <1>1, <1>3, TypesApart DEF PageIInv, GlobalsOK
  <2> QED BY <1>1, <2>1, FiredEffect, TypesClose DEF PageIInv, TypeOK
<1>5. FetchesAreFast /\ LoopInv => LoopInv'
  <2> SUFFICES ASSUME LoopInv PROVE LoopInv'
    OBVIOUS
  <2>1. posting = 0
    BY <1>1, <1>2, PostingAlone
  <2>2. t.id = pollTimer /\ \A i \in Jobs : ~(getting[i] > 0)
    BY <1>1 DEF LoopInv, PollInFlight
  <2>3. \A u \in timers' : u.kind # "poll"
    BY <1>a, <1>b, <2>2 DEF LoopInv, Same
  <2>4. \E u \in timers' : u.kind = "deadline"
    BY <1>a, <1>b DEF LoopInv, Same
  <2>5. \A i \in Jobs : getting'[i] > 0 => getting'[i] = 1 /\ i = currentJobId
    BY <1>1, <1>2, <2>2
  <2>6. \A u \in timers' : /\ u.kind = "deadline" => u.id = pollDeadline
                           /\ u.kind = "static" => u.id = staticTimer
    BY <1>a, <1>b DEF LoopInv, Same
  <2> QED BY <1>b, <2>1, <2>3, <2>4, <2>5, <2>6 DEF LoopInv
<1>6. NoLateReturn /\ FetchesAreFast /\ LoopInv /\ PhaseInv => PhaseInv'
  <2> SUFFICES ASSUME LoopInv, PhaseInv PROVE PhaseInv'
    OBVIOUS
  <2>1. \A u \in timers' : u.kind \notin {"pause", "render"}
    BY <1>a, <1>b DEF PhaseInv, Same
  <2>2. posting = 0
    BY <1>1, <1>2, PostingAlone
  <2>3. views # {"search"} /\ (views = {"results"} => staticShown /\ \A u \in timers' : u.kind # "static")
    BY <1>a, <1>b DEF PhaseInv, Same
  <2> QED BY <1>b, <2>1, <2>2, <2>3 DEF PhaseInv
<1> QED BY <1>1, <1>4, <1>5, <1>6, FiredEffect, Closes

\* The timers left by the deadline have none of the three handles.
LEMMA DeadlineClears ==
  ASSUME PageIInv, LoopInv, NEW t \in timers, t.kind = "deadline",
         FetchesAreFast, Prompt, UNCHANGED <<posting, getting, currentJobId>>,
         pollTimer' = None, staticTimer' = None, pollDeadline' = pollDeadline,
         \A u \in timers' : u.kind \in {"pause", "render"} \/
           \E v \in timers : v.id \notin {t.id, pollTimer, staticTimer} /\ Same(u, v)
  PROVE  /\ LoopInv' /\ posting = 0 /\ ~PollInFlight'
         /\ \A u \in timers' : u.kind \notin {"poll", "deadline", "static"}
<1>1. ~PollInFlight /\ posting = 0
  BY DEF Prompt, FetchesAreFast
<1>2. ~PollInFlight' /\ \A i \in Jobs : ~(getting'[i] > 0)
  BY <1>1 DEF PollInFlight
<1>3. \A u \in timers' : u.kind \notin {"poll", "deadline", "static"}
  BY DEF LoopInv, Same
<1> QED BY <1>1, <1>2, <1>3 DEF LoopInv

LEMMA DeadlineFiresStep ==
  ASSUME PageIInv, NEW t \in timers, DeadlineFires(t)
  PROVE  PageIInv'
<1> DEFINE gone == {t.id, pollTimer, staticTimer}
<1>1. /\ t \in timers /\ t.kind = "deadline" /\ Prompt
      /\ pollTimer' = None /\ staticTimer' = None
      /\ UNCHANGED <<faults, server, posting, getting, currentJobId, pollDeadline, staticShown,
                     latestPollData, views, page>>
  BY DEF DeadlineFires, Fires
<1>2. \/ staticShown /\ timers' = Without(gone)
      \/ ~staticShown /\ ReturnToSearch(gone)
  BY DEF DeadlineFires
<1>3. WellFormed(timers)
  BY DEF PageIInv, TypeOK, WellFormed
<1>4. GlobalsOK'
  BY <1>1, TypesApart DEF PageIInv, GlobalsOK
<1>5. CASE staticShown
  <2>1. WellFormed(timers)' /\ Remain(timers', gone)
    BY <1>2, <1>3, <1>5, WithoutEffect DEF WellFormed
  <2>2. TypeOK'
    BY <1>1, <1>4, <2>1, TypesClose DEF PageIInv, TypeOK
  <2>3. RenderInv'
    BY <2>1 DEF RenderInv, PageIInv, Remain, Same
  <2>4. \A u \in timers' : \E v \in timers : v.id \notin gone /\ Same(u, v)
    BY <2>1 DEF Remain
  <2>5. FetchesAreFast /\ LoopInv =>
          /\ LoopInv' /\ posting = 0 /\ ~PollInFlight'
          /\ \A u \in timers' : u.kind \notin {"poll", "deadline", "static"}
    BY <1>1, <2>4, DeadlineClears
  <2>6. FetchesAreFast /\ LoopInv /\ PhaseInv => PhaseInv'
    <3> SUFFICES ASSUME FetchesAreFast, LoopInv, PhaseInv PROVE PhaseInv'
      OBVIOUS
    <3>1. views = {"results"} /\ \A u \in timers : u.kind \notin {"pause", "render"}
      BY <1>1, <1>5 DEF PhaseInv
    <3>2. \A u \in timers' : u.kind \notin {"pause", "render"}
      BY <2>4, <3>1 DEF Same
    <3> QED BY <1>1, <1>5, <2>5, <3>1, <3>2 DEF PhaseInv
  <2> QED BY <1>1, <2>2, <2>3, <2>5, <2>6, Closes
<1>6. CASE ~staticShown
  <2>0. ReturnToSearch(gone)
    BY <1>2, <1>6
  <2>1. PICK p \in timers' :
          /\ p.kind = "pause"
          /\ \A u \in timers' : u = p \/ \E v \in timers : v.id \notin gone /\ Same(u, v)
    BY <2>0, ReturnEffect
  <2>2. WellFormed(timers)' /\ RenderInv'
    BY <2>0, ReturnEffect
  <2>3. TypeOK'
    BY <1>1, <1>4, <2>2, TypesClose DEF PageIInv, TypeOK
  <2>4. FetchesAreFast /\ LoopInv =>
          /\ LoopInv' /\ posting = 0 /\ ~PollInFlight'
          /\ \A u \in timers' : u.kind \notin {"poll", "deadline", "static"}
    BY <1>1, <2>1, DeadlineClears
  <2>5. FetchesAreFast /\ LoopInv /\ PhaseInv => PhaseInv'
    <3> SUFFICES ASSUME FetchesAreFast, LoopInv, PhaseInv PROVE PhaseInv'
      OBVIOUS
    <3>1. views = {"loading"} /\ \A u \in timers : u.kind \notin {"pause", "render"}
      BY <1>1, <1>6 DEF PhaseInv
    <3>2. \A u \in timers' : u.kind \in {"pause", "render"} => u = p
      BY <2>1, <3>1 DEF Same
    <3>3. \A u \in timers' : u = p
      BY <2>2, <2>4, <3>2, Kinds DEF WellFormed, Timers
    <3> QED BY <1>1, <1>6, <2>1, <2>4, <3>1, <3>3 DEF PhaseInv
  <2> QED BY <1>1, <2>2, <2>3, <2>4, <2>5, Closes
<1> QED BY <1>5, <1>6

\* A callback that renders an answer: its job is shown.
LEMMA RenderedType ==
  ASSUME PageIInv, NEW answer \in Answers
  PROVE  /\ Rendered(answer) \in Pages /\ Rendered(answer).meta = answer.job
         /\ Rendered(answer).markdown \in {page.markdown, answer.job}
         /\ answer.job \in Badged => Rendered(answer).badge = answer.job
         /\ Rendered(answer).summary = "insights" => Rendered(answer).insights = answer.job
         /\ RenderedStatic(answer) \in Pages /\ RenderedStatic(answer).meta = answer.job
         /\ RenderedStatic(answer).markdown \in {page.markdown, answer.job}
         /\ answer.job \in Badged => RenderedStatic(answer).badge = answer.job
         /\ RenderedStatic(answer).summary = "analysing"
<1>1. page \in Pages
  BY DEF PageIInv, TypeOK
<1>2. /\ Summary(answer) \in {"insights", "unavailable"}
      /\ Summary(answer) = "insights" => answer.insights
  BY DEF Summary
<1>3. answer.job \in Jobs /\ answer.insights \in BOOLEAN
  BY DEF Answers
<1>4. /\ Rendered(answer) \in Pages /\ Rendered(answer).meta = answer.job
      /\ Rendered(answer).markdown \in {page.markdown, answer.job}
      /\ answer.job \in Badged => Rendered(answer).badge = answer.job
      /\ Rendered(answer).summary = "insights" => Rendered(answer).insights = answer.job
  BY <1>1, <1>2, <1>3 DEF Rendered, Pages
<1> DEFINE shown == Rendered(answer)
<1> HIDE DEF shown
<1>5. /\ [[shown EXCEPT !.summary = "analysing"] EXCEPT !.banner = TRUE] \in Pages
      /\ [[shown EXCEPT !.summary = "analysing"] EXCEPT !.banner = TRUE].meta = shown.meta
      /\ [[shown EXCEPT !.summary = "analysing"] EXCEPT !.banner = TRUE].markdown = shown.markdown
      /\ [[shown EXCEPT !.summary = "analysing"] EXCEPT !.banner = TRUE].badge = shown.badge
      /\ [[shown EXCEPT !.summary = "analysing"] EXCEPT !.banner = TRUE].summary = "analysing"
  BY <1>4 DEF shown, Pages
<1>6. RenderedStatic(answer) = [[shown EXCEPT !.summary = "analysing"] EXCEPT !.banner = TRUE]
  BY DEF RenderedStatic, shown
<1>7. /\ RenderedStatic(answer) \in Pages /\ RenderedStatic(answer).meta = shown.meta
      /\ RenderedStatic(answer).markdown = shown.markdown
      /\ RenderedStatic(answer).badge = shown.badge /\ RenderedStatic(answer).summary = "analysing"
  BY <1>5, <1>6
<1> QED BY <1>4, <1>7 DEF shown

LEMMA StaticFiresStep ==
  ASSUME PageIInv, NEW t \in timers, StaticFires(t)
  PROVE  PageIInv'
<1> DEFINE shows == "results" \notin views /\ currentJobId # None
                      /\ HasInstantData(latestPollData)
<1>1. /\ t.kind = "static" /\ timers' = Without({t.id}) /\ staticTimer' = None
      /\ UNCHANGED <<faults, server, posting, getting, currentJobId, pollTimer, pollDeadline,
                     latestPollData>>
  BY DEF StaticFires, Fires
<1>2. /\ WellFormed(timers)' /\ RenderInv'
      /\ \A u \in timers' : \E v \in timers : v # t /\ v.id # t.id /\ Same(u, v)
      /\ \A v \in timers : v # t => \E u \in timers' : Same(u, v)
  BY <1>1, FiredEffect
<1>3. FetchesAreFast /\ LoopInv => LoopInv' /\ \A u \in timers' : u.kind # "static"
  <2> SUFFICES ASSUME LoopInv PROVE LoopInv' /\ \A u \in timers' : u.kind # "static"
    OBVIOUS
  <2>1. \A u \in timers' : u.kind # "static"
    BY <1>1, <1>2 DEF LoopInv, Same
  <2>2. (\E u \in timers : u.kind = "deadline") => \E u \in timers' : u.kind = "deadline"
    BY <1>1, <1>2 DEF Same
  <2>3. PollInFlight' = PollInFlight
    BY <1>1 DEF PollInFlight
  <2>4. \A u \in timers' : /\ u.kind = "poll" => u.id = pollTimer /\ ~PollInFlight
                           /\ u.kind = "deadline" => u.id = pollDeadline
    BY <1>2 DEF LoopInv, Same
  <2>7. \A u \in timers' : u.kind = "poll" => \E v \in timers : v.kind = "deadline"
    BY <1>2 DEF LoopInv, Same
  <2>5. posting \in {0, 1} /\ \A j \in Jobs : getting[j] > 0 =>
          getting[j] = 1 /\ j = currentJobId /\ \E u \in timers' : u.kind = "deadline"
    BY <2>2 DEF LoopInv
  <2>6. posting = 1 => pollTimer = None /\ pollDeadline = None /\ currentJobId = None
                         /\ ~PollInFlight
    BY DEF LoopInv
  <2> QED BY <1>1, <2>1, <2>2, <2>3, <2>4, <2>7, <2>5, <2>6 DEF LoopInv
<1>4. PhaseInv => /\ views = {"loading"} /\ posting = 0 /\ ~staticShown /\ page.markdown = None
                  /\ \A u \in timers' : u.kind \notin {"pause", "render"}
  <2> SUFFICES ASSUME PhaseInv
               PROVE  /\ views = {"loading"} /\ posting = 0
                      /\ ~staticShown /\ page.markdown = None
                      /\ \A u \in timers' : u.kind \notin {"pause", "render"}
    OBVIOUS
  <2>1. posting \in Nat
    BY DEF PageIInv, TypeOK
  <2>2. views = {"loading"} /\ posting = 0
    BY <1>1, <2>1 DEF PhaseInv
  <2>3. ~staticShown /\ page.markdown = None
    BY <2>2 DEF PhaseInv
  <2>4. \A u \in timers : u.kind \notin {"pause", "render"}
    BY <1>1 DEF PhaseInv
  <2>5. \A u \in timers' : u.kind \notin {"pause", "render"}
    BY <1>2, <2>4 DEF Same
  <2> QED BY <2>2, <2>3, <2>5
<1>5. CASE shows
  <2>1. staticShown' = TRUE /\ page' = RenderedStatic(latestPollData)
        /\ views' = (views \ {"loading"}) \cup {"results"}
    BY <1>5 DEF StaticFires, ShowResults
  <2>2. latestPollData \in Answers
    BY <1>5 DEF HasInstantData, PageIInv, TypeOK
  <2>3. /\ page' \in Pages /\ page'.meta = latestPollData.job
        /\ page'.markdown \in {page.markdown, latestPollData.job}
        /\ page'.meta \in Badged => page'.badge = page'.meta
        /\ page'.summary = "analysing"
    BY <2>1, <2>2, RenderedType
  <2>4. TypeOK'
    <3>1. GlobalsOK'
      BY <1>1, <2>1, TypesApart DEF PageIInv, GlobalsOK
    <3>2. views' \subseteq Views
      BY <2>1 DEF PageIInv, TypeOK, Views
    <3> QED BY <1>1, <1>2, <2>3, <3>1, <3>2, TypesClose
  <2>5. FetchesAreFast /\ LoopInv /\ PhaseInv => PhaseInv'
    <3> SUFFICES ASSUME FetchesAreFast, LoopInv, PhaseInv PROVE PhaseInv'
      OBVIOUS
    <3>1. latestPollData.job = currentJobId
      BY <1>5 DEF PhaseInv, HasInstantData
    <3>2. views' = {"results"}
      BY <1>4, <2>1
    <3>3. /\ page'.meta = currentJobId /\ page'.markdown \in {None, page'.meta}
          /\ page'.meta \in Badged => page'.badge = page'.meta
          /\ page'.summary = "insights" => page'.insights = page'.meta
      BY <1>4, <2>3, <3>1
    <3> QED BY <1>1, <1>3, <1>4, <2>1, <3>1, <3>2, <3>3 DEF PhaseInv
  <2> QED BY <1>1, <1>2, <1>3, <2>4, <2>5, Closes
<1>6. CASE ~shows
  <2>1. UNCHANGED <<staticShown, page, views>>
    BY <1>6 DEF StaticFires
  <2>2. TypeOK'
    <3>1. GlobalsOK'
      BY <1>1, <2>1, TypesApart DEF PageIInv, GlobalsOK
    <3> QED BY <1>1, <1>2, <2>1, <3>1, TypesClose DEF PageIInv, TypeOK
  <2>3. FetchesAreFast /\ LoopInv /\ PhaseInv => PhaseInv'
    BY <1>1, <1>4, <2>1 DEF PhaseInv
  <2> QED BY <1>1, <1>2, <1>3, <2>2, <2>3, Closes
<1> QED BY <1>5, <1>6

\* A timer without a handle fires: the poll loop is not touched.
LEMMA LoopKept ==
  ASSUME LoopInv, \A u \in timers' : \E v \in timers : Same(u, v),
         \A v \in timers : v.kind = "deadline" => \E u \in timers' : Same(u, v),
         UNCHANGED <<posting, getting, currentJobId, pollTimer, pollDeadline, staticTimer>>
  PROVE  LoopInv'
<1>1. (\E u \in timers : u.kind = "deadline") => \E u \in timers' : u.kind = "deadline"
  BY DEF Same
<1>2. PollInFlight' = PollInFlight
  BY DEF PollInFlight
<1>3. \A u \in timers' : /\ u.kind = "poll" => u.id = pollTimer /\ ~PollInFlight
                         /\ u.kind = "deadline" => u.id = pollDeadline
                         /\ u.kind = "static" => u.id = staticTimer
  BY DEF LoopInv, Same
<1>4. \A u \in timers' : u.kind = "poll" => \E v \in timers : v.kind = "deadline"
  BY DEF LoopInv, Same
<1> QED BY <1>1, <1>2, <1>3, <1>4 DEF LoopInv

\* The timer was the last one, and the page was in the terminal.
LEMMA LastTimer ==
  ASSUME PageIInv, PhaseInv, NEW t \in timers, t.kind \in {"pause", "render"},
         timers' = Without({t.id}), UNCHANGED getting
  PROVE  /\ timers' = {} /\ ~PollInFlight' /\ posting = 0
         /\ views = {"loading"} /\ ~staticShown /\ page.markdown = None
         /\ t.kind = "render" => t.answer.job = currentJobId
<1>1. (\A u \in timers : u = t) /\ views = {"loading"} /\ ~PollInFlight
      /\ (t.kind = "render" => t.answer.job = currentJobId)
  BY DEF PhaseInv
<1>2. timers' = {}
  BY <1>1, FiredEffect
<1>3. posting = 0
  BY DEF PhaseInv, PageIInv, TypeOK
<1>4. ~PollInFlight'
  BY <1>1 DEF PollInFlight
<1> QED BY <1>1, <1>2, <1>3, <1>4 DEF PhaseInv

LEMMA PauseEndsStep ==
  ASSUME PageIInv, NEW t \in timers, PauseEnds(t)
  PROVE  PageIInv'
<1>1. /\ t.kind = "pause" /\ timers' = Without({t.id}) /\ views' = {"search"}
      /\ UNCHANGED <<faults, server, posting, getting, currentJobId, pollTimer, pollDeadline,
                     staticTimer, staticShown, latestPollData, page>>
  BY DEF PauseEnds, Fires
<1>2. WellFormed(timers)' /\ RenderInv'
  BY <1>1, FiredEffect
<1>3. TypeOK'
  <2>1. GlobalsOK'
    BY <1>1, TypesApart DEF PageIInv, GlobalsOK
  <2>2. views' \subseteq Views
    BY <1>1 DEF Views
  <2> QED BY <1>1, <1>2, <2>1, <2>2, TypesClose DEF PageIInv, TypeOK
<1>4. LoopInv => LoopInv'
  <2>1. /\ \A u \in timers' : \E v \in timers : Same(u, v)
        /\ \A v \in timers : v.kind = "deadline" => \E u \in timers' : Same(u, v)
    BY <1>1, FiredEffect
  <2> QED BY <1>1, <2>1, LoopKept
<1>5. PhaseInv => PhaseInv'
  <2> SUFFICES ASSUME PhaseInv PROVE PhaseInv'
    OBVIOUS
  <2>1. timers' = {} /\ ~PollInFlight' /\ posting = 0
    BY <1>1, LastTimer
  <2> QED BY <1>1, <2>1 DEF PhaseInv
<1> QED BY <1>1, <1>2, <1>3, <1>4, <1>5, Closes

LEMMA RenderFiresStep ==
  ASSUME PageIInv, NEW t \in timers, RenderFires(t)
  PROVE  PageIInv'
<1>1. /\ t.kind = "render" /\ timers' = Without({t.id}) /\ page' = Rendered(t.answer)
      /\ views' = (views \ {"loading"}) \cup {"results"}
      /\ UNCHANGED <<faults, server, posting, getting, currentJobId, pollTimer, pollDeadline,
                     staticTimer, staticShown, latestPollData>>
  BY DEF RenderFires, Fires, ShowResults
<1>2. WellFormed(timers)' /\ RenderInv'
  BY <1>1, FiredEffect
<1>3. t.answer \in Answers
  BY <1>1 DEF PageIInv, RenderInv
<1>4. /\ page' \in Pages /\ page'.meta = t.answer.job
      /\ page'.markdown \in {page.markdown, t.answer.job}
      /\ page'.meta \in Badged => page'.badge = page'.meta
      /\ page'.summary = "insights" => page'.insights = page'.meta
  BY <1>1, <1>3, RenderedType
<1>5. TypeOK'
  <2>1. GlobalsOK'
    BY <1>1, TypesApart DEF PageIInv, GlobalsOK
  <2>2. views' \subseteq Views
    BY <1>1 DEF PageIInv, TypeOK, Views
  <2> QED BY <1>1, <1>2, <1>4, <2>1, <2>2, TypesClose
<1>6. LoopInv => LoopInv'
  <2>1. /\ \A u \in timers' : \E v \in timers : Same(u, v)
        /\ \A v \in timers : v.kind = "deadline" => \E u \in timers' : Same(u, v)
    BY <1>1, FiredEffect
  <2> QED BY <1>1, <2>1, LoopKept
<1>7. PhaseInv => PhaseInv'
  <2> SUFFICES ASSUME PhaseInv PROVE PhaseInv'
    OBVIOUS
  <2>1. /\ timers' = {} /\ ~PollInFlight' /\ posting = 0 /\ views = {"loading"}
        /\ page.markdown = None /\ t.answer.job = currentJobId
    BY <1>1, LastTimer
  <2>2. views' = {"results"}
    BY <1>1, <2>1
  <2>3. /\ page'.meta = currentJobId /\ page'.markdown \in {None, page'.meta}
        /\ page'.meta \in Badged => page'.badge = page'.meta
        /\ page'.summary = "insights" => page'.insights = page'.meta
    BY <1>4, <2>1
  <2> QED BY <1>1, <2>1, <2>2, <2>3 DEF PhaseInv
<1> QED BY <1>1, <1>2, <1>5, <1>6, <1>7, Closes

-----------------------------------------------------------------------------
LEMMA ServerFinishesStep ==
  ASSUME PageIInv, NEW j \in Jobs, ServerFinishes(j)
  PROVE  PageIInv'
<1>1. UNCHANGED <<faults, posting, getting, timers, currentJobId, pollTimer, pollDeadline,
                  staticTimer, staticShown, latestPollData, views, page>>
  BY DEF ServerFinishes
<1>2. server' \in [Jobs -> {"none", "working", "completed", "fallback", "failed"}]
  BY DEF ServerFinishes, PageIInv, TypeOK
<1>3. TypeOK'
  <2>1. GlobalsOK'
    BY <1>1, <1>2, TypesApart DEF PageIInv, GlobalsOK
  <2>2. WellFormed(timers)'
    BY <1>1, TypesApart DEF PageIInv, WellFormed
  <2> QED BY <1>1, <2>1, <2>2, TypesClose DEF PageIInv, TypeOK
<1>4. PollInFlight' = PollInFlight
  BY <1>1 DEF PollInFlight
<1>5. RenderInv'
  BY <1>1 DEF PageIInv, RenderInv
<1>6. LoopInv => LoopInv'
  BY <1>1, <1>4 DEF LoopInv
<1>7. PhaseInv => PhaseInv'
  BY <1>1, <1>4 DEF PhaseInv
<1> QED BY <1>1, <1>3, <1>5, <1>6, <1>7, Closes

LEMMA StutterStep ==
  ASSUME PageIInv, UNCHANGED vars
  PROVE  PageIInv'
<1>1. UNCHANGED <<faults, server, posting, getting, timers, currentJobId, pollTimer,
                  pollDeadline, staticTimer, staticShown, latestPollData, views, page>>
  BY DEF vars
<1>2. PollInFlight' = PollInFlight
  BY <1>1 DEF PollInFlight
<1>3. TypeOK'
  BY <1>1 DEF PageIInv, TypeOK
<1>4. RenderInv'
  BY <1>1 DEF PageIInv, RenderInv
<1>5. LoopInv => LoopInv'
  BY <1>1, <1>2 DEF LoopInv
<1>6. PhaseInv => PhaseInv'
  BY <1>1, <1>2 DEF PhaseInv
<1> QED BY <1>1, <1>3, <1>4, <1>5, <1>6, Closes

LEMMA NextPreserves ==
  ASSUME PageIInv, [Next]_vars
  PROVE  PageIInv'
<1>1. CASE User
  BY <1>1, SubmitStep, NewAnalysisStep DEF User
<1>2. CASE Answer
  <2>1. CASE PostRefused
    BY <2>1, PostRefusedStep
  <2>2. ASSUME NEW j \in Jobs,
               PostAccepted(j) \/ PollWorking(j) \/ PollCompleted(j)
                 \/ PollFailed(j) \/ PollRefused(j) \/ PollThrows(j)
        PROVE  PageIInv'
    BY <2>2, PostAcceptedStep, PollWorkingStep, PollCompletedStep, PollFailedStep,
       PollRefusedStep, PollThrowsStep
  <2> QED BY <1>2, <2>1, <2>2 DEF Answer
<1>3. CASE TimerFires
  <2>1. ASSUME NEW t \in timers, Expires(t) PROVE PageIInv'
    BY <2>1, PollFiresStep, DeadlineFiresStep, StaticFiresStep, PauseEndsStep, RenderFiresStep
       DEF Expires
  <2> QED BY <1>3, <2>1 DEF TimerFires
<1>4. CASE \E j \in Jobs : ServerFinishes(j)
  BY <1>4, ServerFinishesStep
<1>5. CASE UNCHANGED vars
  BY <1>5, StutterStep
<1> QED BY <1>1, <1>2, <1>3, <1>4, <1>5 DEF Next

\* The inductive invariant of the page, whatever the faults: types, the poll
\* loop for fast fetches and the three views without late returns.
THEOREM PageInvariance == Spec => []PageIInv
<1>1. Init => PageIInv
  BY InitHolds
<1>2. PageIInv /\ [Next]_vars => PageIInv'
  BY NextPreserves
<1> QED BY <1>1, <1>2, PTL DEF Spec

\* The variables keep their types: no GET and no POST is answered twice.
THEOREM PageTypes == Spec => []TypeOK
<1>1. PageIInv => TypeOK
  BY DEF PageIInv
<1> QED BY <1>1, PageInvariance, PTL

\* As long as fetches are answered before the user starts over or the deadline
\* passes, there is one poll loop (schedulePoll, doPoll): the poll that pollTimer
\* names or one GET, never a second loop beside it.
THEOREM OnePollLoopHolds == Spec => []OnePollLoop
<1>1. PageIInv => OnePollLoop
  BY DEF PageIInv, LoopInv, OnePollLoop, Pending
<1> QED BY <1>1, PageInvariance, PTL

\* As long as no GET is in flight when the deadline passes and none when the user
\* starts over, polling stops at the deadline, and with it when it is cleared
\* (startAnalysis, doPoll): every other order of the timers and answers is
\* covered, a GET that comes back after the deadline is not, and polls on.
THEOREM PollsUntilDeadlineHolds == Spec => []PollsUntilDeadline
<1>1. PageIInv => PollsUntilDeadline
  BY DEF PageIInv, LoopInv, PollsUntilDeadline, Pending, PollInFlight
<1> QED BY <1>1, PageInvariance, PTL

\* As long as no fetch is slow and the server answers without problems, what is
\* on screen is the job the page waits for or has finished: name and counts, each
\* badge it has data for, and its AI sections when the summary says so
\* (renderResults, renderStaticData, updateAiInsights).  Not covered are the
\* badges and sections the job has no data for, which an earlier job may have left.
THEOREM PageIsCurrentHolds == Spec => []PageIsCurrent
<1>1. PageIInv => PageIsCurrent
  BY DEF PageIInv, PhaseInv, PageIsCurrent
<1> QED BY <1>1, PageInvariance, PTL

\* As long as no fetch is slow and the server answers without problems, the copy
\* button never copies the report of an earlier job (markdownText).
THEOREM CopiesShownReportHolds == Spec => []CopiesShownReport
<1>1. PageIInv => CopiesShownReport
  BY DEF PageIInv, PhaseInv, CopiesShownReport
<1> QED BY <1>1, PageInvariance, PTL

\* As long as no fetch is slow and the server answers without problems, one of
\* the three sections is visible at a time; a return to the search that comes
\* late, in the next analysis, leaves two (scheduleReturnToSearch).
THEOREM OneViewHolds == Spec => []OneView
<1>1. PageIInv => OneView
  <2> SUFFICES ASSUME PhaseInv PROVE Cardinality(views) = 1
    BY DEF PageIInv, OneView
  <2>1. PICK view : views = {view}
    BY DEF PhaseInv
  <2> QED BY <2>1, FS_Singleton
<1> QED BY <1>1, PageInvariance, PTL

\* As long as no fetch is slow and the server answers without problems, only the
\* user takes results off the screen: the returns of a deadline, a failed job and
\* a POST that throws come before the next report, that of a refused GET or of a
\* late answer may not (scheduleReturnToSearch).
THEOREM ReportStaysHolds == Spec => ReportStays
<1> DEFINE Kept == (NoLateReturn /\ "results" \in views /\ "results" \notin views') => User
<1>1. PageIInv /\ [Next]_vars => [Kept]_vars
  <2> SUFFICES ASSUME PageIInv, Next PROVE Kept
    OBVIOUS
  <2>1. CASE User
    BY <2>1
  <2>2. CASE Answer \/ \E j \in Jobs : ServerFinishes(j)
    <3>1. views' = views
      BY <2>2 DEF Answer, PostRefused, PostAccepted, PollWorking, PollCompleted, PollFailed,
                  PollRefused, PollThrows, ServerFinishes
    <3> QED BY <3>1
  <2>3. ASSUME NEW t \in timers, Expires(t) PROVE Kept
    <3>1. CASE PollFires(t) \/ DeadlineFires(t)
      BY <3>1 DEF PollFires, DeadlineFires
    <3>2. CASE StaticFires(t) \/ RenderFires(t)
      BY <3>2 DEF StaticFires, RenderFires, ShowResults
    <3>3. CASE PauseEnds(t)
      BY <3>3 DEF PauseEnds, Fires, PageIInv, PhaseInv
    <3> QED BY <2>3, <3>1, <3>2, <3>3 DEF Expires
  <2> QED BY <2>1, <2>2, <2>3 DEF Next, TimerFires
<1> QED BY <1>1, PageInvariance, PTL DEF Spec, ReportStays
=============================================================================
