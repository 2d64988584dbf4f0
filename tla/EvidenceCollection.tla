-------------------------- MODULE EvidenceCollection --------------------------
(***************************************************************************)
(* The collect stage of a campaign.  The collector takes the keywords of   *)
(* the plan one by one: the browse agent looks for evidence of a keyword,  *)
(* a plain search for users follows while there is budget left.  All       *)
(* keywords share the budget.  The batch is then checked as a whole and    *)
(* stored in one transaction.                                              *)
(*                                                                         *)
(* The language model and the pages decide what the agent does next; every *)
(* wait may take time, fail, or be cancelled.  A tick of the clock is the  *)
(* unit of time; one tick past MaxTime stands for all later times, and     *)
(* MaxTime itself for the deadline up to the tolerance of the code.        *)
(***************************************************************************)
EXTENDS EvidenceBudget, SequencesExt

CONSTANTS
    MaxPages, MaxTime,             \* max_pages and max_duration_minutes
    Calls,                         \* what max_llm_calls may be
    MaxSteps,                      \* of the agent, for one keyword
    Seen                           \* bound: the sightings the agent may claim

ASSUME CollectionAssumption ==
    /\ {MaxPages, MaxTime, MaxSteps} \cup Calls \subseteq Nat \ {0}
    /\ Seen \subseteq Sighting

VARIABLES
    maxCalls,  \* the campaign: max_llm_calls
    at,        \* where the stage is
    keyword,   \* the keyword it is at
    clock,     \* the time since it began
    tracker,   \* the tracker of the run
    budget,    \* remaining_pages and remaining_llm_calls
    agent,     \* the browse agent's run for the keyword
    totals,    \* collection_metrics["totals"]
    metrics,   \* collection_metrics["keywords"]
    merged,    \* the candidates: all evidence, and why a user was truncated
    fruitless, \* unproductive_agent_keywords
    stored,    \* the database: evidence, discovery_status and keyword figures
    failed,    \* history: keywords whose search raised
    cut        \* history: keywords and users of refused sightings

vars == <<maxCalls, at, keyword, clock, tracker, budget, agent, totals,
          metrics, merged, fruitless, stored, failed, cut>>

Ended == {"stored", "refused", "failed", "cancelled"}

\* number: it is the so-manieth observation the tracker accepted.
Evidence == [keyword : Keyword, sighting : Sighting,
             number : 1..MaxObservations]

EvidenceOf(s, k, t) == [keyword |-> k, sighting |-> s, number |-> t.total]

Reasons == LimitName \cup {"max_pages", "max_llm_calls", "max_steps",
                           "max_duration", "max_duration_minutes",
                           "unsafe_url"}

NoReasons == [u \in User |-> {}]

\* found: the accepted observations; visited: videos whose pages were open;
\* reasons: truncation_reasons_by_user.
Agent == [steps : Nat, pages : Nat, calls : Nat, found : SUBSET Evidence,
          visited : SUBSET Video, reasons : [User -> SUBSET Reasons],
          from : 0..MaxTime + 1, time : 0..MaxTime + 1,
          why : Reasons \cup {""}]

NewAgent == [steps |-> 0, pages |-> 0, calls |-> 0, found |-> {},
             visited |-> {}, reasons |-> NoReasons, from |-> clock,
             time |-> 0, why |-> ""]

MetricType == [reported : BOOLEAN, videos : SUBSET Video, candidates : Nat,
               pages : Nat, calls : Nat, time : Nat, authored : SUBSET Video,
               observations : Nat, reasons : SUBSET Reasons]

NoMetric == [reported |-> FALSE, videos |-> {}, candidates |-> 0, pages |-> 0,
             calls |-> 0, time |-> 0, authored |-> {}, observations |-> 0,
             reasons |-> {}]

\* What is in the database of an observation: its fingerprint.
Stored == [keyword : Keyword, sighting : Sighting]

CollectionTypeOK ==
    /\ maxCalls \in Calls
    /\ at \in {"loop", "opening", "browsing", "returned", "searching",
              "closing", "batch"} \cup Ended
    /\ keyword \in 1..NumKeywords + 1
    /\ at \in {"opening", "browsing", "returned", "searching"} =>
           keyword \in Keyword
    /\ clock \in 0..MaxTime + 1
    /\ tracker \in Tracker
    /\ budget \in [pages : Nat, calls : Nat]
    /\ agent \in Agent
    /\ totals \in [pages : Nat, calls : Nat, time : Nat]
    /\ metrics \in [Keyword -> MetricType]
    /\ merged \in [evidence : SUBSET Evidence,
                   reasons : [User -> SUBSET Reasons]]
    /\ fruitless \subseteq Keyword
    /\ stored \in [evidence : SUBSET Stored,
                   status : [User -> {"none", "candidate",
                                      "needs_more_evidence"}],
                   videos : [Keyword -> Nat], candidates : [Keyword -> Nat]]
    /\ failed \subseteq Keyword
    /\ cut \subseteq Keyword \X User

Init ==
    /\ at = "loop"
    /\ keyword = 1
    /\ clock = 0
    /\ tracker = NewTracker
    /\ maxCalls \in Calls
    /\ budget = [pages |-> MaxPages, calls |-> maxCalls]
    /\ agent = NewAgent
    /\ totals = [pages |-> 0, calls |-> 0, time |-> 0]
    /\ metrics = [k \in Keyword |-> NoMetric]
    /\ merged = [evidence |-> {}, reasons |-> NoReasons]
    /\ fruitless = {}
    /\ stored = [evidence |-> {}, status |-> [u \in User |-> "none"],
                 videos |-> [k \in Keyword |-> 0],
                 candidates |-> [k \in Keyword |-> 0]]
    /\ failed = {}
    /\ cut = {}

-----------------------------------------------------------------------------
(* Waiting                                                                 *)

Later == {clock} \cup {IF clock > MaxTime THEN clock ELSE clock + 1}

\* A wait that is not over by the deadline times out.
Pass == clock' \in {c \in Later : c <= MaxTime}

-----------------------------------------------------------------------------
(* The keywords                                                            *)

Collected == UNCHANGED <<maxCalls, totals, metrics, merged, fruitless>>
History == UNCHANGED <<failed, cut>>

MayStart ==
    /\ keyword <= NumKeywords
    /\ KeywordAllowed(tracker) /\ budget.pages > 0 /\ clock < MaxTime

\* Without calls left, only the plain search is made.
StartKeyword ==
    /\ at = "loop" /\ MayStart
    /\ tracker' = AllowKeyword(tracker, keyword)
    /\ agent' = IF budget.calls > 0 THEN NewAgent
                ELSE [NewAgent EXCEPT !.why = "max_llm_calls"]
    /\ at' = IF budget.calls > 0 THEN "opening" ELSE "returned"
    /\ UNCHANGED <<keyword, clock, budget, stored>> /\ Collected /\ History

StopKeywords ==
    /\ at = "loop" /\ ~MayStart
    /\ tracker' = IF keyword <= NumKeywords THEN AllowKeyword(tracker, keyword)
                  ELSE tracker
    /\ at' = "closing"
    /\ UNCHANGED <<keyword, clock, budget, agent, stored>>
    /\ Collected /\ History

\* An exception is logged, and the next keyword is taken.
KeywordFails ==
    /\ at \in {"opening", "browsing", "searching"}
    /\ failed' = failed \cup {keyword}
    /\ keyword' = keyword + 1
    /\ at' = "loop"
    /\ clock' \in Later
    /\ UNCHANGED <<tracker, budget, agent, stored, cut>> /\ Collected

-----------------------------------------------------------------------------
(* The browse agent                                                        *)

Browsing ==
    UNCHANGED <<keyword, budget, stored, failed>> /\ Collected

\* The run ends: its duration is taken before its result is published.
Finish(run, why) ==
    /\ agent' = [run EXCEPT !.why = why, !.time = clock' - run.from]
    /\ at' = "returned"

MayStep == /\ agent.steps < MaxSteps /\ clock < MaxTime
           /\ agent.calls < budget.calls

\* The search page of the keyword is opened.
Open ==
    /\ at = "opening"
    /\ Pass
    /\ agent' = [agent EXCEPT !.pages = 1]
    /\ at' = "browsing"
    /\ UNCHANGED <<tracker, cut>> /\ Browsing

\* A page that is not the platform's ends the run, before or after a call.
LeavePlatform ==
    /\ \/ at = "opening" /\ clock < MaxTime
       \/ at = "browsing" /\ MayStep
    /\ Pass
    /\ \E called \in IF at = "opening" THEN {0} ELSE {0, 1} :
          Finish([agent EXCEPT !.calls = @ + called, !.steps = @ + called],
                 "unsafe_url")
    /\ UNCHANGED <<tracker, cut>> /\ Browsing

TimeOut ==
    /\ at \in {"opening", "browsing"}
    /\ at = "browsing" => MayStep
    /\ clock' \in {c \in {MaxTime, MaxTime + 1} : c >= clock}
    /\ \E called \in IF at = "opening" THEN {0} ELSE {0, 1} :
          Finish([agent EXCEPT !.calls = @ + called], "max_duration")
    /\ UNCHANGED <<tracker, cut>> /\ Browsing

NoMoreSteps ==
    /\ at = "browsing" /\ ~MayStep
    /\ clock' = clock
    /\ Finish(agent, IF agent.steps >= MaxSteps THEN "max_steps"
                     ELSE IF clock >= MaxTime THEN "max_duration"
                     ELSE "max_llm_calls")
    /\ UNCHANGED <<tracker, cut>> /\ Browsing

Stepped == [agent EXCEPT !.steps = @ + 1, !.calls = @ + 1]

\* An invalid decision, a scroll, a click that leads nowhere: one step.
IdleStep ==
    /\ at = "browsing" /\ MayStep
    /\ Pass
    /\ agent' = Stepped
    /\ UNCHANGED <<at, tracker, cut>> /\ Browsing

\* navigate, or a click that leads to another page: that of a video, or None.
\* One that times out may have opened the page without being counted.
Visit(v, counted) ==
    /\ at = "browsing" /\ MayStep
    /\ agent.pages < budget.pages
    /\ Pass
    /\ agent' = [Stepped EXCEPT !.pages = @ + counted,
                                !.visited = @ \cup ({v} \ {None})]
    /\ UNCHANGED <<at, tracker, cut>> /\ Browsing

VisitTooMany ==
    /\ at = "browsing" /\ MayStep
    /\ agent.pages >= budget.pages
    /\ Pass
    /\ Finish(Stepped, "max_pages")
    /\ UNCHANGED <<tracker, cut>> /\ Browsing

Truncated == {"max_profiles", "max_total_observations"}

\* Seeded fault: the refusal is not kept for the user.
RefusedSilently(s, reason) == Stepped

Refused(s, reason) == [Stepped EXCEPT !.reasons[s.user] = @ \cup {reason}]

Accepted(s, d) ==
    [Stepped EXCEPT !.found = @ \cup {EvidenceOf(s, keyword, d.tracker)},
                    !.reasons[s.user] = @ \cup (d.reached \cap Truncated)]

Extract(s) ==
    LET d == Consume(tracker, s, keyword)
        run == IF d.accepted THEN Accepted(s, d)
               ELSE Refused(s, d.reason)
        why == IF d.accepted THEN "max_total_observations" ELSE d.reason
    IN  /\ at = "browsing" /\ MayStep
        /\ Pass
        /\ tracker' = d.tracker
        /\ cut' = IF d.accepted THEN cut ELSE cut \cup {<<keyword, s.user>>}
        /\ IF d.stop THEN Finish(run, why)
           ELSE agent' = run /\ UNCHANGED at
        /\ Browsing

Done ==
    /\ at = "browsing" /\ MayStep
    /\ Pass
    /\ Finish(Stepped, "")
    /\ UNCHANGED <<tracker, cut>> /\ Browsing

-----------------------------------------------------------------------------
(* What the keyword found                                                  *)

OfKeyword(found, k) == {e \in found : e.keyword = k}

UsersIn(found) == {e.sighting.user : e \in found}

VideosIn(found) == {e.sighting.video : e \in found} \ {None}

Authored(found) == {e \in found : e.sighting.source = "profile"}

\* _merge_candidates: reasons only of users that have evidence here.
Merge(into, found, reasons) ==
    [evidence |-> into.evidence \cup found,
     reasons |-> [u \in User |-> into.reasons[u] \cup
                      IF u \in UsersIn(found) THEN reasons[u] ELSE {}]]

MarkAll(reasons, why) == [u \in User |-> reasons[u] \cup {why}]

PerUser == {"max_profiles", "max_total_observations", "max_videos_per_keyword",
            "max_comments_per_video", "max_author_videos"}

\* _record_keyword_metrics; visited holds videos of the platform.
Metric(candidates, k, use, why, visited) ==
    LET found == OfKeyword(candidates.evidence, k)
    IN  [reported |-> TRUE,
         videos |-> VideosIn(found) \cup visited,
         candidates |-> Cardinality(UsersIn(found)),
         pages |-> use.pages, calls |-> use.calls, time |-> use.time,
         authored |-> VideosIn(Authored(found)),
         observations |-> Cardinality(found),
         reasons |-> (UNION {candidates.reasons[u] : u \in UsersIn(found)})
                     \cup ({why} \ {""})]

Report(candidates, use, why) ==
    LET metric == Metric(candidates, keyword, use, why, agent.visited)
    IN  /\ metrics' = [metrics EXCEPT ![keyword] = metric]
        /\ fruitless' = IF /\ agent.why = "max_steps" /\ metric.videos = {}
                           /\ metric.candidates = 0
                        THEN fruitless \cup {keyword} ELSE fruitless
        /\ keyword' = keyword + 1
        /\ at' = "loop"

Use == [pages |-> agent.pages, calls |-> agent.calls, time |-> agent.time]

\* Why the keyword ended: what the agent says, or what is used up now.
Reason(left, time) ==
    IF agent.why # "" THEN agent.why
    ELSE IF left.pages <= 0 THEN "max_pages"
    ELSE IF left.calls <= 0 THEN "max_llm_calls"
    ELSE IF time >= MaxTime \/ clock' >= MaxTime THEN "max_duration_minutes"
    ELSE ""

\* The agent's result is only taken when it stayed within its time.
TakeResult ==
    LET left == [pages |-> budget.pages - agent.pages,
                 calls |-> budget.calls - agent.calls]
        why == Reason(left, totals.time + agent.time)
        reasons == IF why \in PerUser \cup {""} THEN agent.reasons
                   ELSE MarkAll(agent.reasons, why)
        candidates == Merge(merged, agent.found, reasons)
    IN  /\ at = "returned" /\ agent.time <= MaxTime - agent.from
        /\ clock' \in Later
        /\ budget' = left
        /\ totals' = [pages |-> totals.pages + agent.pages,
                      calls |-> totals.calls + agent.calls,
                      time |-> totals.time + agent.time]
        /\ merged' = candidates
        /\ agent' = [agent EXCEPT !.why = why]
        /\ IF /\ why \in {"", "max_llm_calls", "max_steps"}
              /\ ~Exhausted(tracker) /\ left.pages > 0 /\ clock' < MaxTime
           THEN at' = "searching" /\ UNCHANGED <<keyword, metrics, fruitless>>
           ELSE Report(candidates, Use, why)
        /\ UNCHANGED <<maxCalls, tracker, stored>> /\ History

\* "Hermes exceeded remaining duration budget"
ResultTooLate ==
    /\ at = "returned" /\ agent.time > MaxTime - agent.from
    /\ failed' = failed \cup {keyword}
    /\ keyword' = keyword + 1
    /\ at' = "loop"
    /\ clock' \in Later
    /\ UNCHANGED <<tracker, budget, agent, stored, cut>> /\ Collected

-----------------------------------------------------------------------------
(* The plain search for users                                              *)

\* _direct_user_candidates: those refused are passed over.
AddUser(so, u) ==
    LET d == Consume(so.tracker, DirectUser(u), keyword)
    IN  [tracker |-> d.tracker,
         found |-> IF d.accepted
                   THEN so.found \cup {EvidenceOf(DirectUser(u), keyword,
                                                   d.tracker)}
                   ELSE so.found,
         reasons |-> [so.reasons EXCEPT ![u] = @ \cup d.reached]]

Searched(users) ==
    FoldLeft(AddUser, [tracker |-> tracker, found |-> {},
                       reasons |-> NoReasons], users)

\* Seeded fault: the page of the search is not added to the totals.
WithSearchUncounted(use) == use

WithSearch(use) == [use EXCEPT !.pages = @ + 1]

SearchUsers(users) ==
    LET all == Searched(users)
        left == [budget EXCEPT !.pages = @ - 1]
        limit == IF left.pages <= 0 THEN "max_pages"
                 ELSE IF clock' >= MaxTime THEN "max_duration_minutes" ELSE ""
        reasons == IF limit = "" THEN all.reasons
                   ELSE MarkAll(all.reasons, limit)
        candidates == Merge(merged, all.found, reasons)
    IN  /\ at = "searching"
        /\ clock' \in Later
        /\ tracker' = all.tracker
        /\ budget' = left
        /\ totals' = WithSearch(totals)
        /\ merged' = candidates
        /\ Report(candidates, [Use EXCEPT !.pages = @ + 1],
                  IF limit = "" THEN agent.why ELSE limit)
        /\ UNCHANGED <<maxCalls, agent, stored>> /\ History

\* The user after these is no valid evidence: the page is counted and these
\* users stay counted in the tracker, but nobody is kept.
SearchFails(users) ==
    /\ at = "searching"
    /\ failed' = failed \cup {keyword}
    /\ keyword' = keyword + 1
    /\ at' = "loop"
    /\ clock' \in Later
    /\ tracker' = Searched(users).tracker
    /\ budget' = [budget EXCEPT !.pages = @ - 1]
    /\ totals' = WithSearch(totals)
    /\ UNCHANGED <<maxCalls, agent, metrics, merged, fruitless, stored, cut>>

-----------------------------------------------------------------------------
(* The batch                                                               *)

Unreported == {k \in Keyword : ~metrics[k].reported}

\* What explains that a keyword was not searched, or its search failed.
Terminal ==
    IF budget.pages <= 0 THEN "max_pages"
    ELSE IF totals.time >= MaxTime \/ clock >= MaxTime
         THEN "max_duration_minutes"
    ELSE IF tracker.reasons # {} THEN First(tracker.reasons)
    ELSE ""

NoUse == [pages |-> 0, calls |-> 0, time |-> 0]

Fruitless == fruitless = Keyword /\ merged.evidence = {}

\* "search_exhausted_without_evidence"
FindNothing ==
    /\ at = "closing" /\ Fruitless
    /\ at' = "failed"
    /\ UNCHANGED <<keyword, clock, tracker, budget, agent, stored>>
    /\ Collected /\ History

CloseBatch ==
    /\ at = "closing" /\ ~Fruitless
    /\ metrics' = [k \in Keyword |->
                      IF k \in Unreported /\ Terminal # ""
                      THEN Metric(merged, k, NoUse, Terminal, {})
                      ELSE metrics[k]]
    /\ at' = "batch"
    /\ UNCHANGED <<maxCalls, keyword, clock, tracker, budget, agent, totals,
                   merged, fruitless, stored>>
    /\ History

Reported == Keyword \ Unreported

\* A keyword without figures adds nothing.
InAll(figure) == SumFunction([k \in Keyword |-> metrics[k][figure]])

AllPages == InAll("pages")
AllCalls == InAll("calls")
AllTime == InAll("time")

CommentsAt(v) ==
    {e.sighting.comment : e \in {x \in merged.evidence :
                                    x.sighting.video = v}} \ {None}

AuthoredBy(u) ==
    VideosIn({e \in Authored(merged.evidence) : e.sighting.user = u})

\* Seeded fault: the totals are not compared with the keywords.
InconsistentNever == FALSE

Inconsistent == \/ totals.pages # AllPages \/ totals.calls # AllCalls
                \/ totals.time # AllTime

\* _validate_acquisition_batch, in the order of its errors.
Complaint ==
    [profiles |-> Cardinality(UsersIn(merged.evidence)) > MaxProfiles,
     observations |-> Cardinality(merged.evidence) > MaxObservations,
     videos |-> \E k \in Keyword :
                   Cardinality(VideosIn(OfKeyword(merged.evidence, k)))
                       > MaxVideos,
     comments |-> \E v \in Video \cup {None} :
                     Cardinality(CommentsAt(v)) > MaxComments,
     author_videos |-> \E u \in User :
                          Cardinality(AuthoredBy(u)) > MaxAuthorVideos,
     missing |-> Unreported # {},
     explored |-> \E k \in Reported :
                     Cardinality(metrics[k].videos) > MaxVideos,
     candidates |-> \E k \in Reported : metrics[k].candidates > MaxProfiles,
     all_authors |-> \E k \in Reported :
                        Cardinality(metrics[k].authored) > MaxAuthorVideos,
     pages |-> AllPages > MaxPages \/ totals.pages > MaxPages,
     calls |-> AllCalls > maxCalls \/ totals.calls > maxCalls,
     time |-> AllTime > MaxTime \/ totals.time > MaxTime,
     reported |-> InAll("observations") > MaxObservations,
     totals |-> Inconsistent]

Complaints == {c \in DOMAIN Complaint : Complaint[c]}

RefuseBatch ==
    /\ at = "batch" /\ Complaints # {}
    /\ at' = "refused"
    /\ UNCHANGED <<keyword, clock, tracker, budget, agent, stored>>
    /\ Collected /\ History

\* Equal evidence has the same fingerprint and is stored once.
StoredEvidence ==
    stored.evidence \cup {[keyword |-> e.keyword, sighting |-> e.sighting] :
                             e \in merged.evidence}

\* discovery_status: a truncated user is to be looked at again.
StoredStatus(u) ==
    IF u \notin UsersIn(merged.evidence) THEN stored.status[u]
    ELSE IF merged.reasons[u] # {} THEN "needs_more_evidence"
    ELSE "candidate"

\* candidate_count: the batch or the keyword's figures, whatever is more.
StoredCandidates(k) ==
    Max({Cardinality(UsersIn(OfKeyword(merged.evidence, k))),
         metrics[k].candidates})

\* Stage01CandidateAgent.persist and the figures, in one transaction.
StoreBatch ==
    /\ at = "batch" /\ Complaints = {}
    /\ stored' =
         [evidence |-> StoredEvidence,
          status |-> [u \in User |-> StoredStatus(u)],
          videos |-> [k \in Keyword |-> Cardinality(metrics[k].videos)],
          candidates |-> [k \in Keyword |-> StoredCandidates(k)]]
    /\ at' = "stored"
    /\ UNCHANGED <<keyword, clock, tracker, budget, agent>>
    /\ Collected /\ History

\* The transaction fails, or the collector's task is cancelled.
StoreFails ==
    /\ at = "batch"
    /\ at' = "failed"
    /\ UNCHANGED <<keyword, clock, tracker, budget, agent, stored>>
    /\ Collected /\ History

Cancelled ==
    /\ at \in {"opening", "browsing", "searching"}
    /\ at' = "cancelled"
    /\ UNCHANGED <<keyword, clock, tracker, budget, agent, stored>>
    /\ Collected /\ History

-----------------------------------------------------------------------------
AgentStep ==
    \/ Open \/ LeavePlatform \/ TimeOut \/ NoMoreSteps \/ IdleStep
    \/ VisitTooMany \/ Done
    \/ \E v \in Video \cup {None}, counted \in {0, 1} : Visit(v, counted)
    \/ \E s \in Seen : Extract(s)

\* Each card of the search names another user.
Listing == {users \in UNION {[1..n -> User] : n \in 0..Cardinality(User)} :
                \A i, j \in DOMAIN users : users[i] = users[j] => i = j}

KeywordStep ==
    \/ StartKeyword \/ StopKeywords \/ KeywordFails
    \/ TakeResult \/ ResultTooLate
    \/ \E users \in Listing : SearchUsers(users) \/ SearchFails(users)

BatchStep ==
    \/ FindNothing \/ CloseBatch \/ RefuseBatch \/ StoreBatch \/ StoreFails

Next == AgentStep \/ KeywordStep \/ BatchStep \/ Cancelled

Spec == Init /\ [][Next]_vars
=============================================================================
