--------------------------- MODULE CandidateFilter ---------------------------
(***************************************************************************)
(* Stage 02 of a campaign.  The filter stage pages through the candidates  *)
(* that wait for a decision, asks two agents about each of them, a bounded *)
(* number at a time, and writes what they suggest.  People review the same *)
(* candidates through the API while the agents think.                      *)
(*                                                                         *)
(* Everything runs on one event loop: an operation is atomic up to its     *)
(* next await, so one action is the code from one await to the next.       *)
(***************************************************************************)
EXTENDS CandidateReview, FiniteSets, Sequences

LOCAL INSTANCE FiniteSetsExt

CONSTANTS
    NumUsers,      \* the candidates of the job are 1..NumUsers
    PageSize,      \* how many candidates one page reads
    Concurrency,   \* stage02_candidate_concurrency
    MaxReviews,    \* bound: reviews of all candidates
    MaxRetries     \* bound: runs of the stage after the first

ASSUME FilterAssumption ==
    /\ {NumUsers, PageSize, Concurrency} \subseteq Nat \ {0}
    /\ {MaxReviews, MaxRetries} \subseteq Nat

User == 1..NumUsers

VARIABLES
    cand,       \* the database: pipeline_job_users
    audits,     \* the database: candidate_review_audits, oldest first
    assessed,   \* the database: how many candidate_assessments each has
    screen,     \* what the reviewer's page shows of each candidate
    stage,      \* the filter stage: where it is
    after,      \* its paging cursor, after_user_id
    task,       \* one task of gather for each candidate of the page
    retries,    \* runs of the stage after the first
    applied,    \* history: the last assessment that was applied
    seen        \* history: how many audits there were when the task read

store == <<cand, audits, assessed>>
runner == <<stage, after, task, retries>>
vars == <<store, screen, runner, applied, seen>>

Audit == [action : ReviewAction \cup {"update_labels"},
          before : QualificationStatus,
          result : QualificationStatus]

StageState == {"idle", "paging", "gather", "done", "failed"}

TaskState == {"none", "queued", "enriching", "qualifying", "finished"}

\* A task works on what the page read of its candidate.
Task == [at : TaskState, version : Nat, starting : QualificationStatus,
         score : Nat]

NoTask == [at |-> "none", version |-> 0, starting |-> "manual_review",
           score |-> 0]

FilterTypeOK ==
    /\ cand \in [User -> Candidate]
    /\ audits \in [User -> Seq(Audit)]
    /\ assessed \in [User -> Nat]
    /\ screen \in [User -> Nat]
    /\ stage \in StageState
    /\ after \in 0..NumUsers
    /\ task \in [User -> Task]
    /\ retries \in 0..MaxRetries
    /\ applied \in [User -> Nat]
    /\ seen \in [User -> Nat]

Init ==
    /\ cand = [u \in User |-> NewCandidate]
    /\ audits = [u \in User |-> <<>>]
    /\ assessed = [u \in User |-> 0]
    /\ screen = [u \in User |-> 0]
    /\ stage = "idle"
    /\ after = 0
    /\ task = [u \in User |-> NoTask]
    /\ retries = 0
    /\ applied = [u \in User |-> 0]
    /\ seen = [u \in User |-> 0]

-----------------------------------------------------------------------------
(* The stage                                                               *)

StageStarts ==
    /\ stage = "idle"
    /\ stage' = "paging"
    /\ after' = 0
    /\ UNCHANGED <<store, screen, task, retries, applied, seen>>

Waiting == {u \in User : u > after /\ cand[u].qualification \in AiPending}

\* The users of the next page, the PageSize lowest ids that wait.
Page == {u \in Waiting :
            Cardinality({w \in Waiting : w < u}) < PageSize}

TaskFor(u) == [at |-> "queued", version |-> cand[u].version,
               starting |-> cand[u].qualification, score |-> cand[u].score]

\* Seeded fault: the cursor stays where it was.
CursorStays(page) == after

CursorAfter(page) == CHOOSE u \in page : \A w \in page : w <= u

ReadPage ==
    /\ stage = "paging"
    /\ Page # {}
    /\ stage' = "gather"
    /\ after' = CursorAfter(Page)
    /\ task' = [u \in User |-> IF u \in Page THEN TaskFor(u) ELSE NoTask]
    /\ seen' = [u \in User |-> IF u \in Page THEN Len(audits[u])
                                             ELSE seen[u]]
    /\ UNCHANGED <<store, screen, retries, applied>>

LastPage ==
    /\ stage = "paging"
    /\ Page = {}
    /\ stage' = "done"
    /\ UNCHANGED <<store, screen, after, task, retries, applied, seen>>

PageDone ==
    /\ stage = "gather"
    /\ \A u \in User : task[u].at \in {"none", "finished"}
    /\ stage' = "paging"
    /\ task' = [u \in User |-> NoTask]
    /\ UNCHANGED <<store, screen, after, retries, applied, seen>>

\* An exception that is not an agent's, or the end of the runner: gather's
\* siblings are cancelled and the stage is over.
StageFails ==
    /\ stage \in {"paging", "gather"}
    /\ stage' = "failed"
    /\ task' = [u \in User |-> NoTask]
    /\ UNCHANGED <<store, screen, after, retries, applied, seen>>

\* retry_once: the runner calls the stage again, from the first page.
RetryStage ==
    /\ stage = "failed"
    /\ retries < MaxRetries
    /\ stage' = "idle"
    /\ retries' = retries + 1
    /\ UNCHANGED <<store, screen, after, task, applied, seen>>

-----------------------------------------------------------------------------
(* The task of one candidate                                               *)

Running == {u \in User : task[u].at \in {"enriching", "qualifying"}}

TaskGoes(u, at) == task' = [task EXCEPT ![u].at = at]

KeepStage == UNCHANGED <<audits, screen, stage, after, retries, seen>>

\* The semaphore lets tasks in in the order of the page.
TaskBegins(u) ==
    /\ task[u].at = "queued"
    /\ \A w \in User : task[w].at = "queued" => u <= w
    /\ Cardinality(Running) < Concurrency
    /\ TaskGoes(u, "enriching")
    /\ KeepStage /\ UNCHANGED <<cand, assessed, applied>>

Enriched(u) ==
    /\ task[u].at = "enriching"
    /\ TaskGoes(u, "qualifying")
    /\ KeepStage /\ UNCHANGED <<cand, assessed, applied>>

\* The AI's write, if the row is still what the task read.
WriteAi(u, target) ==
    cand' = [cand EXCEPT ![u] =
                IF CanUpdateAi(@, task[u].version, task[u].starting)
                THEN UpdateAiQualification(@, target) ELSE @]

EnrichmentFails(u) ==
    /\ task[u].at = "enriching"
    /\ WriteAi(u, "need_enrichment")
    /\ TaskGoes(u, "finished")
    /\ KeepStage /\ UNCHANGED <<assessed, applied>>

QualificationFails(u) ==
    /\ task[u].at = "qualifying"
    /\ WriteAi(u, "manual_review")
    /\ TaskGoes(u, "finished")
    /\ KeepStage /\ UNCHANGED <<assessed, applied>>

\* The AI may suggest a verdict; it is recorded as work for people.
Suggested(suggestion) ==
    IF suggestion \in Verdict THEN "manual_review" ELSE suggestion

\* Seeded fault: a suggested verdict is written as it is.
AssessVerbatim(c, t, target, id) ==
    IF CanUpdateAi(c, t.version, t.starting)
    THEN UpdateAiQualification([c EXCEPT !.score = id], "qualified")
    ELSE [c EXCEPT !.score = t.score]

\* create_assessment scores the row, then update_ai_qualification writes
\* the status; when it does not, the scores the task read come back.
Assess(c, t, target, id) ==
    LET scored == [c EXCEPT !.score = id]
    IN  IF CanUpdateAi(c, t.version, t.starting)
        THEN UpdateAiQualification(scored, target)
        ELSE [scored EXCEPT !.score = t.score]

Assessed(u, suggestion) ==
    LET target == Suggested(suggestion)
        c == Assess(cand[u], task[u], target, assessed[u] + 1)
    IN  /\ task[u].at = "qualifying"
        /\ assessed' = [assessed EXCEPT ![u] = @ + 1]
        /\ cand' = [cand EXCEPT ![u] = c]
        /\ applied' = [applied EXCEPT ![u] =
               IF CanUpdateAi(cand[u], task[u].version, task[u].starting)
               THEN assessed[u] + 1 ELSE @]
        /\ TaskGoes(u, "finished")
        /\ KeepStage

-----------------------------------------------------------------------------
(* The reviewer                                                            *)

KeepRunner == UNCHANGED <<assessed, runner, applied, seen>>

OpenCandidate(u) ==
    /\ screen[u] # cand[u].version
    /\ screen' = [screen EXCEPT ![u] = cand[u].version]
    /\ UNCHANGED <<cand, audits>> /\ KeepRunner

Record(u, action) ==
    audits' = [audits EXCEPT ![u] =
                  Append(@, [action |-> action,
                             before |-> cand[u].qualification,
                             result |-> cand'[u].qualification])]

Reviews == MapThenSumSet(LAMBDA u : Len(audits[u]), User)

ReviewCandidate(u, action) ==
    /\ Reviews < MaxReviews
    /\ CanTransition(cand[u], action, screen[u])
    /\ cand' = [cand EXCEPT ![u] = TransitionCandidate(@, action)]
    /\ Record(u, action)
    /\ UNCHANGED screen /\ KeepRunner

Relabel(u) ==
    /\ Reviews < MaxReviews
    /\ CanRelabel(cand[u], screen[u])
    /\ cand' = [cand EXCEPT ![u] = UpdateLabels(@)]
    /\ Record(u, "update_labels")
    /\ UNCHANGED screen /\ KeepRunner

-----------------------------------------------------------------------------
StageStep ==
    \/ StageStarts \/ ReadPage \/ LastPage \/ PageDone
    \/ StageFails \/ RetryStage

TaskStep(u) ==
    \/ TaskBegins(u) \/ Enriched(u) \/ EnrichmentFails(u)
    \/ QualificationFails(u)
    \/ \E suggestion \in QualificationStatus : Assessed(u, suggestion)

ReviewStep(u) ==
    \/ OpenCandidate(u)
    \/ \E action \in ReviewAction : ReviewCandidate(u, action)
    \/ Relabel(u)

Next == StageStep \/ \E u \in User : TaskStep(u) \/ ReviewStep(u)

Spec == Init /\ [][Next]_vars

\* The loop runs every task on, and every agent answers or times out.
Fairness ==
    /\ WF_vars(StageStarts \/ ReadPage \/ LastPage \/ PageDone)
    /\ \A u \in User : WF_vars(TaskStep(u))

FairSpec == Spec /\ Fairness
=============================================================================
