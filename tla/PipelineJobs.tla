---------------------------- MODULE PipelineJobs ----------------------------
(***************************************************************************)
(* The pipeline service: the dispatcher that claims queued jobs, one       *)
(* runner coroutine per claimed job, the decision gate a runner waits in,  *)
(* the API requests that create, cancel, answer and retry jobs, and the    *)
(* shutdown, crash and restart of the process.                             *)
(*                                                                         *)
(* One action is one database transaction, or one await of an external     *)
(* service (browser provider, concurrency manager, stage work) together    *)
(* with the code up to the next one.  pc[j] is where the runner of job j   *)
(* is inside run_job; "idle" when it has none.                             *)
(***************************************************************************)
EXTENDS PipelineDecisions, ConcurrencyManager

CONSTANTS
    Job,             \* job identifiers
    NoJob,           \* the NULL of retry_of_job_id
    PlatformOfJob,   \* the platform a job was submitted for
    Faults,          \* subset of FaultKind: the failures the environment shows
    MaxCheckpoints   \* bound: a review is only opened below this checkpoint id

FaultKind == {"crash", "shutdown", "browser", "gate", "stage"}

ASSUME JobAssumption ==
    /\ NoJob \notin Job
    /\ PlatformOfJob \in [Job -> Platform]
    /\ Faults \subseteq FaultKind
    /\ MaxCheckpoints \in Nat

VARIABLES
    row,        \* the database: job, stages and latest checkpoint of each job
    retryOf,    \* the database: retry_of_job_id
    due,        \* jobs whose pending checkpoint is past its deadline
    up,         \* the process: "up", "stopping" (tasks cancelled) or "down"
    pc,         \* where each runner is
    run,        \* the local variables of each runner
    lease,      \* the account each runner (owned_lease) holds
    browser,    \* the account each runner's open browser session controls
    stuck,      \* accounts of _quarantined_resources: browser may live
    disp,       \* the dispatcher's local variables
    answer      \* a resolve request between its read and its write

dbVars == <<row, retryOf, due>>
runnerVars == <<pc, run, lease, browser, stuck>>
vars == <<dbVars, up, runnerVars, disp, answer, managerVars>>

-----------------------------------------------------------------------------

\* Where a runner is suspended in an await, which shutdown cancels.
AwaitPC == {"open", "wait", "running", "review_release", "reacquire",
            "reacquire_load", "reacquire_lease", "reacquire_open", "release"}

PC == AwaitPC \cup
      {"idle", "load", "top", "start", "before", "check", "failure", "after",
       "review", "expire", "answered", "retry", "stop", "cancel_self",
       "cancel_stage", "skip_outreach", "finish", "skip_rest", "checked",
       "final", "final_check", "reacquire_cancel", "reacquired", "cancel",
       "error"}

ErrorCode == {"retryable", "blocked", "other"}

Locals == [stage : 0..NumStages,    \* loop variable of the stage loop
           retried : BOOLEAN,       \* retry_count = 1
           code : ErrorCode \cup {"none"},  \* error_code
           outcome : TERMINAL_STAGE_STATUSES \cup {"none"},  \* stage_status
           option : Option \cup {"none"},   \* resolution.option_key
           failed : BOOLEAN,        \* failed_stages is not empty
           skipRest : BOOLEAN]      \* skip_remaining

InitLocals == [stage |-> 0, retried |-> FALSE, code |-> "none",
               outcome |-> "none", option |-> "none", failed |-> FALSE,
               skipRest |-> FALSE]

Dispatch == [pc : {"idle", "scan", "preflight", "leased"},
             queue : SUBSET Job,
             job : Job \cup {NoJob},
             account : Account \cup {NoAccount}]

InitDispatch ==
    [pc |-> "idle", queue |-> {}, job |-> NoJob, account |-> NoAccount]

NoAnswer == [id |-> 0, option |-> "none", source |-> "none"]

Answer == [id : Nat, option : Option \cup {"none"},
           source : {"none", "human", "timeout"}]

TypeOK ==
    /\ row \in [Job -> Row]
    /\ retryOf \in [Job -> Job \cup {NoJob}]
    /\ due \subseteq Job
    /\ up \in {"up", "stopping", "down"}
    /\ pc \in [Job -> PC]
    /\ run \in [Job -> Locals]
    /\ lease \in [Job -> Account \cup {NoAccount}]
    /\ browser \in [Job -> Account \cup {NoAccount}]
    /\ stuck \subseteq Account
    /\ disp \in Dispatch
    /\ answer \in [Job -> Answer]
    /\ ManagerTypeOK

Init ==
    /\ row = [j \in Job |-> NoRow]
    /\ retryOf = [j \in Job |-> NoJob]
    /\ due = {}
    /\ up = "up"
    /\ pc = [j \in Job |-> "idle"]
    /\ run = [j \in Job |-> InitLocals]
    /\ lease = [j \in Job |-> NoAccount]
    /\ browser = [j \in Job |-> NoAccount]
    /\ stuck = {}
    /\ disp = InitDispatch
    /\ answer = [j \in Job |-> NoAnswer]
    /\ ManagerInit

-----------------------------------------------------------------------------
(* Small parts of the runner's actions.                                    *)

Goto(j, l) == pc' = [pc EXCEPT ![j] = l]

SetRow(j, r) == row' = [row EXCEPT ![j] = r]

SetRun(j, locals) == run' = [run EXCEPT ![j] = locals]

\* _is_cancelling reads the job's status.
IsCancelling(j) == row[j].status = "cancelling"

\* What the steps of a runner leave alone: everything outside it; the
\* database; its browser and lease.
KeepOthers == UNCHANGED <<retryOf, up, disp, answer>>
KeepDb == UNCHANGED <<row, due>>
KeepResources == UNCHANGED <<lease, browser, stuck, managerVars>>

\* A step that only moves the runner, possibly setting locals.
JustGoto(j, l) ==
    Goto(j, l) /\ UNCHANGED run /\ KeepDb /\ KeepResources /\ KeepOthers

\* A transaction on the job's rows, then on to l.
Write(j, r, l) ==
    /\ SetRow(j, r) /\ Goto(j, l)
    /\ UNCHANGED <<run, due>> /\ KeepResources /\ KeepOthers

\* A compare-and-swap whose failure raises into run_job's handlers.
WriteIf(j, can, r, l) ==
    IF can THEN Write(j, r, l) ELSE JustGoto(j, "error")

\* release(): the browser session is confirmed closed, then the lease goes.
FreeResources(j) ==
    /\ browser' = [browser EXCEPT ![j] = NoAccount]
    /\ lease' = [lease EXCEPT ![j] = NoAccount]
    /\ IF lease[j] = NoAccount THEN UNCHANGED managerVars
                               ELSE ReleaseAccount(lease[j])
    /\ UNCHANGED stuck

-----------------------------------------------------------------------------
(* The runner up to the first stage                                        *)

Load(j) ==
    /\ pc[j] = "load"
    /\ JustGoto(j, IF IsCancelling(j) THEN "cancel"
                   ELSE IF row[j].status = "running" THEN "open" ELSE "error")

OpenBrowser(j) ==
    /\ pc[j] = "open" /\ up = "up"
    /\ browser' = [browser EXCEPT ![j] = row[j].account]
    /\ Goto(j, "top")
    /\ UNCHANGED <<run, lease, stuck, managerVars>> /\ KeepDb /\ KeepOthers

OpenBrowserFails(j) ==
    /\ pc[j] = "open" /\ up = "up" /\ "browser" \in Faults
    /\ JustGoto(j, "error")

-----------------------------------------------------------------------------
(* The stage loop                                                          *)

StagesLeft(j) == {s \in StagesOf(row[j]) : s > run[j].stage}

\* Seeded fault: the stages are taken in no particular order.
NextStageUnordered(j) ==
    /\ pc[j] = "top"
    /\ \E s \in {t \in Stage : row[j].stages[t] = "pending"} :
          SetRun(j, [run[j] EXCEPT !.stage = s, !.retried = FALSE,
                                   !.code = "none", !.outcome = "none"])
    /\ Goto(j, IF IsCancelling(j) THEN "cancel" ELSE "start")
    /\ KeepDb /\ KeepResources /\ KeepOthers

NextStage(j) ==
    /\ pc[j] = "top"
    /\ \E s \in StagesLeft(j) :
          /\ \A t \in StagesLeft(j) : s <= t
          /\ SetRun(j, [run[j] EXCEPT !.stage = s, !.retried = FALSE,
                                      !.code = "none", !.outcome = "none"])
    /\ Goto(j, IF IsCancelling(j) THEN "cancel" ELSE "start")
    /\ KeepDb /\ KeepResources /\ KeepOthers

NoStageLeft(j) ==
    /\ pc[j] = "top" /\ StagesLeft(j) = {}
    /\ JustGoto(j, "final")

BeginStage(j) ==
    LET s == run[j].stage
    IN  /\ pc[j] = "start"
        /\ WriteIf(j, CanStartStage(row[j], s), StartStage(row[j], s),
                   IF s = OutreachStage THEN "before" ELSE "check")

CheckCancelled(j) ==
    /\ pc[j] = "check"
    /\ JustGoto(j, IF IsCancelling(j) THEN "cancel" ELSE "running")

StageSucceeds(j) ==
    /\ pc[j] = "running" /\ up = "up"
    /\ SetRun(j, [run[j] EXCEPT !.outcome = "succeeded"])
    /\ Goto(j, "after")
    /\ KeepDb /\ KeepResources /\ KeepOthers

\* A reported error: with a campaign a known code asks for a decision,
\* everything else fails the stage.
StageFails(j, code) ==
    /\ pc[j] = "running" /\ up = "up" /\ "stage" \in Faults
    /\ IF row[j].campaign /\ code \in {"retryable", "blocked"}
       THEN /\ SetRun(j, [run[j] EXCEPT !.code = code])
            /\ Goto(j, "failure")
       ELSE /\ SetRun(j, [run[j] EXCEPT !.outcome = "failed",
                                        !.failed = TRUE])
            /\ Goto(j, "finish")
    /\ KeepDb /\ KeepResources /\ KeepOthers

StageRaises(j) ==
    /\ pc[j] = "running" /\ up = "up" /\ "stage" \in Faults
    /\ JustGoto(j, "error")

\* The policy has nothing to ask.
NothingToAsk(j) ==
    \/ pc[j] = "before" /\ JustGoto(j, "check")
    \/ pc[j] = "after" /\ JustGoto(j, "finish")

Finish(j) ==
    LET s == run[j].stage
    IN  /\ pc[j] = "finish"
        /\ WriteIf(j, CanFinishStage(row[j], s),
                   FinishStage(row[j], s, run[j].outcome),
                   IF run[j].skipRest THEN "skip_rest" ELSE "checked")

SkipRest(j) ==
    /\ pc[j] = "skip_rest"
    /\ Write(j, SkipPendingStages(row[j]), "final")

CheckFinished(j) ==
    /\ pc[j] = "checked"
    /\ JustGoto(j, IF IsCancelling(j) THEN "cancel" ELSE "top")

\* Seeded fault: failed stages are forgotten at the end.
FinalStatusOptimistic(locals) == "succeeded"

FinalStatus(locals) == IF locals.failed THEN "partial_failed" ELSE "succeeded"

CloseFinished(j) ==
    /\ pc[j] = "final"
    /\ IF CanClose(row[j])
       THEN Write(j, CloseJob(row[j], FinalStatus(run[j])), "release")
       ELSE JustGoto(j, "final_check")

\* Seeded fault: a cancellation that beat the final write is dropped.
CheckFinalDropsCancel(j) ==
    /\ pc[j] = "final_check"
    /\ JustGoto(j, "release")

CheckFinal(j) ==
    /\ pc[j] = "final_check"
    /\ JustGoto(j, IF IsCancelling(j) THEN "cancel"
                   ELSE IF row[j].status = FinalStatus(run[j]) THEN "release"
                   ELSE "error")

-----------------------------------------------------------------------------
(* Decisions inside a stage                                                *)

\* await_decision's transaction and the registration of the waiter.
Ask(j, plan) ==
    IF CanOpenDecision(row[j], run[j].stage)
    THEN /\ SetRow(j, OpenDecision(row[j], run[j].stage, plan))
         /\ due' = due \ {j}
         /\ Goto(j, "wait")
         /\ UNCHANGED run /\ KeepResources /\ KeepOthers
    ELSE JustGoto(j, "error")

AskBefore(j) ==
    /\ pc[j] = "before"
    /\ \E plan \in BeforePlans(row[j], run[j].stage) : Ask(j, plan)

AskAfter(j) ==
    /\ pc[j] = "after"
    /\ \E plan \in AfterPlans(row[j], run[j].stage) : Ask(j, plan)

AskFailure(j) ==
    /\ pc[j] = "failure"
    /\ Ask(j, ErrorPlan(run[j].code, run[j].retried))

AskReview(j) ==
    /\ pc[j] = "review"
    /\ Ask(j, ManualReviewSession)

\* The waiter's checkpoint is the latest one: only its runner creates them.
\* A cancelled one raises through the waiter's cleanup into the handlers.
TakeResolution(j) ==
    LET checkpoint == row[j].ckpt
    IN  IF checkpoint.status = "cancelled"
        THEN Write(j, ResumeWaiting(row[j], run[j].stage), "error")
        ELSE /\ SetRun(j, [run[j] EXCEPT !.option = checkpoint.resolution])
             /\ Goto(j, "answered")
             /\ KeepDb /\ KeepResources /\ KeepOthers

\* Seeded fault: the waiter never looks at the deadline.
PollDecisionNeverExpires(j) ==
    /\ pc[j] = "wait" /\ up = "up"
    /\ row[j].ckpt.status # "pending" /\ TakeResolution(j)

\* One turn of the waiter's loop that finds something.
PollDecision(j) ==
    LET checkpoint == row[j].ckpt
    IN  /\ pc[j] = "wait" /\ up = "up"
        /\ \/ checkpoint.status # "pending" /\ TakeResolution(j)
           \/ /\ checkpoint.status = "pending"
              /\ AutoTimeout(checkpoint.kind) /\ j \in due
              /\ JustGoto(j, "expire")

\* Seeded fault: a timeout that lost the race still takes its default.
ExpireTakesDefault(j) ==
    LET checkpoint == row[j].ckpt
    IN  /\ pc[j] = "expire"
        /\ SetRow(j, ResolveOnce(row[j], checkpoint.id, checkpoint.default,
                                 "timeout"))
        /\ SetRun(j, [run[j] EXCEPT !.option = checkpoint.default])
        /\ Goto(j, "answered")
        /\ UNCHANGED due /\ KeepResources /\ KeepOthers

\* The deadline has passed: apply the default, or take what came first.
Expire(j) ==
    LET checkpoint == row[j].ckpt
    IN  /\ pc[j] = "expire"
        /\ IF CanResolveOnce(row[j], checkpoint.id)
           THEN /\ SetRow(j, ResolveOnce(row[j], checkpoint.id,
                                         checkpoint.default, "timeout"))
                /\ SetRun(j, [run[j] EXCEPT !.option = checkpoint.default])
                /\ Goto(j, "answered")
                /\ UNCHANGED due /\ KeepResources /\ KeepOthers
           ELSE IF checkpoint.status = "pending" THEN JustGoto(j, "wait")
           ELSE TakeResolution(j)

\* The wait itself fails; the cleanup's first attempt may fail as well.
WaiterFails(j) ==
    /\ pc[j] = "wait" /\ up = "up" /\ "gate" \in Faults
    /\ \E r \in {ResumeWaiting(row[j], run[j].stage),
                 InterruptWaiting(row[j], run[j].stage)} :
          Write(j, r, "error")

\* What the runner does for each option.
Continuation(option) ==
    CASE option \in {"continue_with_current_evidence", "skip_stage",
                     "continue_with_qualified_only",
                     "skip_remaining_pipeline"} -> "finish"
      [] option \in {"open_review_workbench",
                     "open_strategy_workbench"} -> "review_release"
      [] option = "approve_all_safe_drafts" -> "check"
      [] option = "cancel_job" -> "cancel_self"
      [] option = "skip_outreach" -> "skip_outreach"
      [] option = "retry_once" -> "retry"
      [] option = "stop_job" -> "stop"
      [] option = "review_complete" -> "reacquire"
      [] OTHER -> "error"

\* await_plan looks for a cancellation before it acts on the answer.
ActOnAnswer(j) ==
    LET option == run[j].option
    IN  /\ pc[j] = "answered"
        /\ IF IsCancelling(j)
           THEN JustGoto(j, "cancel")
           ELSE /\ SetRun(j, [run[j] EXCEPT
                      !.outcome = IF option = "skip_stage" THEN "skipped"
                                                           ELSE @,
                      !.failed = @ \/ option = "skip_stage",
                      !.skipRest = @ \/ option = "skip_remaining_pipeline"])
                /\ Goto(j, Continuation(option))
                /\ KeepDb /\ KeepResources /\ KeepOthers

\* approve_all_safe_drafts may refuse, after the answer was taken.
ApprovalFails(j) ==
    /\ pc[j] = "answered" /\ run[j].option = "approve_all_safe_drafts"
    /\ ~IsCancelling(j) /\ "stage" \in Faults
    /\ JustGoto(j, "error")

\* One transaction that commits whatever it did before the runner looks.
RetryStage(j) ==
    LET s == run[j].stage
        r == IF CanFinishStage(row[j], s)
             THEN FinishStage(row[j], s, "failed") ELSE row[j]
    IN  /\ pc[j] = "retry"
        /\ SetRow(j, IF CanStartStage(r, s) THEN StartStage(r, s) ELSE r)
        /\ IF CanFinishStage(row[j], s) /\ CanStartStage(r, s)
           THEN /\ SetRun(j, [run[j] EXCEPT !.retried = TRUE])
                /\ Goto(j, "check")
           ELSE Goto(j, "error") /\ UNCHANGED run
        /\ UNCHANGED due /\ KeepResources /\ KeepOthers

StopJob(j) ==
    LET s == run[j].stage
        stopped == SkipPendingStages(FinishStage(row[j], s, "failed"))
    IN  /\ pc[j] = "stop"
        /\ WriteIf(j, CanFinishStage(row[j], s) /\ CanClose(row[j]),
                   CloseJob(stopped, "failed"), "release")

SkipOutreach(j) ==
    LET s == run[j].stage
    IN  /\ pc[j] = "skip_outreach"
        /\ WriteIf(j, CanFinishStage(row[j], s),
                   FinishStage(row[j], s, "skipped"), "top")

\* cancel_job as an answer: the same request an API client makes.
CancelSelf(j) ==
    /\ pc[j] = "cancel_self"
    /\ Write(j, RequestCancel(row[j]), "cancel_stage")

CancelStage(j) ==
    LET s == run[j].stage
    IN  /\ pc[j] = "cancel_stage"
        /\ WriteIf(j, CanFinishStage(row[j], s),
                   FinishStage(row[j], s, "cancelled"), "cancel")

-----------------------------------------------------------------------------
(* Manual review: the browser and the account are given back while a       *)
(* person works, and taken again afterwards.                               *)

ReleaseForReview(j) ==
    /\ pc[j] = "review_release" /\ up = "up"
    /\ FreeResources(j)
    /\ Goto(j, "review")
    /\ UNCHANGED run /\ KeepDb /\ KeepOthers

\* manual_review_release_failed: browser and lease are both kept.
ReleaseForReviewFails(j) ==
    /\ pc[j] = "review_release" /\ up = "up" /\ "browser" \in Faults
    /\ JustGoto(j, "error")

\* The job must still be running; then the preflight of job creation, then
\* the job again and the provider's availability.
Reacquire(j) ==
    /\ up = "up"
    /\ \/ /\ pc[j] = "reacquire"
          /\ JustGoto(j, IF row[j].status = "running" THEN "reacquire_load"
                                                      ELSE "error")
       \/ /\ pc[j] = "reacquire_load"
          /\ JustGoto(j, IF row[j].status = "running" THEN "reacquire_lease"
                                                      ELSE "error")

ReacquireFails(j) ==
    /\ pc[j] \in {"reacquire", "reacquire_load"}
    /\ up = "up" /\ "browser" \in Faults
    /\ JustGoto(j, "error")

\* Polls until the account is free or the job is being cancelled.
ReacquireLease(j) ==
    /\ pc[j] = "reacquire_lease" /\ up = "up"
    /\ IF IsCancelling(j)
       THEN JustGoto(j, "cancel")
       ELSE /\ Acquire(row[j].account)
            /\ lease' = [lease EXCEPT ![j] = row[j].account]
            /\ Goto(j, "reacquire_cancel")
            /\ UNCHANGED <<run, browser, stuck>> /\ KeepDb /\ KeepOthers

\* Seeded fault: the stage goes on with the account but without a browser.
CheckReacquiredSkipsBrowser(j) ==
    /\ pc[j] = "reacquire_cancel"
    /\ JustGoto(j, "reacquired")

CheckReacquired(j) ==
    /\ pc[j] = "reacquire_cancel"
    /\ IF IsCancelling(j)
       THEN /\ FreeResources(j)
            /\ Goto(j, "cancel")
            /\ UNCHANGED run /\ KeepDb /\ KeepOthers
       ELSE JustGoto(j, "reacquire_open")

ReopenBrowser(j) ==
    /\ pc[j] = "reacquire_open" /\ up = "up"
    /\ browser' = [browser EXCEPT ![j] = row[j].account]
    /\ Goto(j, "reacquired")
    /\ UNCHANGED <<run, lease, stuck, managerVars>> /\ KeepDb /\ KeepOthers

ReopenBrowserFails(j) ==
    /\ pc[j] = "reacquire_open" /\ up = "up" /\ "browser" \in Faults
    /\ FreeResources(j)
    /\ Goto(j, "error")
    /\ UNCHANGED run /\ KeepDb /\ KeepOthers

\* Outreach looks at its drafts again; the filter stage is done.
ResumeAfterReview(j) ==
    /\ pc[j] = "reacquired"
    /\ JustGoto(j, IF IsCancelling(j) THEN "cancel"
                   ELSE IF run[j].stage = OutreachStage THEN "before"
                   ELSE "finish")

-----------------------------------------------------------------------------
(* How a runner ends                                                       *)

\* _finish_cancellation; rolled back unless the job is being cancelled.
FinishCancellation(r) ==
    IF r.status = "cancelling"
    THEN [Settle(r, {"running", "pending"}, "cancelled")
            EXCEPT !.status = "cancelled"]
    ELSE r

\* Seeded fault: the job fails, its stage goes on running.
FailJobOnly(r) ==
    IF r.status \in {"running", "cancelling"}
    THEN [r EXCEPT !.status = IF @ = "running" THEN "failed" ELSE "cancelled"]
    ELSE r

\* _finish_internal_error: a cancellation that was under way is completed.
FinishInternalError(r) ==
    LET failed == Settle(r, {"running"}, "failed")
    IN  CASE r.status = "cancelling" ->
                [CancelPendingStages(failed) EXCEPT !.status = "cancelled"]
          [] r.status = "running" -> [failed EXCEPT !.status = "failed"]
          [] OTHER -> r

EndCancelled(j) ==
    /\ pc[j] = "cancel"
    /\ Write(j, FinishCancellation(row[j]), "release")

EndInError(j) ==
    /\ pc[j] = "error"
    /\ Write(j, FinishInternalError(row[j]), "release")

\* Seeded fault: without a browser to close, the lease is not returned.
ReleaseOnlyWithBrowser(j) ==
    /\ pc[j] = "release"
    /\ IF browser[j] = NoAccount THEN KeepResources ELSE FreeResources(j)
    /\ Goto(j, "idle") /\ SetRun(j, InitLocals)
    /\ KeepDb /\ KeepOthers

\* The finally block; the coroutine is over.
Release(j) ==
    /\ pc[j] = "release"
    /\ FreeResources(j)
    /\ Goto(j, "idle") /\ SetRun(j, InitLocals)
    /\ KeepDb /\ KeepOthers

\* The provider does not confirm that the browser is closed: its account is
\* quarantined together with the session.
ReleaseUnconfirmed(j) ==
    /\ pc[j] = "release" /\ "browser" \in Faults
    /\ browser[j] # NoAccount /\ lease[j] # NoAccount
    /\ QuarantineAccount(lease[j])
    /\ stuck' = stuck \cup {lease[j]}
    /\ browser' = [browser EXCEPT ![j] = NoAccount]
    /\ lease' = [lease EXCEPT ![j] = NoAccount]
    /\ Goto(j, "idle") /\ SetRun(j, InitLocals)
    /\ KeepDb /\ KeepOthers

\* retry_quarantined_release, when the provider now confirms.
RetryQuarantinedRelease(a) ==
    /\ up = "up" /\ a \in stuck
    /\ stuck' = stuck \ {a}
    /\ ReleaseAccount(a)
    /\ UNCHANGED <<pc, run, lease, browser>> /\ KeepDb /\ KeepOthers

\* Shutdown cancels the task at its await; the gate's waiter withdraws its
\* question on the way out.
Killed(j) ==
    /\ up = "stopping" /\ pc[j] \in AwaitPC \ {"release"}
    /\ Write(j, IF pc[j] = "wait" THEN ResumeWaiting(row[j], run[j].stage)
                                  ELSE row[j], "release")

-----------------------------------------------------------------------------
(* The dispatcher                                                          *)

KeepRunners == UNCHANGED <<pc, run, browser, stuck>>
KeepApi == UNCHANGED <<retryOf, due, up, answer>>

\* One poll reads the queue; what follows works on that snapshot.
Poll ==
    LET queued == {j \in Job : row[j].status = "queued"}
    IN  /\ up = "up" /\ disp.pc = "idle" /\ queued # {}
        /\ disp' = [disp EXCEPT !.pc = "scan", !.queue = queued]
        /\ UNCHANGED <<row, lease, managerVars>> /\ KeepRunners /\ KeepApi

\* The next candidate account of a job in the snapshot.
Consider(j, a) ==
    /\ disp.pc = "scan" /\ j \in disp.queue
    /\ PlatformOf[a] = PlatformOfJob[j] /\ a \notin activeAccounts
    /\ disp' = [disp EXCEPT !.pc = "preflight", !.job = j, !.account = a]
    /\ UNCHANGED <<row, lease, managerVars>> /\ KeepRunners /\ KeepApi

EndScan ==
    /\ disp.pc = "scan"
    /\ disp' = InitDispatch
    /\ UNCHANGED <<row, lease, managerVars>> /\ KeepRunners /\ KeepApi

\* check_available has returned; nobody held the lease while it ran.
LeaseAccount ==
    LET a == disp.account
    IN  /\ disp.pc = "preflight"
        /\ IF CanAcquire(a)
           THEN Acquire(a) /\ disp' = [disp EXCEPT !.pc = "leased"]
           ELSE UNCHANGED managerVars /\ disp' = [disp EXCEPT !.pc = "scan"]
        /\ UNCHANGED <<row, lease>> /\ KeepRunners /\ KeepApi

AccountUnavailable ==
    /\ disp.pc = "preflight" /\ "browser" \in Faults
    /\ disp' = [disp EXCEPT !.pc = "scan"]
    /\ UNCHANGED <<row, lease, managerVars>> /\ KeepRunners /\ KeepApi

\* Claim the job and hand the lease to its runner, or give it back.
Claim ==
    LET j == disp.job
        a == disp.account
    IN  /\ disp.pc = "leased"
        /\ IF CanClaim(row[j])
           THEN /\ SetRow(j, ClaimJob(row[j], a))
                /\ lease' = [lease EXCEPT ![j] = a]
                /\ Goto(j, "load")
                /\ disp' = InitDispatch
                /\ UNCHANGED managerVars
           ELSE /\ ReleaseAccount(a)
                /\ disp' = [disp EXCEPT !.pc = "scan"]
                /\ UNCHANGED <<row, lease, pc>>
        /\ UNCHANGED <<run, browser, stuck>> /\ KeepApi

-----------------------------------------------------------------------------
(* Requests                                                                *)

KeepProcess == UNCHANGED <<up, runnerVars, disp, managerVars>>

\* A campaign's stages begin with collect, the first of PIPELINE_STAGES.
CreatePipelineJob(j, campaign, included) ==
    /\ up = "up" /\ row[j].status = "absent"
    /\ campaign => /\ CollectStage \in included
                   /\ \A s \in included : CollectStage <= s
    /\ SetRow(j, CreateJob(campaign, included))
    /\ UNCHANGED <<retryOf, due, answer>> /\ KeepProcess

CancelJob(j) ==
    /\ up = "up" /\ row[j].status # "absent"
    /\ SetRow(j, RequestCancel(row[j]))
    /\ UNCHANGED <<retryOf, due, answer>> /\ KeepProcess

\* Seeded fault: of a job that failed the stages that never began are left out.
RetryFailedOnly(r) ==
    LET failed == {s \in Stage : r.stages[s] = "failed"}
    IN  {s \in StagesOf(r) :
            IF r.campaign THEN s >= CollectStage
                          ELSE failed = {} \/ s \in failed}

\* The stages a retry runs again: from the first failed one, or all of them;
\* a campaign starts over at collect.
RetryStages(r) ==
    LET failed == {s \in Stage : r.stages[s] = "failed"}
    IN  {s \in StagesOf(r) :
            IF r.campaign THEN s >= CollectStage
                          ELSE failed = {} \/ \E f \in failed : f <= s}

RetryJob(j, retried) ==
    /\ up = "up"
    /\ row[j].status \in {"failed", "partial_failed", "interrupted"}
    /\ row[retried].status = "absent"
    /\ PlatformOfJob[retried] = PlatformOfJob[j]
    /\ SetRow(retried, CreateJob(row[j].campaign, RetryStages(row[j])))
    /\ retryOf' = [retryOf EXCEPT ![retried] = j]
    /\ UNCHANGED <<due, answer>> /\ KeepProcess

\* resolve reads the checkpoint first: past its deadline the default is
\* applied in place of the answer.  Reviews stay within the bound.
ReadDecision(j, option) ==
    LET checkpoint == row[j].ckpt
        late == AutoTimeout(checkpoint.kind) /\ j \in due
    IN  /\ up = "up" /\ answer[j] = NoAnswer
        /\ checkpoint.status = "pending" /\ option \in checkpoint.options
        /\ option \in {"open_review_workbench", "open_strategy_workbench"}
              => checkpoint.id < MaxCheckpoints
        /\ answer' = [answer EXCEPT ![j] =
              [id |-> checkpoint.id,
               option |-> IF late THEN checkpoint.default ELSE option,
               source |-> IF late THEN "timeout" ELSE "human"]]
        /\ KeepDb /\ UNCHANGED retryOf /\ KeepProcess

\* ... and then writes, unless the checkpoint is not pending any more.
CommitDecision(j) ==
    /\ up # "down" /\ answer[j] # NoAnswer
    /\ SetRow(j, ResolveOnce(row[j], answer[j].id, answer[j].option,
                             answer[j].source))
    /\ answer' = [answer EXCEPT ![j] = NoAnswer]
    /\ UNCHANGED <<retryOf, due>> /\ KeepProcess

\* Time passes a pending checkpoint's deadline.
DeadlinePasses(j) ==
    /\ row[j].ckpt.status = "pending" /\ AutoTimeout(row[j].ckpt.kind)
    /\ j \notin due
    /\ due' = due \cup {j}
    /\ UNCHANGED <<row, retryOf, answer>> /\ KeepProcess

-----------------------------------------------------------------------------
(* The process                                                             *)

LoseMemory ==
    /\ pc' = [j \in Job |-> "idle"]
    /\ run' = [j \in Job |-> InitLocals]
    /\ lease' = [j \in Job |-> NoAccount]
    /\ browser' = [j \in Job |-> NoAccount]
    /\ stuck' = {}
    /\ disp' = InitDispatch
    /\ answer' = [j \in Job |-> NoAnswer]
    /\ activeAccounts' = {}
    /\ activeByPlatform' = [p \in Platform |-> 0]
    /\ quarantinedAccounts' = {}

\* PipelineRuntime.stop: the dispatcher has finished its poll, then every
\* runner task is cancelled.
Shutdown ==
    /\ up = "up" /\ "shutdown" \in Faults /\ disp.pc = "idle"
    /\ up' = "stopping"
    /\ UNCHANGED <<dbVars, runnerVars, disp, answer, managerVars>>

Exit ==
    /\ up = "stopping"
    /\ \A j \in Job : pc[j] = "idle" /\ answer[j] = NoAnswer
    /\ up' = "down"
    /\ LoseMemory
    /\ UNCHANGED dbVars

Crash ==
    /\ up # "down" /\ "crash" \in Faults
    /\ up' = "down"
    /\ LoseMemory
    /\ UNCHANGED dbVars

\* PipelineRuntime.start recovers before it dispatches.
Restart ==
    /\ up = "down"
    /\ up' = "up"
    /\ row' = [j \in Job |-> RecoverInterrupted(row[j])]
    /\ UNCHANGED <<retryOf, due, runnerVars, disp, answer, managerVars>>

-----------------------------------------------------------------------------

\* The steps of a runner that go on by themselves when nothing fails.
RunnerStep(j) ==
    \/ Load(j) \/ OpenBrowser(j)
    \/ NextStage(j) \/ NoStageLeft(j) \/ BeginStage(j) \/ CheckCancelled(j)
    \/ StageSucceeds(j) \/ NothingToAsk(j) \/ Finish(j) \/ SkipRest(j)
    \/ CheckFinished(j) \/ CloseFinished(j) \/ CheckFinal(j)
    \/ AskBefore(j) \/ AskAfter(j) \/ AskFailure(j) \/ AskReview(j)
    \/ PollDecision(j) \/ Expire(j) \/ ActOnAnswer(j)
    \/ RetryStage(j) \/ StopJob(j) \/ SkipOutreach(j)
    \/ CancelSelf(j) \/ CancelStage(j)
    \/ ReleaseForReview(j) \/ Reacquire(j) \/ ReacquireLease(j)
    \/ CheckReacquired(j) \/ ReopenBrowser(j) \/ ResumeAfterReview(j)
    \/ EndCancelled(j) \/ EndInError(j) \/ Release(j) \/ Killed(j)

RunnerFault(j) ==
    \/ OpenBrowserFails(j) \/ StageRaises(j)
    \/ \E code \in ErrorCode : StageFails(j, code)
    \/ ApprovalFails(j) \/ WaiterFails(j) \/ ReleaseForReviewFails(j)
    \/ ReacquireFails(j)
    \/ ReopenBrowserFails(j) \/ ReleaseUnconfirmed(j)

DispatcherStep ==
    \/ Poll \/ EndScan \/ LeaseAccount \/ AccountUnavailable \/ Claim
    \/ \E j \in Job, a \in Account : Consider(j, a)

Request(j) ==
    \/ \E campaign \in BOOLEAN, included \in (SUBSET Stage) \ {{}} :
          CreatePipelineJob(j, campaign, included)
    \/ CancelJob(j)
    \/ \E retried \in Job : RetryJob(j, retried)
    \/ \E option \in Option : ReadDecision(j, option)
    \/ CommitDecision(j)

Next ==
    \/ \E j \in Job : \/ RunnerStep(j) \/ RunnerFault(j)
                      \/ Request(j) \/ DeadlinePasses(j)
    \/ \E a \in Account : RetryQuarantinedRelease(a)
    \/ DispatcherStep
    \/ Shutdown \/ Exit \/ Crash \/ Restart

Spec == Init /\ [][Next]_vars

\* asyncio keeps running every task, the clock does not stop, an answer that
\* was begun is committed, and a service that is down is started again.
Fairness ==
    /\ \A j \in Job : /\ WF_vars(RunnerStep(j))
                      /\ WF_vars(DeadlinePasses(j))
                      /\ WF_vars(CommitDecision(j))
    /\ WF_vars(DispatcherStep)
    /\ WF_vars(Exit)
    /\ WF_vars(Restart)

FairSpec == Spec /\ Fairness
=============================================================================
