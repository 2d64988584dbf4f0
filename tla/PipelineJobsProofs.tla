------------------------- MODULE PipelineJobsProofs -------------------------
(***************************************************************************)
(* Proofs about PipelineJobs, for any jobs, accounts and stages.  First    *)
(* what the transactions preserve, types, and JobInv, which relates a job  *)
(* to its runner, and with it the agreement of decisions with their job    *)
(* and stage, and the rest of finished jobs.  Then ServiceInv: what a row, *)
(* its runner, its question and what the runner holds have to do with each *)
(* other, wherever the runner is; and that every step of the service keeps *)
(* it.  Last what follows from it: the books of the concurrency manager,   *)
(* the properties of the runs, that cancelled jobs do nothing more, that   *)
(* retries cover what failed, and that the service implements JobContract. *)
(***************************************************************************)
EXTENDS PipelineJobsProperties, FiniteSetTheorems, TLAPS

-----------------------------------------------------------------------------
(* Types                                                                   *)

LEMMA SettleType ==
    ASSUME NEW r \in Row, NEW from, NEW to \in StageStatus
    PROVE  Settle(r, from, to) \in Row
BY DEF Settle, Row

LEMMA StatusType ==
    ASSUME NEW r \in Row, NEW status \in JobStatus
    PROVE  [r EXCEPT !.status = status] \in Row
BY DEF Row

LEMMA ClaimJobType ==
    ASSUME NEW r \in Row, NEW a \in Account
    PROVE  ClaimJob(r, a) \in Row
<1>1. "running" \in JobStatus
  BY DEF JobStatus, ActiveJobStatus
<1> QED
  BY <1>1 DEF ClaimJob, Row

LEMMA CreateJobType ==
    ASSUME NEW campaign \in BOOLEAN, NEW included
    PROVE  CreateJob(campaign, included) \in Row
<1>1. NoRow \in Row
  BY StageAssumption DEF NoRow, NoCheckpoint, Row, Checkpoint
<1>2. [s \in Stage |-> IF s \in included THEN "pending" ELSE "none"]
        \in [Stage -> StageStatus \cup {"none"}]
  BY DEF StageStatus
<1>3. "queued" \in JobStatus
  BY DEF JobStatus
<1> QED
  BY <1>1, <1>2, <1>3 DEF CreateJob, Row

LEMMA StartStageType ==
    ASSUME NEW r \in Row, NEW s \in Stage
    PROVE  StartStage(r, s) \in Row
<1>1. [r.stages EXCEPT ![s] = "running"]
        \in [Stage -> StageStatus \cup {"none"}]
  BY DEF Row, StageStatus, LiveStageStatus
<1>2. [r.attempt EXCEPT ![s] = @ + 1] \in [Stage -> Nat]
  BY DEF Row
<1>3. s \in 0..NumStages
  BY StageAssumption DEF Stage
<1> QED
  BY <1>1, <1>2, <1>3 DEF Row, StartStage

LEMMA FinishStageType ==
    ASSUME NEW r \in Row, NEW s, NEW to \in StageStatus \cup {"none"}
    PROVE  FinishStage(r, s, to) \in Row
BY DEF FinishStage, Row

\* Job and stage change together, as the two-row swaps do.
LEMMA SwapType ==
    ASSUME NEW r \in Row, NEW s, NEW status \in JobStatus,
           NEW to \in StageStatus
    PROVE  [r EXCEPT !.status = status, !.stages[s] = to] \in Row
<1>1. [r.stages EXCEPT ![s] = to] \in [Stage -> StageStatus \cup {"none"}]
  BY DEF Row
<1> QED
  BY <1>1 DEF Row

LEMMA CheckpointType ==
    ASSUME NEW r \in Row, NEW c \in Checkpoint
    PROVE  [r EXCEPT !.ckpt = c] \in Row
BY DEF Row

LEMMA OpenDecisionType ==
    ASSUME NEW r \in Row, NEW s \in 0..NumStages, NEW plan \in Plan
    PROVE  OpenDecision(r, s, plan) \in Row
<1>1. CreateCheckpoint(r, s, plan) \in Row
  BY DEF CreateCheckpoint, Row, Plan, Checkpoint, CheckpointStatus
<1> QED
  BY <1>1, SwapType DEF OpenDecision, PauseForDecision, JobStatus,
     ActiveJobStatus, StageStatus, LiveStageStatus

LEMMA CancelCheckpointType ==
    ASSUME NEW r \in Row
    PROVE  CancelCheckpoint(r) \in Row
BY DEF CancelCheckpoint, Row, Checkpoint, CheckpointStatus

LEMMA ResolveOnceType ==
    ASSUME NEW r \in Row, NEW id, NEW option \in Option \cup {"none"},
           NEW source
    PROVE  ResolveOnce(r, id, option, source) \in Row
<1>1. ResolveCheckpoint(r, option, source) \in Row
  <2>1. [r.ckpt EXCEPT !.status = IF source = "timeout" THEN "expired"
                                                        ELSE "resolved",
                       !.resolution = option] \in Checkpoint
    BY DEF Row, Checkpoint, CheckpointStatus
  <2> QED
    BY <2>1, CheckpointType DEF ResolveCheckpoint, Row
<1> QED
  BY <1>1, SwapType DEF ResolveOnce, ResumeFromDecision, JobStatus,
     ActiveJobStatus, StageStatus, LiveStageStatus

LEMMA ResumeWaitingType ==
    ASSUME NEW r \in Row, NEW s
    PROVE  ResumeWaiting(r, s) \in Row
BY CancelCheckpointType, SwapType DEF ResumeWaiting, ResumeFromDecision,
   JobStatus, ActiveJobStatus, StageStatus, LiveStageStatus

LEMMA InterruptWaitingType ==
    ASSUME NEW r \in Row, NEW s
    PROVE  InterruptWaiting(r, s) \in Row
BY CancelCheckpointType, SwapType DEF InterruptWaiting,
   InterruptWaitingDecision, JobStatus, TERMINAL_JOB_STATUSES, StageStatus,
   TERMINAL_STAGE_STATUSES

LEMMA StatusWords ==
    /\ {"queued", "running", "waiting_decision", "cancelling", "succeeded",
        "partial_failed", "failed", "cancelled", "interrupted"} = JobStatus
    /\ {"pending", "running", "waiting_decision", "succeeded", "failed",
        "skipped", "cancelled"} = StageStatus
BY DEF JobStatus, ActiveJobStatus, TERMINAL_JOB_STATUSES, StageStatus,
   LiveStageStatus, TERMINAL_STAGE_STATUSES

LEMMA RequestCancelType ==
    ASSUME NEW r \in Row
    PROVE  RequestCancel(r) \in Row
<1>1. CASE r.status = "queued"
  <2>1. CancelPendingStages(r) \in Row
    BY SettleType, StatusWords DEF CancelPendingStages
  <2> QED
    BY <1>1, <2>1, StatusType, StatusWords DEF RequestCancel
<1>2. CASE r.status = "waiting_decision"
  <2>1. Settle(r, {"waiting_decision", "pending"}, "cancelled") \in Row
    BY SettleType, StatusWords
  <2> QED
    BY <1>2, <2>1, CancelCheckpointType, StatusType, StatusWords
    DEF RequestCancel
<1>3. CASE r.status = "running"
  BY <1>3, StatusType, StatusWords DEF RequestCancel
<1>4. CASE r.status \notin {"queued", "waiting_decision", "running"}
  BY <1>4 DEF RequestCancel
<1> QED
  BY <1>1, <1>2, <1>3, <1>4

LEMMA RecoverInterruptedType ==
    ASSUME NEW r \in Row
    PROVE  RecoverInterrupted(r) \in Row
<1>1. Settle(r, LiveStageStatus, "failed") \in Row
  BY SettleType, StatusWords
<1> QED
  BY <1>1, CancelCheckpointType, StatusType, StatusWords
  DEF RecoverInterrupted

-----------------------------------------------------------------------------
(* The agreement of a row's parts                                          *)

\* At most one stage is in progress, the current one, and only in a job that
\* somebody works for; the job waits exactly when that stage does, and exactly
\* then a question about it is pending.  No account without a job.
RowOK(r) ==
    /\ \A s \in LiveStages(r) : r.current = s /\ r.status \in ActiveJobStatus
    /\ \A s \in Stage : r.stages[s] = "waiting_decision"
                            => r.status = "waiting_decision"
    /\ r.status = "waiting_decision" =>
          /\ r.current \in Stage
          /\ r.stages[r.current] = "waiting_decision"
          /\ r.ckpt.status = "pending"
          /\ r.ckpt.stage = r.current
    /\ r.ckpt.status = "pending" => r.status = "waiting_decision"
    /\ r.status = "absent" => r.account = NoAccount

\* n agrees with itself, has no stage in progress that r has not, and is still
\* bound to r's account.
Shrinks(r, n) ==
    /\ RowOK(n)
    /\ LiveStages(n) \subseteq LiveStages(r)
    /\ n.account = r.account

LEMMA FinishStageShrinks ==
    ASSUME NEW r \in Row, RowOK(r), NEW s \in Stage, CanFinishStage(r, s),
           NEW to \in TERMINAL_STAGE_STATUSES \cup {"none"}
    PROVE  /\ Shrinks(r, FinishStage(r, s, to))
           /\ LiveStages(FinishStage(r, s, to)) = {}
BY DEF Shrinks, RowOK, FinishStage, CanFinishStage, Row, LiveStages,
   LiveStageStatus, TERMINAL_STAGE_STATUSES

\* The swap's guard is what makes a started stage the only one in progress.
LEMMA StartStageOK ==
    ASSUME NEW r \in Row, RowOK(r), NEW s \in Stage, CanStartStage(r, s),
           LiveStages(r) \subseteq {s}
    PROVE  /\ RowOK(StartStage(r, s))
           /\ LiveStages(StartStage(r, s)) \subseteq {s}
           /\ StartStage(r, s).account = r.account
BY DEF RowOK, StartStage, CanStartStage, Row, LiveStages, LiveStageStatus,
   ActiveJobStatus

LEMMA OpenDecisionShrinks ==
    ASSUME NEW r \in Row, RowOK(r), NEW s \in Stage, NEW plan,
           CanOpenDecision(r, s)
    PROVE  Shrinks(r, OpenDecision(r, s, plan))
BY DEF Shrinks, RowOK, CanOpenDecision, CanPause, CanCreateCheckpoint,
   OpenDecision, PauseForDecision, CreateCheckpoint, Row, LiveStages,
   LiveStageStatus, ActiveJobStatus

LEMMA ResolveOnceShrinks ==
    ASSUME NEW r \in Row, RowOK(r), NEW id, NEW option, NEW source
    PROVE  Shrinks(r, ResolveOnce(r, id, option, source))
BY DEF Shrinks, RowOK, ResolveOnce, CanResolveOnce, CanResolveCheckpoint,
   CanResume, ResumeFromDecision, ResolveCheckpoint, Row, Checkpoint,
   LiveStages, LiveStageStatus, ActiveJobStatus

\* A waiter that knows its stage leaves neither a question nor a waiting job.
LEMMA WaiterCleanupShrinks ==
    ASSUME NEW r \in Row, RowOK(r), NEW s \in Stage,
           LiveStages(r) \subseteq {s}
    PROVE  /\ Shrinks(r, ResumeWaiting(r, s))
           /\ Shrinks(r, InterruptWaiting(r, s))
<1>1. Shrinks(r, ResumeWaiting(r, s))
  BY DEF Shrinks, RowOK, ResumeWaiting, CancelCheckpoint, CanResume,
     ResumeFromDecision, Row, Checkpoint, LiveStages, LiveStageStatus,
     ActiveJobStatus
<1>2. Shrinks(r, InterruptWaiting(r, s))
  BY DEF Shrinks, RowOK, InterruptWaiting, CancelCheckpoint, CanResume,
     InterruptWaitingDecision, Row, Checkpoint, LiveStages, LiveStageStatus,
     ActiveJobStatus
<1> QED
  BY <1>1, <1>2

LEMMA RequestCancelShrinks ==
    ASSUME NEW r \in Row, RowOK(r)
    PROVE  Shrinks(r, RequestCancel(r))
BY DEF Shrinks, RowOK, RequestCancel, CancelPendingStages, Settle,
   CancelCheckpoint, Row, Checkpoint, LiveStages, LiveStageStatus,
   ActiveJobStatus

LEMMA RecoverInterruptedShrinks ==
    ASSUME NEW r \in Row, RowOK(r)
    PROVE  Shrinks(r, RecoverInterrupted(r))
BY DEF Shrinks, RowOK, RecoverInterrupted, Settle, CancelCheckpoint, Row,
   Checkpoint, LiveStages, LiveStageStatus, ActiveJobStatus

LEMMA SkipPendingShrinks ==
    ASSUME NEW r \in Row, RowOK(r)
    PROVE  Shrinks(r, SkipPendingStages(r))
BY DEF Shrinks, RowOK, SkipPendingStages, Settle, Row, LiveStages,
   LiveStageStatus

\* A running job may be closed once none of its stages is in progress.
LEMMA CloseJobShrinks ==
    ASSUME NEW r \in Row, RowOK(r), CanClose(r), LiveStages(r) = {},
           NEW status \in TERMINAL_JOB_STATUSES
    PROVE  Shrinks(r, CloseJob(r, status))
BY DEF Shrinks, RowOK, CloseJob, CanClose, Row, LiveStages, LiveStageStatus,
   TERMINAL_JOB_STATUSES

LEMMA NewJobOK ==
    ASSUME NEW campaign, NEW included
    PROVE  /\ RowOK(CreateJob(campaign, included))
           /\ LiveStages(CreateJob(campaign, included)) = {}
           /\ CreateJob(campaign, included).account = NoAccount
BY DEF RowOK, CreateJob, NoRow, NoCheckpoint, LiveStages, LiveStageStatus

LEMMA ClaimedJobOK ==
    ASSUME NEW r \in Row, RowOK(r), CanClaim(r), NEW a \in Account
    PROVE  /\ RowOK(ClaimJob(r, a))
           /\ LiveStages(ClaimJob(r, a)) = {}
           /\ ClaimJob(r, a).account = a
BY StatusWords DEF RowOK, ClaimJob, CanClaim, Row, LiveStages, LiveStageStatus,
   ActiveJobStatus

-----------------------------------------------------------------------------
(* The inductive invariant                                                 *)

\* Between two stages of a job none of its stages is in progress.
NoLivePC == {"load", "open", "top", "start", "skip_rest", "checked", "final",
             "final_check"}

\* Inside a stage only that one may be.
InStagePC == {"before", "check", "running", "failure", "after", "review",
              "wait", "expire", "answered", "retry", "stop", "cancel_self",
              "cancel_stage", "skip_outreach", "finish", "review_release",
              "reacquire", "reacquire_load", "reacquire_lease",
              "reacquire_open", "reacquire_cancel", "reacquired"}

\* A runner at l in stage s of a job with row r.
RunnerAt(r, l, s) ==
    /\ l \in NoLivePC => LiveStages(r) = {}
    /\ l \in InStagePC => LiveStages(r) \subseteq {s}
    /\ l \in InStagePC \cup {"start"} => s \in Stage
    /\ l # "idle" => r.account \in Account

JobOK(j) == RowOK(row[j]) /\ RunnerAt(row[j], pc[j], run[j].stage)

\* The dispatcher is busy with a job and an account.
DispatchOK ==
    disp.pc \in {"preflight", "leased"} =>
        disp.job \in Job /\ disp.account \in Account

JobInv == (\A j \in Job : JobOK(j)) /\ DispatchOK

-----------------------------------------------------------------------------
(* Types                                                                   *)

\* The variables a runner does not share with its database rows.
ResourceTypeOK ==
    /\ lease \in [Job -> Account \cup {NoAccount}]
    /\ browser \in [Job -> Account \cup {NoAccount}]
    /\ stuck \subseteq Account
    /\ ManagerTypeOK

LEMMA DatabaseStepType ==
    ASSUME TypeOK, row' \in [Job -> Row], due' \subseteq Job,
           pc' \in [Job -> PC], run' \in [Job -> Locals],
           KeepResources, KeepOthers
    PROVE  TypeOK'
BY DEF TypeOK, KeepResources, KeepOthers, ManagerTypeOK, managerVars

LEMMA ResourceStepType ==
    ASSUME TypeOK, KeepDb, KeepOthers, ResourceTypeOK',
           pc' \in [Job -> PC], run' \in [Job -> Locals]
    PROVE  TypeOK'
BY DEF TypeOK, ResourceTypeOK, KeepDb, KeepOthers

LEMMA JustGotoType ==
    ASSUME TypeOK, NEW j \in Job, NEW l \in PC, JustGoto(j, l)
    PROVE  TypeOK'
BY DatabaseStepType DEF TypeOK, JustGoto, Goto, KeepDb

LEMMA WriteType ==
    ASSUME TypeOK, NEW j \in Job, NEW l \in PC, NEW r \in Row, Write(j, r, l)
    PROVE  TypeOK'
BY DatabaseStepType DEF TypeOK, Write, SetRow, Goto

LEMMA LocalStepType ==
    ASSUME TypeOK, NEW j \in Job, NEW l \in PC, NEW locals \in Locals,
           SetRun(j, locals), Goto(j, l), KeepDb, KeepResources, KeepOthers
    PROVE  TypeOK'
BY DatabaseStepType DEF TypeOK, SetRun, Goto, KeepDb

LEMMA AcquireType ==
    ASSUME ManagerTypeOK, NEW a \in Account, Acquire(a)
    PROVE  ManagerTypeOK'
BY AccountAssumption DEF ManagerTypeOK, Acquire

LEMMA ReleaseAccountType ==
    ASSUME ManagerTypeOK, NEW a \in Account, ReleaseAccount(a)
    PROVE  ManagerTypeOK'
BY AccountAssumption DEF ManagerTypeOK, ReleaseAccount, Deactivate

LEMMA QuarantineAccountType ==
    ASSUME ManagerTypeOK, NEW a \in Account, QuarantineAccount(a)
    PROVE  ManagerTypeOK'
BY AccountAssumption DEF ManagerTypeOK, QuarantineAccount, Deactivate,
   managerVars

LEMMA FreeResourcesType ==
    ASSUME TypeOK, NEW j \in Job, FreeResources(j)
    PROVE  ResourceTypeOK'
<1>1. lease[j] \in Account \cup {NoAccount}
  BY DEF TypeOK
<1>2. ManagerTypeOK'
  BY <1>1, ReleaseAccountType
  DEF FreeResources, TypeOK, ManagerTypeOK, managerVars
<1> QED
  BY <1>2 DEF FreeResources, TypeOK, ResourceTypeOK

\* Every plan a policy returns is one.
LEMMA PlanType ==
    /\ \A r, s : BeforePlans(r, s) \subseteq Plan
    /\ \A r, s : AfterPlans(r, s) \subseteq Plan
    /\ \A code, retried : ErrorPlan(code, retried) \in Plan
    /\ ManualReviewSession \in Plan
<1>1. \A options \in SUBSET Option : StrategyReview(options) \in Plan
  BY DEF StrategyReview, Plan, DecisionKind, Option
<1>2. {} \in SUBSET Option /\ {"approve_all_safe_drafts"} \in SUBSET Option
  BY DEF Option
<1>3. InsufficientEvidence \in Plan /\ QualificationReview \in Plan
  BY DEF InsufficientEvidence, QualificationReview, Plan, DecisionKind, Option
<1>4. \A code, retried : ErrorPlan(code, retried) \in Plan
  BY DEF ErrorPlan, Plan, DecisionKind, Option
<1>5. ManualReviewSession \in Plan
  BY DEF ManualReviewSession, Plan, DecisionKind, Option
<1> QED
  BY <1>1, <1>2, <1>3, <1>4, <1>5 DEF BeforePlans, AfterPlans

LEMMA AskType ==
    ASSUME TypeOK, NEW j \in Job, NEW plan \in Plan, Ask(j, plan)
    PROVE  TypeOK'
<1>1. CASE CanOpenDecision(row[j], run[j].stage)
  <2>1. run[j].stage \in 0..NumStages /\ row[j] \in Row
    BY DEF TypeOK, Locals
  <2>2. OpenDecision(row[j], run[j].stage, plan) \in Row
    BY <2>1, OpenDecisionType
  <2> QED
    BY <1>1, <2>2, DatabaseStepType
    DEF Ask, TypeOK, SetRow, Goto, PC, AwaitPC
<1>2. CASE ~CanOpenDecision(row[j], run[j].stage)
  <2>1. JustGoto(j, "error")
    BY <1>2 DEF Ask
  <2> QED
    BY <2>1, JustGotoType DEF PC
<1> QED
  BY <1>1, <1>2

LEMMA TakeResolutionType ==
    ASSUME TypeOK, NEW j \in Job, TakeResolution(j)
    PROVE  TypeOK'
<1>0. row[j] \in Row /\ run[j] \in Locals
  BY DEF TypeOK
<1>1. CASE row[j].ckpt.status = "cancelled"
  BY <1>0, <1>1, ResumeWaitingType, WriteType DEF TakeResolution, PC
<1>2. CASE row[j].ckpt.status # "cancelled"
  <2>1. [run[j] EXCEPT !.option = row[j].ckpt.resolution] \in Locals
    BY <1>0 DEF Locals, Row, Checkpoint
  <2> QED
    BY <1>2, <2>1, LocalStepType DEF TakeResolution, PC
<1> QED
  BY <1>1, <1>2

LEMMA EndingTypes ==
    ASSUME NEW r \in Row
    PROVE  /\ FinishCancellation(r) \in Row
           /\ FinishInternalError(r) \in Row
<1>1. /\ Settle(r, {"running", "pending"}, "cancelled") \in Row
      /\ Settle(r, {"running"}, "failed") \in Row
  BY SettleType, StatusWords
<1>2. CancelPendingStages(Settle(r, {"running"}, "failed")) \in Row
  BY <1>1, SettleType, StatusWords DEF CancelPendingStages
<1>3. FinishCancellation(r) \in Row
  BY <1>1, StatusType, StatusWords DEF FinishCancellation
<1>4. FinishInternalError(r) \in Row
  <2>1. CASE r.status = "cancelling"
    BY <2>1, <1>2, StatusType, StatusWords DEF FinishInternalError
  <2>2. CASE r.status = "running"
    BY <2>2, <1>1, StatusType, StatusWords DEF FinishInternalError
  <2>3. CASE r.status \notin {"cancelling", "running"}
    BY <2>3 DEF FinishInternalError
  <2> QED
    BY <2>1, <2>2, <2>3
<1> QED
  BY <1>3, <1>4

\* A compare-and-swap of the runner's current stage.
LEMMA WriteIfType ==
    ASSUME TypeOK, NEW j \in Job, NEW l \in PC, NEW can, NEW r \in Row,
           WriteIf(j, can, r, l)
    PROVE  TypeOK'
BY WriteType, JustGotoType DEF WriteIf, PC

\* The runner's steps that leave its browser and lease alone.
LEMMA StageStepType ==
    ASSUME TypeOK, JobInv, NEW j \in Job,
           \/ Load(j) \/ NextStage(j) \/ NoStageLeft(j) \/ BeginStage(j)
           \/ CheckCancelled(j) \/ StageSucceeds(j) \/ NothingToAsk(j)
           \/ Finish(j) \/ SkipRest(j) \/ CheckFinished(j)
           \/ CloseFinished(j) \/ CheckFinal(j)
    PROVE  TypeOK'
<1> DEFINE s == run[j].stage
<1>0. row[j] \in Row /\ run[j] \in Locals
  BY DEF TypeOK
<1>1. CASE Load(j)
  BY <1>1, JustGotoType DEF Load, PC, AwaitPC
<1>2. CASE NextStage(j)
  <2>1. PICK t \in StagesLeft(j) :
          SetRun(j, [run[j] EXCEPT !.stage = t, !.retried = FALSE,
                                   !.code = "none", !.outcome = "none"])
    BY <1>2 DEF NextStage
  <2>2. t \in 0..NumStages
    BY StageAssumption DEF StagesLeft, StagesOf, Stage
  <2>3. [run[j] EXCEPT !.stage = t, !.retried = FALSE, !.code = "none",
                       !.outcome = "none"] \in Locals
    BY <1>0, <2>2 DEF Locals
  <2> QED
    BY <1>2, <2>1, <2>3, LocalStepType DEF NextStage, PC
<1>3. CASE NoStageLeft(j)
  BY <1>3, JustGotoType DEF NoStageLeft, PC
<1>4. CASE BeginStage(j)
  <2>1. s \in Stage
    BY <1>4 DEF BeginStage, JobInv, JobOK, RunnerAt
  <2>2. StartStage(row[j], s) \in Row
    BY <1>0, <2>1, StartStageType
  <2> QED
    BY <1>4, <2>2, WriteIfType DEF BeginStage, PC
<1>5. CASE CheckCancelled(j)
  BY <1>5, JustGotoType DEF CheckCancelled, PC, AwaitPC
<1>6. CASE StageSucceeds(j)
  <2>1. [run[j] EXCEPT !.outcome = "succeeded"] \in Locals
    BY <1>0 DEF Locals, TERMINAL_STAGE_STATUSES
  <2> QED
    BY <1>6, <2>1, LocalStepType DEF StageSucceeds, PC
<1>7. CASE NothingToAsk(j)
  BY <1>7, JustGotoType DEF NothingToAsk, PC
<1>8. CASE Finish(j)
  <2>1. run[j].outcome \in StageStatus \cup {"none"}
    BY <1>0 DEF Locals, StageStatus
  <2>2. FinishStage(row[j], s, run[j].outcome) \in Row
    BY <1>0, <2>1, FinishStageType
  <2> QED
    BY <1>8, <2>2, WriteIfType DEF Finish, PC
<1>9. CASE SkipRest(j)
  <2>1. SkipPendingStages(row[j]) \in Row
    BY <1>0, SettleType, StatusWords DEF SkipPendingStages
  <2> QED
    BY <1>9, <2>1, WriteType DEF SkipRest, PC
<1>10. CASE CheckFinished(j)
  BY <1>10, JustGotoType DEF CheckFinished, PC
<1>11. CASE CloseFinished(j)
  <2>1. CloseJob(row[j], FinalStatus(run[j])) \in Row
    BY <1>0, StatusType, StatusWords DEF CloseJob, FinalStatus
  <2> QED
    BY <1>11, <2>1, WriteType, JustGotoType
    DEF CloseFinished, PC, AwaitPC
<1>12. CASE CheckFinal(j)
  BY <1>12, JustGotoType DEF CheckFinal, PC, AwaitPC
<1> QED
  BY <1>1, <1>2, <1>3, <1>4, <1>5, <1>6, <1>7, <1>8, <1>9, <1>10, <1>11,
     <1>12

LEMMA DecisionStepType ==
    ASSUME TypeOK, JobInv, NEW j \in Job,
           \/ AskBefore(j) \/ AskAfter(j) \/ AskFailure(j) \/ AskReview(j)
           \/ PollDecision(j) \/ Expire(j) \/ ActOnAnswer(j)
           \/ RetryStage(j) \/ StopJob(j) \/ SkipOutreach(j)
           \/ CancelSelf(j) \/ CancelStage(j)
    PROVE  TypeOK'
<1> DEFINE s == run[j].stage
<1>0. row[j] \in Row /\ run[j] \in Locals
  BY DEF TypeOK
<1>1. CASE AskBefore(j)
  BY <1>1, PlanType, AskType DEF AskBefore
<1>2. CASE AskAfter(j)
  BY <1>2, PlanType, AskType DEF AskAfter
<1>3. CASE AskFailure(j)
  BY <1>3, PlanType, AskType DEF AskFailure
<1>4. CASE AskReview(j)
  BY <1>4, PlanType, AskType DEF AskReview
<1>5. CASE PollDecision(j)
  BY <1>5, TakeResolutionType, JustGotoType DEF PollDecision, PC
<1>6. CASE Expire(j)
  <2>1. CASE CanResolveOnce(row[j], row[j].ckpt.id)
    <3> DEFINE d == row[j].ckpt.default
    <3>1. d \in Option \cup {"none"}
      BY <1>0 DEF Row, Checkpoint
    <3>2. ResolveOnce(row[j], row[j].ckpt.id, d, "timeout") \in Row
      BY <1>0, <3>1, ResolveOnceType
    <3>3. [run[j] EXCEPT !.option = d] \in Locals
      BY <1>0, <3>1 DEF Locals
    <3> QED
      BY <1>6, <2>1, <3>2, <3>3, DatabaseStepType
      DEF Expire, TypeOK, SetRow, SetRun, Goto, PC
  <2>2. CASE ~CanResolveOnce(row[j], row[j].ckpt.id)
    BY <1>6, <2>2, TakeResolutionType, JustGotoType DEF Expire, PC, AwaitPC
  <2> QED
    BY <2>1, <2>2
<1>7. CASE ActOnAnswer(j)
  <2>1. CASE IsCancelling(j)
    BY <1>7, <2>1, JustGotoType DEF ActOnAnswer, PC
  <2>2. CASE ~IsCancelling(j)
    <3> DEFINE o == run[j].option
    <3>1. [run[j] EXCEPT
             !.outcome = IF o = "skip_stage" THEN "skipped" ELSE @,
             !.failed = @ \/ o = "skip_stage",
             !.skipRest = @ \/ o = "skip_remaining_pipeline"] \in Locals
      BY <1>0 DEF Locals, TERMINAL_STAGE_STATUSES
    <3>2. Continuation(o) \in PC
      BY DEF Continuation, PC, AwaitPC
    <3> QED
      BY <1>7, <2>2, <3>1, <3>2, LocalStepType DEF ActOnAnswer
  <2> QED
    BY <2>1, <2>2
<1>8. CASE RetryStage(j)
  <2> DEFINE r == IF CanFinishStage(row[j], s)
                  THEN FinishStage(row[j], s, "failed") ELSE row[j]
             n == IF CanStartStage(r, s) THEN StartStage(r, s) ELSE r
  <2>1. s \in Stage
    BY <1>8 DEF RetryStage, JobInv, JobOK, RunnerAt, InStagePC
  <2>2. r \in Row
    BY <1>0, FinishStageType, StatusWords
  <2>3. n \in Row
    BY <2>1, <2>2, StartStageType
  <2>4. [run[j] EXCEPT !.retried = TRUE] \in Locals
    BY <1>0 DEF Locals
  <2>5. row' \in [Job -> Row] /\ run' \in [Job -> Locals]
    BY <1>8, <2>3, <2>4 DEF RetryStage, SetRow, SetRun, TypeOK
  <2> QED
    BY <1>8, <2>5, DatabaseStepType DEF RetryStage, Goto, TypeOK, PC
<1>9. CASE StopJob(j)
  <2>1. FinishStage(row[j], s, "failed") \in Row
    BY <1>0, FinishStageType, StatusWords
  <2>2. SkipPendingStages(FinishStage(row[j], s, "failed")) \in Row
    BY <2>1, SettleType, StatusWords DEF SkipPendingStages
  <2>3. CloseJob(SkipPendingStages(FinishStage(row[j], s, "failed")),
                 "failed") \in Row
    BY <2>2, StatusType, StatusWords DEF CloseJob
  <2> QED
    BY <1>9, <2>3, WriteIfType DEF StopJob, PC, AwaitPC
<1>10. CASE SkipOutreach(j)
  BY <1>0, <1>10, FinishStageType, StatusWords, WriteIfType
  DEF SkipOutreach, PC
<1>11. CASE CancelSelf(j)
  BY <1>0, <1>11, RequestCancelType, WriteType DEF CancelSelf, PC
<1>12. CASE CancelStage(j)
  BY <1>0, <1>12, FinishStageType, StatusWords, WriteIfType
  DEF CancelStage, PC
<1> QED
  BY <1>1, <1>2, <1>3, <1>4, <1>5, <1>6, <1>7, <1>8, <1>9, <1>10, <1>11,
     <1>12

LEMMA InitLocalsType == InitLocals \in Locals
BY StageAssumption DEF InitLocals, Locals

\* Steps that move a browser or a lease, and the ends of a runner.
LEMMA ResourceStepTypes ==
    ASSUME TypeOK, JobInv, NEW j \in Job,
           \/ OpenBrowser(j) \/ ReleaseForReview(j) \/ Reacquire(j)
           \/ ReacquireLease(j) \/ CheckReacquired(j) \/ ReopenBrowser(j)
           \/ ResumeAfterReview(j) \/ EndCancelled(j) \/ EndInError(j)
           \/ Release(j) \/ Killed(j)
    PROVE  TypeOK'
<1>0. /\ row[j] \in Row /\ run[j] \in Locals /\ InitLocals \in Locals
      /\ row[j].account \in Account \cup {NoAccount}
  BY InitLocalsType DEF TypeOK, Row
<1>1. CASE OpenBrowser(j)
  <2>1. ResourceTypeOK'
    BY <1>0, <1>1 DEF OpenBrowser, TypeOK, ResourceTypeOK, ManagerTypeOK,
       managerVars
  <2> QED
    BY <1>1, <2>1, ResourceStepType DEF OpenBrowser, TypeOK, Goto, PC
<1>2. CASE ReleaseForReview(j)
  BY <1>2, FreeResourcesType, ResourceStepType
  DEF ReleaseForReview, TypeOK, Goto, PC
<1>3. CASE Reacquire(j)
  BY <1>3, JustGotoType DEF Reacquire, PC, AwaitPC
<1>4. CASE ReacquireLease(j)
  <2>1. CASE IsCancelling(j)
    BY <1>4, <2>1, JustGotoType DEF ReacquireLease, PC
  <2>2. CASE ~IsCancelling(j)
    <3>1. Acquire(row[j].account)
      BY <1>4, <2>2 DEF ReacquireLease
    <3>2. row[j].account \in Account
      BY <1>4 DEF JobInv, JobOK, RunnerAt, ReacquireLease
    <3>3. ResourceTypeOK'
      BY <1>0, <1>4, <2>2, <3>1, <3>2, AcquireType
      DEF ReacquireLease, TypeOK, ResourceTypeOK
    <3> QED
      BY <1>4, <2>2, <3>3, ResourceStepType
      DEF ReacquireLease, TypeOK, Goto, PC
  <2> QED
    BY <2>1, <2>2
<1>5. CASE CheckReacquired(j)
  <2>1. CASE IsCancelling(j)
    BY <1>5, <2>1, FreeResourcesType, ResourceStepType
    DEF CheckReacquired, TypeOK, Goto, PC
  <2>2. CASE ~IsCancelling(j)
    BY <1>5, <2>2, JustGotoType DEF CheckReacquired, PC, AwaitPC
  <2> QED
    BY <2>1, <2>2
<1>6. CASE ReopenBrowser(j)
  <2>1. ResourceTypeOK'
    BY <1>0, <1>6 DEF ReopenBrowser, TypeOK, ResourceTypeOK, ManagerTypeOK,
       managerVars
  <2> QED
    BY <1>6, <2>1, ResourceStepType DEF ReopenBrowser, TypeOK, Goto, PC
<1>7. CASE ResumeAfterReview(j)
  BY <1>7, JustGotoType DEF ResumeAfterReview, PC
<1>8. CASE EndCancelled(j)
  BY <1>0, <1>8, EndingTypes, WriteType DEF EndCancelled, PC, AwaitPC
<1>9. CASE EndInError(j)
  BY <1>0, <1>9, EndingTypes, WriteType DEF EndInError, PC, AwaitPC
<1>10. CASE Release(j)
  BY <1>0, <1>10, FreeResourcesType, ResourceStepType
  DEF Release, TypeOK, Goto, SetRun, PC
<1>11. CASE Killed(j)
  BY <1>0, <1>11, ResumeWaitingType, WriteType DEF Killed, PC, AwaitPC
<1> QED
  BY <1>1, <1>2, <1>3, <1>4, <1>5, <1>6, <1>7, <1>8, <1>9, <1>10, <1>11

LEMMA FaultStepTypes ==
    ASSUME TypeOK, JobInv, NEW j \in Job, RunnerFault(j)
    PROVE  TypeOK'
<1>0. /\ row[j] \in Row /\ run[j] \in Locals /\ InitLocals \in Locals
  BY InitLocalsType DEF TypeOK
<1>1. CASE OpenBrowserFails(j)
  BY <1>1, JustGotoType DEF OpenBrowserFails, PC
<1>2. CASE StageRaises(j)
  BY <1>2, JustGotoType DEF StageRaises, PC
<1>3. ASSUME NEW code \in ErrorCode, StageFails(j, code)
      PROVE  TypeOK'
  <2>1. /\ [run[j] EXCEPT !.code = code] \in Locals
        /\ [run[j] EXCEPT !.outcome = "failed", !.failed = TRUE] \in Locals
    BY <1>0 DEF Locals, TERMINAL_STAGE_STATUSES
  <2> QED
    BY <1>3, <2>1, LocalStepType DEF StageFails, PC
<1>4. CASE WaiterFails(j)
  <2>1. /\ ResumeWaiting(row[j], run[j].stage) \in Row
        /\ InterruptWaiting(row[j], run[j].stage) \in Row
    BY <1>0, ResumeWaitingType, InterruptWaitingType
  <2> QED
    BY <1>4, <2>1, WriteType DEF WaiterFails, PC
<1>5. CASE ReleaseForReviewFails(j)
  BY <1>5, JustGotoType DEF ReleaseForReviewFails, PC
<1>6. CASE ReacquireFails(j)
  BY <1>6, JustGotoType DEF ReacquireFails, PC
<1>7. CASE ReopenBrowserFails(j)
  BY <1>7, FreeResourcesType, ResourceStepType
  DEF ReopenBrowserFails, TypeOK, Goto, PC
<1>8. CASE ReleaseUnconfirmed(j)
  <2>1. lease[j] \in Account /\ QuarantineAccount(lease[j])
    BY <1>8 DEF ReleaseUnconfirmed, TypeOK
  <2>2. ResourceTypeOK'
    BY <1>8, <2>1, QuarantineAccountType
    DEF ReleaseUnconfirmed, TypeOK, ResourceTypeOK
  <2> QED
    BY <1>0, <1>8, <2>2, ResourceStepType
    DEF ReleaseUnconfirmed, TypeOK, Goto, SetRun, PC
<1>9. CASE ApprovalFails(j)
  BY <1>9, JustGotoType DEF ApprovalFails, PC
<1> QED
  BY <1>1, <1>2, <1>3, <1>4, <1>5, <1>6, <1>7, <1>8, <1>9 DEF RunnerFault

LEMMA DispatcherStepType ==
    ASSUME TypeOK, JobInv, DispatcherStep
    PROVE  TypeOK'
<1> USE DEF KeepRunners, KeepApi
<1>1. CASE Poll
  BY <1>1 DEF Poll, TypeOK, Dispatch, ManagerTypeOK, managerVars
<1>2. CASE EndScan
  BY <1>2 DEF EndScan, TypeOK, Dispatch, InitDispatch, ManagerTypeOK,
     managerVars
<1>3. CASE LeaseAccount
  <2>1. disp.account \in Account
    BY <1>3 DEF LeaseAccount, JobInv, DispatchOK
  <2>2. ManagerTypeOK'
    BY <1>3, <2>1, AcquireType
    DEF LeaseAccount, TypeOK, ManagerTypeOK, managerVars
  <2> QED
    BY <1>3, <2>2 DEF LeaseAccount, TypeOK, Dispatch
<1>4. CASE AccountUnavailable
  BY <1>4 DEF AccountUnavailable, TypeOK, Dispatch, ManagerTypeOK,
     managerVars
<1>5. CASE Claim
  <2>1. disp.job \in Job /\ disp.account \in Account
    BY <1>5 DEF Claim, JobInv, DispatchOK
  <2>2. ManagerTypeOK'
    BY <1>5, <2>1, ReleaseAccountType
    DEF Claim, TypeOK, ManagerTypeOK, managerVars
  <2>3. ClaimJob(row[disp.job], disp.account) \in Row
    BY <2>1, ClaimJobType DEF TypeOK
  <2> QED
    BY <1>5, <2>1, <2>2, <2>3
    DEF Claim, TypeOK, SetRow, Goto, Dispatch, InitDispatch, PC
<1>6. ASSUME NEW j \in Job, NEW a \in Account, Consider(j, a)
      PROVE  TypeOK'
  BY <1>6 DEF Consider, TypeOK, Dispatch, ManagerTypeOK, managerVars
<1> QED
  BY <1>1, <1>2, <1>3, <1>4, <1>5, <1>6 DEF DispatcherStep

LEMMA RequestType ==
    ASSUME TypeOK, NEW j \in Job, Request(j) \/ DeadlinePasses(j)
    PROVE  TypeOK'
<1> USE DEF KeepProcess, runnerVars, managerVars
<1>0. row[j] \in Row
  BY DEF TypeOK
<1>1. ASSUME NEW campaign \in BOOLEAN, NEW included,
             CreatePipelineJob(j, campaign, included)
      PROVE  TypeOK'
  BY <1>1, CreateJobType
  DEF CreatePipelineJob, TypeOK, SetRow, ManagerTypeOK
<1>2. CASE CancelJob(j)
  BY <1>0, <1>2, RequestCancelType DEF CancelJob, TypeOK, SetRow,
     ManagerTypeOK
<1>3. ASSUME NEW retried \in Job, RetryJob(j, retried)
      PROVE  TypeOK'
  <2>1. row[j].campaign \in BOOLEAN
    BY <1>0 DEF Row
  <2>2. CreateJob(row[j].campaign, RetryStages(row[j])) \in Row
    BY <2>1, CreateJobType
  <2> QED
    BY <1>3, <2>2 DEF RetryJob, TypeOK, SetRow, ManagerTypeOK
<1>4. ASSUME NEW option \in Option, ReadDecision(j, option)
      PROVE  TypeOK'
  <2>1. /\ row[j].ckpt.id \in Nat
        /\ row[j].ckpt.default \in Option \cup {"none"}
    BY <1>0 DEF Row, Checkpoint
  <2>2. answer' \in [Job -> Answer]
    BY <1>4, <2>1 DEF ReadDecision, TypeOK, Answer
  <2> QED
    BY <1>4, <2>2 DEF ReadDecision, TypeOK, KeepDb, ManagerTypeOK
<1>5. CASE CommitDecision(j)
  <2>1. answer[j].option \in Option \cup {"none"} /\ NoAnswer \in Answer
    BY DEF TypeOK, Answer, NoAnswer
  <2>2. ResolveOnce(row[j], answer[j].id, answer[j].option,
                    answer[j].source) \in Row
    BY <1>0, <2>1, ResolveOnceType
  <2> QED
    BY <1>5, <2>1, <2>2 DEF CommitDecision, TypeOK, SetRow, ManagerTypeOK
<1>6. CASE DeadlinePasses(j)
  BY <1>6 DEF DeadlinePasses, TypeOK, ManagerTypeOK
<1> QED
  BY <1>1, <1>2, <1>3, <1>4, <1>5, <1>6 DEF Request

LEMMA FreshTypes ==
    /\ InitDispatch \in Dispatch
    /\ NoAnswer \in Answer
    /\ "idle" \in PC
BY DEF InitDispatch, Dispatch, NoAnswer, Answer, PC

LEMMA LoseMemoryType ==
    ASSUME TypeOK, LoseMemory, UNCHANGED dbVars, up' \in {"up", "down"}
    PROVE  TypeOK'
BY FreshTypes, InitLocalsType
DEF LoseMemory, TypeOK, ManagerTypeOK, dbVars

LEMMA ProcessStepType ==
    ASSUME TypeOK, Shutdown \/ Exit \/ Crash \/ Restart
    PROVE  TypeOK'
<1>1. CASE Shutdown
  BY <1>1 DEF Shutdown, TypeOK, dbVars, runnerVars, managerVars,
     ManagerTypeOK
<1>2. CASE Exit
  BY <1>2, LoseMemoryType DEF Exit
<1>3. CASE Crash
  BY <1>3, LoseMemoryType DEF Crash
<1>4. CASE Restart
  BY <1>4, RecoverInterruptedType
  DEF Restart, TypeOK, runnerVars, managerVars, ManagerTypeOK
<1> QED
  BY <1>1, <1>2, <1>3, <1>4

LEMMA QuarantineRetryType ==
    ASSUME TypeOK, NEW a \in Account, RetryQuarantinedRelease(a)
    PROVE  TypeOK'
<1>1. ResourceTypeOK'
  BY ReleaseAccountType DEF RetryQuarantinedRelease, TypeOK, ResourceTypeOK
<1> QED
  BY <1>1, ResourceStepType DEF RetryQuarantinedRelease, TypeOK

LEMMA TypeStep ==
    ASSUME TypeOK, JobInv, [Next]_vars
    PROVE  TypeOK'
<1>1. ASSUME NEW j \in Job, RunnerStep(j)
      PROVE  TypeOK'
  BY <1>1, StageStepType, DecisionStepType, ResourceStepTypes DEF RunnerStep
<1>2. CASE UNCHANGED vars
  BY <1>2 DEF vars, dbVars, runnerVars, managerVars, TypeOK, ManagerTypeOK
<1> QED
  BY <1>1, <1>2, FaultStepTypes, DispatcherStepType, RequestType,
     ProcessStepType, QuarantineRetryType DEF Next

-----------------------------------------------------------------------------
(* Steps of one runner                                                     *)

\* A step that changes one job and its runner.
LEMMA OneJobInv ==
    ASSUME TypeOK, JobInv, NEW j \in Job, NEW r, NEW l, NEW locals,
           row' = [row EXCEPT ![j] = r], pc' = [pc EXCEPT ![j] = l],
           run' = [run EXCEPT ![j] = locals], UNCHANGED disp,
           RowOK(r), RunnerAt(r, l, locals.stage)
    PROVE  JobInv'
<1>1. ASSUME NEW k \in Job
      PROVE  JobOK(k)'
  <2>1. CASE k = j
    <3>1. row'[j] = r /\ pc'[j] = l /\ run'[j] = locals
      BY DEF TypeOK
    <3> QED
      BY <2>1, <3>1 DEF JobOK
  <2>2. CASE k # j
    <3>1. row'[k] = row[k] /\ pc'[k] = pc[k] /\ run'[k] = run[k]
      BY <2>2 DEF TypeOK
    <3> QED
      BY <3>1 DEF JobInv, JobOK
  <2> QED
    BY <2>1, <2>2
<1> QED
  BY <1>1 DEF JobInv, DispatchOK

LEMMA JustGotoInv ==
    ASSUME TypeOK, JobInv, NEW j \in Job, NEW l, JustGoto(j, l),
           RunnerAt(row[j], l, run[j].stage)
    PROVE  JobInv'
<1>1. row' = [row EXCEPT ![j] = row[j]] /\ run' = [run EXCEPT ![j] = run[j]]
  BY DEF JustGoto, KeepDb, TypeOK
<1> QED
  BY <1>1, OneJobInv DEF JustGoto, Goto, KeepOthers, JobInv, JobOK

LEMMA WriteInv ==
    ASSUME TypeOK, JobInv, NEW j \in Job, NEW l, NEW r, Write(j, r, l),
           RowOK(r), RunnerAt(r, l, run[j].stage)
    PROVE  JobInv'
<1>1. run' = [run EXCEPT ![j] = run[j]]
  BY DEF Write, TypeOK
<1> QED
  BY <1>1, OneJobInv DEF Write, SetRow, Goto, KeepOthers

LEMMA LocalInv ==
    ASSUME TypeOK, JobInv, NEW j \in Job, NEW l, NEW locals,
           SetRun(j, locals), Goto(j, l), KeepDb, UNCHANGED disp,
           RunnerAt(row[j], l, locals.stage)
    PROVE  JobInv'
<1>1. row' = [row EXCEPT ![j] = row[j]]
  BY DEF KeepDb, TypeOK
<1> QED
  BY <1>1, OneJobInv DEF SetRun, Goto, JobInv, JobOK

\* Moving on without a change of the row or the stage: within the steps
\* between stages, within those of a stage, or to an ending.
Ending == {"cancel", "error", "release"}

Onward(l, m) ==
    \/ l \in NoLivePC /\ m \in NoLivePC \ {"start"}
    \/ l \in InStagePC /\ m \in InStagePC
    \/ l # "idle" /\ m \in Ending
    \/ m = "idle"

LEMMA Moves ==
    ASSUME NEW r, NEW l, NEW m, NEW s, RunnerAt(r, l, s), Onward(l, m)
    PROVE  RunnerAt(r, m, s)
BY DEF RunnerAt, Onward, NoLivePC, InStagePC, Ending

\* What ends a stage, or loses it, can go wherever the row allows.
LEMMA ShrinkMoves ==
    ASSUME NEW r, NEW n, NEW l, NEW s, RunnerAt(r, l, s), Shrinks(r, n)
    PROVE  /\ RunnerAt(n, l, s)
           /\ l # "idle" => \A m \in Ending : RunnerAt(n, m, s)
           /\ l # "idle" /\ LiveStages(n) = {} =>
                 \A m \in NoLivePC \ {"start"} : RunnerAt(n, m, s)
BY DEF RunnerAt, Shrinks, NoLivePC, InStagePC, Ending

LEMMA MoveInv ==
    ASSUME TypeOK, JobInv, NEW j \in Job, NEW m, JustGoto(j, m),
           Onward(pc[j], m)
    PROVE  JobInv'
<1>1. RunnerAt(row[j], m, run[j].stage)
  BY Moves DEF JobInv, JobOK
<1> QED
  BY <1>1, JustGotoInv

LEMMA MoveLocalInv ==
    ASSUME TypeOK, JobInv, NEW j \in Job, NEW m, NEW locals,
           SetRun(j, locals), Goto(j, m), KeepDb, UNCHANGED disp,
           locals.stage = run[j].stage,
           Onward(pc[j], m)
    PROVE  JobInv'
<1>1. RunnerAt(row[j], m, locals.stage)
  BY Moves DEF JobInv, JobOK
<1> QED
  BY <1>1, LocalInv

\* A transaction that ends what was in progress, or leaves it as it was.
LEMMA ShrinkInv ==
    ASSUME TypeOK, JobInv, NEW j \in Job, NEW m, NEW r, Write(j, r, m),
           Shrinks(row[j], r), pc[j] # "idle",
           \/ m = pc[j] \/ m \in Ending
           \/ pc[j] \in InStagePC /\ m \in InStagePC
           \/ LiveStages(r) = {} /\ m \in NoLivePC \ {"start"}
    PROVE  JobInv'
<1>1. RunnerAt(r, pc[j], run[j].stage)
  BY ShrinkMoves DEF JobInv, JobOK
<1>2. RunnerAt(r, m, run[j].stage)
  BY <1>1, Moves, ShrinkMoves DEF JobInv, JobOK, Onward
<1> QED
  BY <1>2, WriteInv DEF Shrinks

LEMMA StageStepInv ==
    ASSUME TypeOK, JobInv, NEW j \in Job,
           \/ Load(j) \/ NextStage(j) \/ NoStageLeft(j) \/ BeginStage(j)
           \/ CheckCancelled(j) \/ StageSucceeds(j) \/ NothingToAsk(j)
           \/ Finish(j) \/ SkipRest(j) \/ CheckFinished(j)
           \/ CloseFinished(j) \/ CheckFinal(j)
    PROVE  JobInv'
<1> DEFINE s == run[j].stage
<1> USE DEF Onward, NoLivePC, InStagePC, Ending
<1>0. /\ row[j] \in Row /\ run[j] \in Locals
      /\ RowOK(row[j]) /\ RunnerAt(row[j], pc[j], s)
  BY DEF TypeOK, JobInv, JobOK
<1>1. CASE Load(j)
  BY <1>1, MoveInv DEF Load
<1>2. CASE NextStage(j)
  <2>1. PICK t \in StagesLeft(j) :
          SetRun(j, [run[j] EXCEPT !.stage = t, !.retried = FALSE,
                                   !.code = "none", !.outcome = "none"])
    BY <1>2 DEF NextStage
  <2> DEFINE locals == [run[j] EXCEPT !.stage = t, !.retried = FALSE,
                                      !.code = "none", !.outcome = "none"]
  <2>2. t \in Stage /\ locals.stage = t
    BY <1>0 DEF StagesLeft, StagesOf, Locals
  <2>3. \A l \in {"cancel", "start"} : RunnerAt(row[j], l, t)
    BY <1>0, <1>2, <2>2 DEF NextStage, RunnerAt
  <2> QED
    BY <1>2, <2>1, <2>2, <2>3, LocalInv DEF NextStage, KeepOthers
<1>3. CASE NoStageLeft(j)
  BY <1>3, MoveInv DEF NoStageLeft
<1>4. CASE BeginStage(j)
  <2>1. CASE CanStartStage(row[j], s)
    <3>1. s \in Stage /\ LiveStages(row[j]) \subseteq {s}
      BY <1>0, <1>4 DEF BeginStage, RunnerAt
    <3>2. /\ RowOK(StartStage(row[j], s))
          /\ LiveStages(StartStage(row[j], s)) \subseteq {s}
          /\ StartStage(row[j], s).account = row[j].account
      BY <1>0, <2>1, <3>1, StartStageOK
    <3>3. \A l \in {"before", "check"} :
            RunnerAt(StartStage(row[j], s), l, s)
      BY <1>0, <1>4, <3>1, <3>2 DEF BeginStage, RunnerAt
    <3> QED
      BY <1>4, <2>1, <3>2, <3>3, WriteInv DEF BeginStage, WriteIf
  <2>2. CASE ~CanStartStage(row[j], s)
    BY <1>4, <2>2, MoveInv DEF BeginStage, WriteIf
  <2> QED
    BY <2>1, <2>2
<1>5. CASE CheckCancelled(j)
  BY <1>5, MoveInv DEF CheckCancelled
<1>6. CASE StageSucceeds(j)
  <2>1. [run[j] EXCEPT !.outcome = "succeeded"].stage = s
    BY <1>0 DEF Locals
  <2> QED
    BY <1>6, <2>1, MoveLocalInv DEF StageSucceeds, KeepOthers
<1>7. CASE NothingToAsk(j)
  BY <1>7, MoveInv DEF NothingToAsk
<1>8. CASE Finish(j)
  <2>1. CASE CanFinishStage(row[j], s)
    <3>1. s \in Stage
      BY <1>0, <1>8 DEF Finish, RunnerAt
    <3>2. run[j].outcome \in TERMINAL_STAGE_STATUSES \cup {"none"}
      BY <1>0 DEF Locals
    <3>3. /\ Shrinks(row[j], FinishStage(row[j], s, run[j].outcome))
          /\ LiveStages(FinishStage(row[j], s, run[j].outcome)) = {}
      BY <1>0, <2>1, <3>1, <3>2, FinishStageShrinks
    <3> QED
      BY <1>8, <2>1, <3>3, ShrinkInv DEF Finish, WriteIf
  <2>2. CASE ~CanFinishStage(row[j], s)
    BY <1>8, <2>2, MoveInv DEF Finish, WriteIf
  <2> QED
    BY <2>1, <2>2
<1>9. CASE SkipRest(j)
  <2>1. Shrinks(row[j], SkipPendingStages(row[j]))
    BY <1>0, SkipPendingShrinks
  <2>2. LiveStages(SkipPendingStages(row[j])) = {}
    BY <1>0, <1>9, <2>1 DEF SkipRest, RunnerAt, Shrinks
  <2> QED
    BY <1>9, <2>1, <2>2, ShrinkInv DEF SkipRest
<1>10. CASE CheckFinished(j)
  BY <1>10, MoveInv DEF CheckFinished
<1>11. CASE CloseFinished(j)
  <2>1. CASE CanClose(row[j])
    <3>1. LiveStages(row[j]) = {}
      BY <1>0, <1>11 DEF CloseFinished, RunnerAt
    <3>2. FinalStatus(run[j]) \in TERMINAL_JOB_STATUSES
      BY DEF FinalStatus, TERMINAL_JOB_STATUSES
    <3>3. Shrinks(row[j], CloseJob(row[j], FinalStatus(run[j])))
      BY <1>0, <2>1, <3>1, <3>2, CloseJobShrinks
    <3> QED
      BY <1>11, <2>1, <3>3, ShrinkInv DEF CloseFinished
  <2>2. CASE ~CanClose(row[j])
    BY <1>11, <2>2, MoveInv DEF CloseFinished
  <2> QED
    BY <2>1, <2>2
<1>12. CASE CheckFinal(j)
  BY <1>12, MoveInv DEF CheckFinal
<1> QED
  BY <1>1, <1>2, <1>3, <1>4, <1>5, <1>6, <1>7, <1>8, <1>9, <1>10, <1>11,
     <1>12

LEMMA AskInv ==
    ASSUME TypeOK, JobInv, NEW j \in Job, NEW plan, Ask(j, plan),
           pc[j] \in InStagePC
    PROVE  JobInv'
<1> DEFINE s == run[j].stage
<1>0. /\ row[j] \in Row /\ RowOK(row[j]) /\ RunnerAt(row[j], pc[j], s)
      /\ s \in Stage
  BY DEF TypeOK, JobInv, JobOK, RunnerAt
<1>1. CASE CanOpenDecision(row[j], s)
  <2> DEFINE r == OpenDecision(row[j], s, plan)
  <2>1. Shrinks(row[j], r)
    BY <1>0, <1>1, OpenDecisionShrinks
  <2>2. pc[j] # "idle" /\ Onward(pc[j], "wait")
    BY DEF Onward, InStagePC
  <2>3. RunnerAt(r, "wait", s)
    BY <1>0, <2>1, <2>2, ShrinkMoves, Moves
  <2>4. run' = [run EXCEPT ![j] = run[j]]
    BY <1>1 DEF Ask, TypeOK
  <2> QED
    BY <1>1, <2>1, <2>3, <2>4, OneJobInv
    DEF Ask, SetRow, Goto, KeepOthers, Shrinks
<1>2. CASE ~CanOpenDecision(row[j], s)
  BY <1>2, MoveInv DEF Ask, Onward, InStagePC, Ending
<1> QED
  BY <1>1, <1>2

LEMMA TakeResolutionInv ==
    ASSUME TypeOK, JobInv, NEW j \in Job, TakeResolution(j),
           pc[j] \in InStagePC
    PROVE  JobInv'
<1> DEFINE s == run[j].stage
           r == ResumeWaiting(row[j], s)
<1> USE DEF Onward, InStagePC, Ending
<1>0. /\ row[j] \in Row /\ RowOK(row[j]) /\ run[j] \in Locals
      /\ s \in Stage /\ LiveStages(row[j]) \subseteq {s}
  BY DEF TypeOK, JobInv, JobOK, RunnerAt
<1>1. CASE row[j].ckpt.status = "cancelled"
  <2>1. Shrinks(row[j], r)
    BY <1>0, WaiterCleanupShrinks
  <2> QED
    BY <1>1, <2>1, ShrinkInv DEF TakeResolution
<1>2. CASE row[j].ckpt.status # "cancelled"
  <2> DEFINE locals == [run[j] EXCEPT !.option = row[j].ckpt.resolution]
  <2>1. locals.stage = s
    BY <1>0 DEF Locals
  <2> QED
    BY <1>2, <2>1, MoveLocalInv DEF TakeResolution, KeepOthers
<1> QED
  BY <1>1, <1>2

LEMMA ExpireInv ==
    ASSUME TypeOK, JobInv, NEW j \in Job, Expire(j)
    PROVE  JobInv'
<1> DEFINE c == row[j].ckpt
           r == ResolveOnce(row[j], c.id, c.default, "timeout")
           locals == [run[j] EXCEPT !.option = c.default]
<1> USE DEF Onward, InStagePC, Ending
<1>0. /\ row[j] \in Row /\ RowOK(row[j]) /\ run[j] \in Locals
      /\ RunnerAt(row[j], pc[j], run[j].stage) /\ pc[j] = "expire"
  BY DEF TypeOK, JobInv, JobOK, Expire
<1>1. CASE CanResolveOnce(row[j], c.id)
  <2>1. Shrinks(row[j], r)
    BY <1>0, ResolveOnceShrinks
  <2>2. locals.stage = run[j].stage
    BY <1>0 DEF Locals
  <2>3. RunnerAt(r, "answered", locals.stage)
    BY <1>0, <2>1, <2>2, ShrinkMoves, Moves
  <2> QED
    BY <1>1, <2>1, <2>3, OneJobInv
    DEF Expire, SetRow, SetRun, Goto, KeepOthers, Shrinks
<1>2. CASE ~CanResolveOnce(row[j], c.id)
  BY <1>0, <1>2, TakeResolutionInv, MoveInv DEF Expire
<1> QED
  BY <1>1, <1>2

LEMMA ActOnAnswerInv ==
    ASSUME TypeOK, JobInv, NEW j \in Job, ActOnAnswer(j)
    PROVE  JobInv'
<1> DEFINE o == run[j].option
<1> USE DEF Onward, InStagePC, Ending
<1>0. run[j] \in Locals
  BY DEF TypeOK
<1>1. CASE IsCancelling(j)
  BY <1>1, MoveInv DEF ActOnAnswer
<1>2. CASE ~IsCancelling(j)
  <2>1. Continuation(o) \in InStagePC \cup Ending
    BY DEF Continuation
  <2>2. [run[j] EXCEPT
           !.outcome = IF o = "skip_stage" THEN "skipped" ELSE @,
           !.failed = @ \/ o = "skip_stage",
           !.skipRest = @ \/ o = "skip_remaining_pipeline"].stage
        = run[j].stage
    BY <1>0 DEF Locals
  <2> QED
    BY <1>2, <2>1, <2>2, MoveLocalInv DEF ActOnAnswer, KeepOthers
<1> QED
  BY <1>1, <1>2

LEMMA RetryStageInv ==
    ASSUME TypeOK, JobInv, NEW j \in Job, RetryStage(j)
    PROVE  JobInv'
<1> DEFINE s == run[j].stage
           r == IF CanFinishStage(row[j], s)
                THEN FinishStage(row[j], s, "failed") ELSE row[j]
           n == IF CanStartStage(r, s) THEN StartStage(r, s) ELSE r
           locals == [run[j] EXCEPT !.retried = TRUE]
<1>0. /\ row[j] \in Row /\ RowOK(row[j]) /\ run[j] \in Locals
      /\ s \in Stage /\ LiveStages(row[j]) \subseteq {s}
      /\ row[j].account \in Account
  BY DEF TypeOK, JobInv, JobOK, RunnerAt, RetryStage, InStagePC
<1>1. r \in Row
  BY <1>0, FinishStageType, StatusWords
<1>2. RowOK(r) /\ LiveStages(r) \subseteq {s} /\ r.account \in Account
  BY <1>0, FinishStageShrinks DEF Shrinks, TERMINAL_STAGE_STATUSES
<1>3. RowOK(n) /\ LiveStages(n) \subseteq {s} /\ n.account \in Account
  BY <1>0, <1>1, <1>2, StartStageOK
<1>4. locals.stage = s
  BY <1>0 DEF Locals
<1>5. \A l \in {"check", "error"} : RunnerAt(n, l, s)
  BY <1>0, <1>3 DEF RunnerAt, NoLivePC, InStagePC
<1>6. CASE CanFinishStage(row[j], s) /\ CanStartStage(r, s)
  <2>1. /\ row' = [row EXCEPT ![j] = n] /\ pc' = [pc EXCEPT ![j] = "check"]
        /\ run' = [run EXCEPT ![j] = locals] /\ UNCHANGED disp
    BY <1>6 DEF RetryStage, SetRow, SetRun, Goto, KeepOthers
  <2> HIDE DEF n, locals
  <2> QED
    BY <1>3, <1>4, <1>5, <2>1, OneJobInv
<1>7. CASE ~(CanFinishStage(row[j], s) /\ CanStartStage(r, s))
  <2>1. run' = [run EXCEPT ![j] = run[j]]
    BY <1>7 DEF RetryStage, TypeOK
  <2> QED
    BY <1>3, <1>5, <1>7, <2>1, OneJobInv
    DEF RetryStage, SetRow, Goto, KeepOthers
<1> QED
  BY <1>6, <1>7

LEMMA StopJobInv ==
    ASSUME TypeOK, JobInv, NEW j \in Job, StopJob(j)
    PROVE  JobInv'
<1> DEFINE s == run[j].stage
           f == FinishStage(row[j], s, "failed")
           k == SkipPendingStages(f)
<1> USE DEF Onward, InStagePC, Ending
<1>0. /\ row[j] \in Row /\ RowOK(row[j]) /\ s \in Stage
      /\ pc[j] = "stop"
  BY DEF TypeOK, JobInv, JobOK, RunnerAt, StopJob
<1>1. CASE CanFinishStage(row[j], s) /\ CanClose(row[j])
  <2>1. Shrinks(row[j], f) /\ LiveStages(f) = {} /\ f \in Row
    BY <1>0, <1>1, FinishStageShrinks, FinishStageType, StatusWords
    DEF TERMINAL_STAGE_STATUSES
  <2>2. Shrinks(f, k) /\ k \in Row
    BY <2>1, SkipPendingShrinks, SettleType, StatusWords
    DEF Shrinks, SkipPendingStages
  <2>3. CanClose(k)
    BY <1>0, <1>1 DEF CanClose, SkipPendingStages, Settle, FinishStage, Row
  <2>4. Shrinks(k, CloseJob(k, "failed"))
    BY <2>1, <2>2, <2>3, CloseJobShrinks DEF Shrinks, TERMINAL_JOB_STATUSES
  <2>5. Shrinks(row[j], CloseJob(k, "failed"))
    BY <2>1, <2>2, <2>4 DEF Shrinks
  <2> QED
    BY <1>0, <1>1, <2>5, ShrinkInv DEF StopJob, WriteIf
<1>2. CASE ~(CanFinishStage(row[j], s) /\ CanClose(row[j]))
  BY <1>0, <1>2, MoveInv DEF StopJob, WriteIf
<1> QED
  BY <1>1, <1>2

LEMMA DecisionStepInv ==
    ASSUME TypeOK, JobInv, NEW j \in Job,
           \/ AskBefore(j) \/ AskAfter(j) \/ AskFailure(j) \/ AskReview(j)
           \/ PollDecision(j) \/ Expire(j) \/ ActOnAnswer(j)
           \/ RetryStage(j) \/ StopJob(j) \/ SkipOutreach(j)
           \/ CancelSelf(j) \/ CancelStage(j)
    PROVE  JobInv'
<1> DEFINE s == run[j].stage
<1> USE DEF Onward, NoLivePC, InStagePC, Ending
<1>0. /\ row[j] \in Row /\ RowOK(row[j])
      /\ RunnerAt(row[j], pc[j], s)
  BY DEF TypeOK, JobInv, JobOK
<1>1. CASE AskBefore(j) \/ AskAfter(j) \/ AskFailure(j) \/ AskReview(j)
  BY <1>1, AskInv DEF AskBefore, AskAfter, AskFailure, AskReview
<1>2. CASE PollDecision(j)
  BY <1>2, TakeResolutionInv, MoveInv DEF PollDecision
<1>3. ASSUME CanFinishStage(row[j], s), pc[j] \in InStagePC,
             NEW to \in TERMINAL_STAGE_STATUSES
      PROVE  /\ Shrinks(row[j], FinishStage(row[j], s, to))
             /\ LiveStages(FinishStage(row[j], s, to)) = {}
  <2>1. s \in Stage
    BY <1>0, <1>3 DEF RunnerAt
  <2> QED
    BY <1>0, <1>3, <2>1, FinishStageShrinks
<1>4. CASE SkipOutreach(j)
  <2>1. CASE CanFinishStage(row[j], s)
    BY <1>3, <1>4, <2>1, ShrinkInv
    DEF SkipOutreach, WriteIf, TERMINAL_STAGE_STATUSES
  <2>2. CASE ~CanFinishStage(row[j], s)
    BY <1>4, <2>2, MoveInv DEF SkipOutreach, WriteIf
  <2> QED
    BY <2>1, <2>2
<1>5. CASE CancelSelf(j)
  <2>1. Shrinks(row[j], RequestCancel(row[j]))
    BY <1>0, RequestCancelShrinks
  <2> QED
    BY <1>5, <2>1, ShrinkInv DEF CancelSelf
<1>6. CASE CancelStage(j)
  <2>1. CASE CanFinishStage(row[j], s)
    BY <1>3, <1>6, <2>1, ShrinkInv
    DEF CancelStage, WriteIf, TERMINAL_STAGE_STATUSES
  <2>2. CASE ~CanFinishStage(row[j], s)
    BY <1>6, <2>2, MoveInv DEF CancelStage, WriteIf
  <2> QED
    BY <2>1, <2>2
<1> QED
  BY <1>1, <1>2, <1>4, <1>5, <1>6, ExpireInv, ActOnAnswerInv, RetryStageInv,
     StopJobInv

\* Neither an ending's transaction nor a runner without a job leaves a stage
\* in progress behind.
LEMMA EndingShrinks ==
    ASSUME NEW r \in Row, RowOK(r)
    PROVE  /\ Shrinks(r, FinishCancellation(r))
           /\ Shrinks(r, FinishInternalError(r))
<1>1. Shrinks(r, FinishCancellation(r))
  BY DEF Shrinks, RowOK, FinishCancellation, Settle, Row, LiveStages,
     LiveStageStatus, ActiveJobStatus
<1>2. Shrinks(r, FinishInternalError(r))
  BY DEF Shrinks, RowOK, FinishInternalError, CancelPendingStages, Settle,
     Row, LiveStages, LiveStageStatus, ActiveJobStatus
<1> QED
  BY <1>1, <1>2

\* A step of the runner that only moves its browser or lease.
LEMMA ResourceInv ==
    ASSUME TypeOK, JobInv, NEW j \in Job, NEW m, Goto(j, m), UNCHANGED run,
           KeepDb, UNCHANGED disp, Onward(pc[j], m)
    PROVE  JobInv'
<1>1. SetRun(j, run[j])
  BY DEF SetRun, TypeOK
<1> QED
  BY <1>1, MoveLocalInv

LEMMA ResourceStepInv ==
    ASSUME TypeOK, JobInv, NEW j \in Job,
           \/ OpenBrowser(j) \/ ReleaseForReview(j) \/ Reacquire(j)
           \/ ReacquireLease(j) \/ CheckReacquired(j) \/ ReopenBrowser(j)
           \/ ResumeAfterReview(j) \/ EndCancelled(j) \/ EndInError(j)
           \/ Release(j) \/ Killed(j)
    PROVE  JobInv'
<1> USE DEF Onward, NoLivePC, InStagePC, Ending
<1>0. /\ row[j] \in Row /\ RowOK(row[j])
      /\ RunnerAt(row[j], pc[j], run[j].stage)
  BY DEF TypeOK, JobInv, JobOK
<1>1. CASE OpenBrowser(j)
  BY <1>1, ResourceInv DEF OpenBrowser, KeepOthers
<1>2. CASE ReleaseForReview(j)
  BY <1>2, ResourceInv DEF ReleaseForReview, KeepOthers
<1>3. CASE Reacquire(j)
  BY <1>3, MoveInv DEF Reacquire
<1>4. CASE ReacquireLease(j)
  BY <1>4, MoveInv, ResourceInv DEF ReacquireLease, KeepOthers
<1>5. CASE CheckReacquired(j)
  BY <1>5, MoveInv, ResourceInv DEF CheckReacquired, KeepOthers
<1>6. CASE ReopenBrowser(j)
  BY <1>6, ResourceInv DEF ReopenBrowser, KeepOthers
<1>7. CASE ResumeAfterReview(j)
  BY <1>7, MoveInv DEF ResumeAfterReview
<1>8. CASE EndCancelled(j)
  BY <1>0, <1>8, EndingShrinks, ShrinkInv DEF EndCancelled
<1>9. CASE EndInError(j)
  BY <1>0, <1>9, EndingShrinks, ShrinkInv DEF EndInError
<1>10. CASE Release(j)
  <2>1. RunnerAt(row[j], "idle", InitLocals.stage)
    BY DEF RunnerAt
  <2> QED
    BY <1>10, <2>1, LocalInv DEF Release, KeepOthers
<1>11. CASE Killed(j)
  <2>1. CASE pc[j] = "wait"
    <3>1. LiveStages(row[j]) \subseteq {run[j].stage} /\ run[j].stage \in Stage
      BY <1>0, <2>1 DEF RunnerAt
    <3>2. Shrinks(row[j], ResumeWaiting(row[j], run[j].stage))
      BY <1>0, <3>1, WaiterCleanupShrinks
    <3> QED
      BY <1>11, <2>1, <3>2, ShrinkInv DEF Killed
  <2>2. CASE pc[j] # "wait"
    <3>1. pc[j] # "idle"
      BY <1>11 DEF Killed, AwaitPC
    <3>2. Shrinks(row[j], row[j])
      BY <1>0 DEF Shrinks
    <3> QED
      BY <1>11, <2>2, <3>1, <3>2, ShrinkInv DEF Killed
  <2> QED
    BY <2>1, <2>2
<1> QED
  BY <1>1, <1>2, <1>3, <1>4, <1>5, <1>6, <1>7, <1>8, <1>9, <1>10, <1>11

LEMMA FaultStepInv ==
    ASSUME TypeOK, JobInv, NEW j \in Job, RunnerFault(j)
    PROVE  JobInv'
<1> USE DEF Onward, NoLivePC, InStagePC, Ending
<1>0. /\ row[j] \in Row /\ run[j] \in Locals /\ RowOK(row[j])
      /\ RunnerAt(row[j], pc[j], run[j].stage)
  BY DEF TypeOK, JobInv, JobOK
<1>1. CASE OpenBrowserFails(j)
  BY <1>1, MoveInv DEF OpenBrowserFails
<1>2. CASE StageRaises(j)
  BY <1>2, MoveInv DEF StageRaises
<1>3. ASSUME NEW code \in ErrorCode, StageFails(j, code)
      PROVE  JobInv'
  <2>1. /\ [run[j] EXCEPT !.code = code].stage = run[j].stage
        /\ [run[j] EXCEPT !.outcome = "failed", !.failed = TRUE].stage
              = run[j].stage
    BY <1>0 DEF Locals
  <2> QED
    BY <1>3, <2>1, MoveLocalInv DEF StageFails, KeepOthers
<1>4. CASE WaiterFails(j)
  <2>1. LiveStages(row[j]) \subseteq {run[j].stage} /\ run[j].stage \in Stage
    BY <1>0, <1>4 DEF RunnerAt, WaiterFails
  <2>2. /\ Shrinks(row[j], ResumeWaiting(row[j], run[j].stage))
        /\ Shrinks(row[j], InterruptWaiting(row[j], run[j].stage))
    BY <1>0, <2>1, WaiterCleanupShrinks
  <2> QED
    BY <1>4, <2>2, ShrinkInv DEF WaiterFails
<1>5. CASE ReleaseForReviewFails(j)
  BY <1>5, MoveInv DEF ReleaseForReviewFails
<1>6. CASE ReacquireFails(j)
  BY <1>6, MoveInv DEF ReacquireFails
<1>7. CASE ReopenBrowserFails(j)
  BY <1>7, ResourceInv DEF ReopenBrowserFails, KeepOthers
<1>8. CASE ReleaseUnconfirmed(j)
  <2>1. RunnerAt(row[j], "idle", InitLocals.stage)
    BY DEF RunnerAt
  <2> QED
    BY <1>8, <2>1, LocalInv DEF ReleaseUnconfirmed, KeepOthers
<1>9. CASE ApprovalFails(j)
  BY <1>9, MoveInv DEF ApprovalFails
<1> QED
  BY <1>1, <1>2, <1>3, <1>4, <1>5, <1>6, <1>7, <1>8, <1>9 DEF RunnerFault

-----------------------------------------------------------------------------
(* Steps of everybody else                                                 *)

\* A transaction of somebody who is not the job's runner.
LEMMA OtherShrinkInv ==
    ASSUME TypeOK, JobInv, NEW j \in Job, NEW r, SetRow(j, r),
           UNCHANGED <<pc, run, disp>>, Shrinks(row[j], r)
    PROVE  JobInv'
<1>1. RunnerAt(r, pc[j], run[j].stage)
  BY ShrinkMoves DEF JobInv, JobOK
<1>2. pc' = [pc EXCEPT ![j] = pc[j]] /\ run' = [run EXCEPT ![j] = run[j]]
  BY DEF TypeOK
<1> QED
  BY <1>1, <1>2, OneJobInv DEF SetRow, Shrinks

\* A new job has no runner.
LEMMA NewJobInv ==
    ASSUME TypeOK, JobInv, NEW j \in Job, NEW campaign, NEW included,
           row[j].status = "absent", SetRow(j, CreateJob(campaign, included)),
           UNCHANGED <<pc, run, disp>>
    PROVE  JobInv'
<1> DEFINE r == CreateJob(campaign, included)
<1>1. pc[j] = "idle"
  BY AccountAssumption DEF JobInv, JobOK, RowOK, RunnerAt
<1>2. pc' = [pc EXCEPT ![j] = pc[j]] /\ run' = [run EXCEPT ![j] = run[j]]
  BY DEF TypeOK
<1>3. row' = [row EXCEPT ![j] = r]
  BY DEF SetRow
<1>4. RunnerAt(r, pc[j], run[j].stage)
  BY <1>1 DEF RunnerAt, NoLivePC, InStagePC
<1>5. RowOK(r) /\ UNCHANGED disp
  BY NewJobOK
<1> HIDE DEF r
<1>6. JobInv'
  BY ONLY TypeOK, JobInv, j \in Job, <1>2, <1>3, <1>4, <1>5, OneJobInv
<1> QED
  BY <1>6

LEMMA RequestInv ==
    ASSUME TypeOK, JobInv, NEW j \in Job, Request(j) \/ DeadlinePasses(j)
    PROVE  JobInv'
<1> USE DEF KeepProcess, runnerVars
<1>0. row[j] \in Row /\ RowOK(row[j])
  BY DEF TypeOK, JobInv, JobOK
<1>1. ASSUME NEW campaign, NEW included,
             CreatePipelineJob(j, campaign, included)
      PROVE  JobInv'
  BY <1>1, NewJobInv DEF CreatePipelineJob
<1>2. CASE CancelJob(j)
  BY <1>0, <1>2, RequestCancelShrinks, OtherShrinkInv DEF CancelJob
<1>3. ASSUME NEW retried \in Job, RetryJob(j, retried)
      PROVE  JobInv'
  BY <1>3, NewJobInv DEF RetryJob
<1>4. ASSUME NEW option, ReadDecision(j, option)
      PROVE  JobInv'
  BY <1>4 DEF ReadDecision, KeepDb, JobInv, JobOK, DispatchOK
<1>5. CASE CommitDecision(j)
  <2>1. Shrinks(row[j], ResolveOnce(row[j], answer[j].id, answer[j].option,
                                    answer[j].source))
    BY <1>0, ResolveOnceShrinks
  <2> QED
    BY <1>5, <2>1, OtherShrinkInv DEF CommitDecision
<1>6. CASE DeadlinePasses(j)
  BY <1>6 DEF DeadlinePasses, JobInv, JobOK, DispatchOK
<1> QED
  BY <1>1, <1>2, <1>3, <1>4, <1>5, <1>6 DEF Request

LEMMA ClaimInv ==
    ASSUME TypeOK, JobInv, Claim
    PROVE  JobInv'
<1> DEFINE j == disp.job
           a == disp.account
<1>0. /\ j \in Job /\ a \in Account /\ row[j] \in Row /\ RowOK(row[j])
  BY DEF Claim, JobInv, JobOK, DispatchOK, TypeOK
<1>1. CASE CanClaim(row[j])
  <2> DEFINE r == ClaimJob(row[j], a)
  <2>1. RowOK(r) /\ RunnerAt(r, "load", run[j].stage)
    BY <1>0, <1>1, ClaimedJobOK DEF RunnerAt, InStagePC
  <2>2. /\ row' = [row EXCEPT ![j] = r] /\ pc' = [pc EXCEPT ![j] = "load"]
        /\ run' = [run EXCEPT ![j] = run[j]] /\ disp' = InitDispatch
    BY <1>0, <1>1 DEF Claim, SetRow, Goto, TypeOK
  <2>3. ASSUME NEW k \in Job
        PROVE  JobOK(k)'
    <3>1. CASE k = j
      BY <1>0, <2>1, <2>2, <3>1 DEF JobOK, TypeOK
    <3>2. CASE k # j
      <4>1. row'[k] = row[k] /\ pc'[k] = pc[k] /\ run'[k] = run[k]
        BY <2>2, <3>2 DEF TypeOK
      <4> QED
        BY <4>1 DEF JobInv, JobOK
    <3> QED
      BY <3>1, <3>2
  <2> QED
    BY <2>2, <2>3 DEF JobInv, DispatchOK, InitDispatch
<1>2. CASE ~CanClaim(row[j])
  BY <1>2 DEF Claim, JobInv, JobOK, DispatchOK, TypeOK, Dispatch
<1> QED
  BY <1>1, <1>2

LEMMA DispatcherStepInv ==
    ASSUME TypeOK, JobInv, DispatcherStep
    PROVE  JobInv'
<1> USE DEF KeepRunners, JobInv, JobOK, DispatchOK, TypeOK, Dispatch
<1>1. CASE Poll
  BY <1>1 DEF Poll
<1>2. CASE EndScan
  BY <1>2 DEF EndScan, InitDispatch
<1>3. CASE LeaseAccount
  BY <1>3 DEF LeaseAccount
<1>4. CASE AccountUnavailable
  BY <1>4 DEF AccountUnavailable
<1>5. ASSUME NEW j \in Job, NEW a \in Account, Consider(j, a)
      PROVE  JobInv'
  BY <1>5 DEF Consider
<1> QED
  BY <1>1, <1>2, <1>3, <1>4, <1>5, ClaimInv DEF DispatcherStep

LEMMA LoseMemoryInv ==
    ASSUME TypeOK, JobInv, LoseMemory, UNCHANGED dbVars
    PROVE  JobInv'
BY DEF LoseMemory, dbVars, JobInv, JobOK, RunnerAt, NoLivePC, InStagePC,
   DispatchOK, InitDispatch

LEMMA RestartInv ==
    ASSUME TypeOK, JobInv, Restart
    PROVE  JobInv'
<1>1. ASSUME NEW j \in Job
      PROVE  JobOK(j)'
  <2> DEFINE r == RecoverInterrupted(row[j])
  <2>1. Shrinks(row[j], r)
    BY RecoverInterruptedShrinks DEF TypeOK, JobInv, JobOK
  <2>2. RunnerAt(r, pc[j], run[j].stage)
    BY <2>1, ShrinkMoves DEF JobInv, JobOK
  <2>3. row'[j] = r /\ pc'[j] = pc[j] /\ run'[j] = run[j]
    BY DEF Restart, runnerVars
  <2> QED
    BY <2>1, <2>2, <2>3 DEF JobOK, Shrinks
<1> QED
  BY <1>1 DEF JobInv, DispatchOK, Restart

-----------------------------------------------------------------------------
(* The theorems                                                            *)

LEMMA JobInvStep ==
    ASSUME TypeOK, JobInv, [Next]_vars
    PROVE  JobInv'
<1>1. ASSUME NEW j \in Job, RunnerStep(j)
      PROVE  JobInv'
  BY <1>1, StageStepInv, DecisionStepInv, ResourceStepInv DEF RunnerStep
<1>2. ASSUME NEW a \in Account, RetryQuarantinedRelease(a)
      PROVE  JobInv'
  BY <1>2 DEF RetryQuarantinedRelease, KeepDb, KeepOthers, JobInv, JobOK,
     DispatchOK
<1>3. CASE Shutdown
  BY <1>3 DEF Shutdown, dbVars, runnerVars, JobInv, JobOK, DispatchOK
<1>4. CASE UNCHANGED vars
  BY <1>4 DEF vars, dbVars, runnerVars, JobInv, JobOK, DispatchOK
<1> QED
  BY <1>1, <1>2, <1>3, <1>4, FaultStepInv, RequestInv, DispatcherStepInv,
     LoseMemoryInv, RestartInv DEF Next, Exit, Crash

LEMMA InitInv == Init => TypeOK /\ JobInv
<1> SUFFICES ASSUME Init
             PROVE  TypeOK /\ JobInv
  OBVIOUS
<1>1. NoRow \in Row
  BY StageAssumption DEF NoRow, NoCheckpoint, Row, Checkpoint
<1>2. TypeOK
  BY <1>1, FreshTypes, InitLocalsType
  DEF Init, TypeOK, ManagerInit, ManagerTypeOK
<1>3. RowOK(NoRow)
  BY DEF RowOK, NoRow, NoCheckpoint, LiveStages, LiveStageStatus
<1>4. JobInv
  BY <1>3 DEF Init, JobInv, JobOK, RunnerAt, NoLivePC, InStagePC, DispatchOK,
     InitDispatch
<1> QED
  BY <1>2, <1>4

LEMMA Invariance == Spec => [](TypeOK /\ JobInv)
<1>1. (TypeOK /\ JobInv) /\ [Next]_vars => (TypeOK /\ JobInv)'
  BY TypeStep, JobInvStep
<1> QED
  BY <1>1, InitInv, PTL DEF Spec

\* Every variable keeps its type, whatever happens: in particular no row ever
\* holds a status, a stage or an option that the code does not know.
THEOREM TypeCorrect == Spec => []TypeOK
BY Invariance, PTL

\* A job waits for a decision exactly when its current stage does and exactly
\* then one question about that stage is pending: through answers, timeouts,
\* cancellations, failures of the waiter, shutdown, crash and recovery.
THEOREM DecisionsAlign == Spec => []DecisionAligned
<1>1. TypeOK /\ JobInv => DecisionAligned
  BY DEF TypeOK, JobInv, JobOK, RowOK, DecisionAligned, Row, LiveStages,
     LiveStageStatus
<1> QED
  BY <1>1, Invariance, PTL

\* A job nobody works for has no stage in progress.
THEOREM TerminalJobsRest == Spec => []TerminalQuiescent
<1>1. JobInv => TerminalQuiescent
  BY DEF JobInv, JobOK, RowOK, TerminalQuiescent
<1> QED
  BY <1>1, Invariance, PTL

-----------------------------------------------------------------------------
(* The invariant of the service                                            *)

\* The places of a runner: inside run_job, polling for an answer, on the way
\* to a manual review and back from it, with a lease but no browser, and with
\* the browser open.
AlivePC == NoLivePC \cup InStagePC
WaitPC == {"wait", "expire"}
ReviewPC == {"review_release", "review", "reacquire", "reacquire_load",
             "reacquire_lease", "reacquire_cancel", "reacquire_open",
             "reacquired"}
HeldPC == {"load", "open", "reacquire_cancel", "reacquire_open"}
OpenPC == (AlivePC \ (HeldPC \cup WaitPC \cup ReviewPC \cup {"answered"}))
             \cup {"review_release", "reacquired"}

\* The ends of a stage that let the pipeline go on.
Done == {"succeeded", "failed", "skipped"}

\* A question that got its answer, from the operator or from the deadline.
Answered(c) == c.status \in {"resolved", "expired"}

\* What a job's status says of the place of its runner. A runner that polls
\* may find the job cancelled by the API: only then does it wait for nothing.
StatusAt(r, l, u) ==
    /\ r.status = "absent" => r = NoRow
    /\ r.status \in {"absent", "queued"} => l = "idle" /\ r.account = NoAccount
    /\ l \in AlivePC \ WaitPC => r.status \in {"running", "cancelling"}
    /\ l \in {"final_check", "cancel_stage", "cancel"} =>
          r.status = "cancelling"
    /\ l = "error" => r.status # "waiting_decision"
    /\ l \in {"idle", "release"} /\ u = "up" => r.status \notin ActiveJobStatus
    /\ u = "down" => l = "idle"
    /\ l \in WaitPC /\ Answered(r.ckpt) =>
          r.status \in {"running", "cancelling"}
    /\ l \in WaitPC /\ r.ckpt.status = "cancelled" => r.status = "cancelled"

\* The stages before s are done, those after s are untouched.
Passed(r, s) == \A t \in Stage : t < s => r.stages[t] \in Done \cup {"none"}
Ahead(r, s) == \A t \in Stage : s < t => r.stages[t] \in {"pending", "none"}

\* A stage that has begun has none before it that has not ended.
InOrder(r) ==
    \A s \in Stage :
        r.stages[s] \in LiveStageStatus \cup {"succeeded", "failed"} =>
            Passed(r, s)

\* What the stages say of the place of the runner.
StagesAt(r, l, s) ==
    /\ InOrder(r)
    /\ r.campaign => \A t \in Stage : r.stages[t] # "none" => CollectStage <= t
    /\ r.status = "queued" =>
          \A t \in Stage : r.stages[t] \in {"pending", "none"}
    /\ l \in AlivePC \ {"final", "final_check"} => Passed(r, s)
    /\ l \in AlivePC \ (WaitPC \cup {"final", "final_check"}) => Ahead(r, s)
    /\ l \in WaitPC => r.ckpt.stage = s /\ r.ckpt.status # "none"
    /\ l \in WaitPC /\ r.ckpt.status # "cancelled" => Ahead(r, s)
    /\ l \in WaitPC /\ Answered(r.ckpt) => r.stages[s] = "running"
    /\ l \in InStagePC \ WaitPC => r.stages[s] = "running"
    /\ l \in {"load", "open", "top", "checked", "skip_rest"} /\ s \in Stage =>
          r.stages[s] \in Done
    /\ l = "start" => r.stages[s] = "pending"
    /\ l \in {"final", "final_check"} =>
          \A t \in Stage : r.stages[t] \in Done \cup {"none"}

\* What the runner remembers of the stages and of the question: any_failed is
\* set as soon as a stage failed, and only then, and a question about an
\* outcome is only asked when there is one.
LocalsAt(r, l, x) ==
    /\ l = "idle" => x = InitLocals
    /\ l \in AlivePC => ((\E t \in Stage : r.stages[t] = "failed") => x.failed)
    /\ l \in AlivePC /\ x.failed =>
          \/ \E t \in Stage : r.stages[t] \in {"failed", "skipped"}
          \/ l = "finish" /\ x.outcome \in {"failed", "skipped"}
    /\ l \in AlivePC /\ x.outcome = "failed" => x.failed
    /\ l \in {"after", "finish"} => x.outcome \in Done
    /\ l \in ReviewPC => x.stage = OutreachStage \/ x.outcome \in Done
    /\ l \in WaitPC \cup {"answered"} =>
          /\ r.ckpt.kind \in {"insufficient_evidence",
                              "qualification_review"} =>
                x.outcome \in Done
          /\ r.ckpt.kind = "strategy_review" => x.stage = OutreachStage
          /\ r.ckpt.kind = "manual_review_session" =>
                x.stage = OutreachStage \/ x.outcome \in Done

\* The options that decision_policy offers for a question of each kind.
Offered(kind) ==
    CASE kind = "insufficient_evidence" ->
            {"continue_with_current_evidence", "skip_remaining_pipeline",
             "cancel_job"}
      [] kind = "qualification_review" ->
            {"open_review_workbench", "continue_with_qualified_only"}
      [] kind = "strategy_review" ->
            {"open_strategy_workbench", "skip_outreach", "cancel_job",
             "approve_all_safe_drafts"}
      [] kind \in {"retryable_failure", "account_blocked"} ->
            {"skip_stage", "stop_job", "retry_once"}
      [] kind = "manual_review_session" -> {"review_complete"}
      [] OTHER -> {}

\* A question, its answer, and a request that is about to answer it: what was
\* chosen was offered, and the deadline only ever chooses the default.
QuestionOK(c, l, x, d, an) ==
    /\ c.options \subseteq Offered(c.kind)
    /\ c.status # "none" => c.default \in c.options
    /\ Answered(c) => c.resolution \in c.options
    /\ c.status = "expired" => d /\ c.resolution = c.default
    /\ l = "answered" => Answered(c) /\ x.option = c.resolution
    /\ l = "expire" => d
    /\ an.id <= c.id
    /\ an # NoAnswer /\ an.id = c.id =>
          /\ an.option \in c.options
          /\ an.source = "timeout" => d /\ an.option = c.default

\* The lease and the browser that the runner holds at each place.
HoldsAt(r, l, held, br) ==
    /\ held \in {NoAccount, r.account}
    /\ br \in {NoAccount, held}
    /\ l = "idle" => held = NoAccount
    /\ l \in HeldPC => held = r.account
    /\ l \in OpenPC => br = r.account
    /\ l \in WaitPC \cup {"answered"} /\ r.ckpt.kind # "manual_review_session" =>
          br = r.account

\* Job j at place l of its runner, with row r and locals x.
At(j, r, l, x) ==
    /\ StatusAt(r, l, up)
    /\ StagesAt(r, l, x.stage)
    /\ LocalsAt(r, l, x)
    /\ QuestionOK(r.ckpt, l, x, j \in due, answer[j])
    /\ HoldsAt(r, l, lease[j], browser[j])

RunnerOK(j) == At(j, row[j], pc[j], run[j])

ServiceInv == \A j \in Job : RunnerOK(j)

-----------------------------------------------------------------------------
(* What the transactions do to the stages                                  *)

\* Stages only end, or change hands between running and waiting.
Settles(r, n) ==
    /\ n.campaign = r.campaign
    /\ \A t \in Stage :
          \/ n.stages[t] = r.stages[t]
          \/ /\ r.stages[t] \in LiveStageStatus
             /\ n.stages[t] \in LiveStageStatus \cup TERMINAL_STAGE_STATUSES
          \/ r.stages[t] = "pending" /\ n.stages[t] \in {"skipped", "cancelled"}

\* The parts of StagesAt that hold wherever the runner is.
StagesOK(r) ==
    /\ InOrder(r)
    /\ r.campaign => \A t \in Stage : r.stages[t] # "none" => CollectStage <= t

LEMMA SettlesKeeps ==
    ASSUME NEW r, NEW n, Settles(r, n)
    PROVE  /\ StagesOK(r) => StagesOK(n)
           /\ \A s \in Stage : Passed(r, s) => Passed(n, s)
<1> USE DEF Settles, LiveStageStatus, TERMINAL_STAGE_STATUSES
<1>1. \A s \in Stage : Passed(r, s) => Passed(n, s)
  BY DEF Passed, Done
<1>2. InOrder(r) => InOrder(n)
  BY <1>1 DEF InOrder
<1> QED
  BY <1>1, <1>2 DEF StagesOK

LEMMA FinishStageSettles ==
    ASSUME NEW r \in Row, NEW s \in Stage, CanFinishStage(r, s),
           NEW to \in TERMINAL_STAGE_STATUSES
    PROVE  LET n == FinishStage(r, s, to)
           IN  /\ Settles(r, n) /\ n.stages[s] = to
               /\ \A t \in Stage \ {s} : n.stages[t] = r.stages[t]
               /\ n.status = r.status /\ n.account = r.account
               /\ n.ckpt = r.ckpt
BY DEF FinishStage, CanFinishStage, Row, Settles, LiveStageStatus

LEMMA SkipPendingSettles ==
    ASSUME NEW r \in Row
    PROVE  LET n == SkipPendingStages(r)
           IN  /\ Settles(r, n)
               /\ \A t \in Stage : n.stages[t] = IF r.stages[t] = "pending"
                                                 THEN "skipped"
                                                 ELSE r.stages[t]
               /\ n.status = r.status /\ n.account = r.account
               /\ n.ckpt = r.ckpt
BY DEF SkipPendingStages, Settle, Row, Settles

LEMMA OpenDecisionSettles ==
    ASSUME NEW r \in Row, NEW s \in Stage, NEW plan, CanOpenDecision(r, s)
    PROVE  LET n == OpenDecision(r, s, plan)
           IN  /\ Settles(r, n) /\ n.stages[s] = "waiting_decision"
               /\ \A t \in Stage \ {s} : n.stages[t] = r.stages[t]
               /\ n.status = "waiting_decision" /\ n.account = r.account
               /\ n.ckpt.id = r.ckpt.id + 1 /\ n.ckpt.status = "pending"
               /\ n.ckpt.kind = plan.kind /\ n.ckpt.stage = s
               /\ n.ckpt.options = plan.options
               /\ n.ckpt.default = plan.default
               /\ r.stages[s] = "running"
BY DEF OpenDecision, CanOpenDecision, CanPause, PauseForDecision,
   CreateCheckpoint, Row, Settles, LiveStageStatus

\* The same question; its answer may differ.
SameQuestion(c, d) ==
    /\ d.id = c.id /\ d.kind = c.kind /\ d.stage = c.stage
    /\ d.options = c.options /\ d.default = c.default

LEMMA ResolveOnceSettles ==
    ASSUME NEW r \in Row, RowOK(r), NEW id, NEW option, NEW source,
           CanResolveOnce(r, id)
    PROVE  LET n == ResolveOnce(r, id, option, source)
               s == r.ckpt.stage
           IN  /\ Settles(r, n) /\ n.stages[s] = "running" /\ s \in Stage
               /\ r.stages[s] = "waiting_decision"
               /\ \A t \in Stage \ {s} : n.stages[t] = r.stages[t]
               /\ n.status = "running" /\ n.account = r.account
               /\ r.ckpt.id = id /\ r.ckpt.status = "pending"
               /\ SameQuestion(r.ckpt, n.ckpt)
               /\ n.ckpt.status = IF source = "timeout" THEN "expired"
                                                        ELSE "resolved"
               /\ n.ckpt.resolution = option
BY DEF SameQuestion, ResolveOnce, CanResolveOnce, CanResolveCheckpoint,
   CanResume, ResumeFromDecision, ResolveCheckpoint, RowOK, Row, Checkpoint,
   Settles, LiveStageStatus

LEMMA RequestCancelSettles ==
    ASSUME NEW r \in Row, RowOK(r)
    PROVE  LET n == RequestCancel(r)
           IN  /\ Settles(r, n) /\ n.account = r.account
               /\ n.status = CASE r.status \in {"queued", "waiting_decision"} -> "cancelled"
                               [] r.status = "running" -> "cancelling"
                               [] OTHER -> r.status
               /\ r.status \notin {"queued", "waiting_decision"} =>
                      n.stages = r.stages /\ n.ckpt = r.ckpt
               /\ r.status = "queued" => n.ckpt = r.ckpt
               /\ r.status = "waiting_decision" =>
                      n.ckpt = [r.ckpt EXCEPT !.status = "cancelled"]
               /\ \A t \in Stage : n.stages[t] \in {"failed", "skipped"}
                                     <=> r.stages[t] \in {"failed", "skipped"}
               /\ \A t \in Stage : n.stages[t] = "failed" <=> r.stages[t] = "failed"
<1>1. CASE r.status = "queued"
  BY <1>1 DEF RequestCancel, CancelPendingStages, Settle, Row, Settles, RowOK,
     LiveStages, LiveStageStatus
<1>2. CASE r.status = "waiting_decision"
  BY <1>2 DEF RequestCancel, CancelCheckpoint, Settle, Row, Checkpoint,
     Settles, RowOK, LiveStages, LiveStageStatus, TERMINAL_STAGE_STATUSES
<1>3. CASE r.status = "running"
  BY <1>3 DEF RequestCancel, Row, Settles
<1>4. CASE r.status \notin {"queued", "waiting_decision", "running"}
  BY <1>4 DEF RequestCancel, Row, Settles
<1> QED
  BY <1>1, <1>2, <1>3, <1>4

LEMMA CancelCheckpointKeeps ==
    ASSUME NEW r \in Row
    PROVE  LET n == CancelCheckpoint(r)
           IN  /\ n \in Row
               /\ n.stages = r.stages /\ n.status = r.status
               /\ n.account = r.account /\ n.campaign = r.campaign
               /\ n.current = r.current
               /\ n.ckpt = IF r.ckpt.status = "pending"
                           THEN [r.ckpt EXCEPT !.status = "cancelled"]
                           ELSE r.ckpt
<1>1. CASE r.ckpt.status = "pending"
  BY <1>1, CancelCheckpointType DEF CancelCheckpoint, Row
<1>2. CASE r.ckpt.status # "pending"
  BY <1>2 DEF CancelCheckpoint
<1> QED
  BY <1>1, <1>2

\* A question that is withdrawn, if there is one.
Withdrawn(c) == IF c.status = "pending" THEN [c EXCEPT !.status = "cancelled"]
                                        ELSE c

LEMMA WaiterSettles ==
    ASSUME NEW r \in Row, RowOK(r), NEW s \in Stage, LiveStages(r) \subseteq {s},
           NEW n \in {ResumeWaiting(r, s), InterruptWaiting(r, s)}
    PROVE  /\ Settles(r, n) /\ n.account = r.account
           /\ n.status # "waiting_decision"
           /\ n.status # r.status => /\ r.status = "waiting_decision"
                                     /\ n.status \in {"running", "interrupted"}
           /\ n.ckpt = Withdrawn(r.ckpt)
<1> DEFINE c == CancelCheckpoint(r)
<1>1. /\ c \in Row /\ c.stages = r.stages /\ c.status = r.status
      /\ c.account = r.account /\ c.campaign = r.campaign
      /\ c.current = r.current /\ c.ckpt = Withdrawn(r.ckpt)
  BY CancelCheckpointKeeps DEF Withdrawn
<1>2. r.status = "waiting_decision" => CanResume(c, s)
  BY <1>1 DEF RowOK, CanResume, LiveStages, LiveStageStatus
<1>3. CASE CanResume(c, s)
  <2>1. r.status = "waiting_decision" /\ r.stages[s] = "waiting_decision"
    BY <1>1, <1>3 DEF CanResume
  <2>2. CASE n = ResumeFromDecision(c, s)
    <3> HIDE DEF c
    <3>1. /\ n.status = "running" /\ n.account = c.account
          /\ n.campaign = c.campaign /\ n.ckpt = c.ckpt
          /\ n.stages = [c.stages EXCEPT ![s] = "running"]
      BY <1>1, <2>2 DEF ResumeFromDecision, Row
    <3> QED
      BY <1>1, <2>1, <3>1 DEF Settles, Row, LiveStageStatus
  <2>3. CASE n = InterruptWaitingDecision(c, s)
    <3> HIDE DEF c
    <3>1. /\ n.status = "interrupted" /\ n.account = c.account
          /\ n.campaign = c.campaign /\ n.ckpt = c.ckpt
          /\ n.stages = [c.stages EXCEPT ![s] = "failed"]
      BY <1>1, <2>3 DEF InterruptWaitingDecision, Row
    <3> QED
      BY <1>1, <2>1, <3>1 DEF Settles, Row, LiveStageStatus,
         TERMINAL_STAGE_STATUSES
  <2> QED
    BY <1>3, <2>2, <2>3 DEF ResumeWaiting, InterruptWaiting
<1>4. CASE ~CanResume(c, s)
  <2>1. n = c
    BY <1>4 DEF ResumeWaiting, InterruptWaiting
  <2> HIDE DEF c
  <2> QED
    BY <1>1, <1>2, <1>4, <2>1 DEF Settles
<1> QED
  BY <1>3, <1>4

LEMMA RecoverSettles ==
    ASSUME NEW r \in Row
    PROVE  LET n == RecoverInterrupted(r)
           IN  /\ Settles(r, n) /\ n.account = r.account
               /\ n.status = IF r.status \in ActiveJobStatus THEN "interrupted"
                                                             ELSE r.status
               /\ r.status \notin ActiveJobStatus => n = r
               /\ n.ckpt \in {r.ckpt, Withdrawn(r.ckpt)}
<1>1. CASE r.status \in ActiveJobStatus
  <2> DEFINE t == Settle(r, LiveStageStatus, "failed")
  <2>1. /\ t \in Row /\ t.account = r.account /\ t.campaign = r.campaign
        /\ t.ckpt = r.ckpt
        /\ t.stages = [s \in Stage |-> IF r.stages[s] \in LiveStageStatus
                                       THEN "failed" ELSE r.stages[s]]
    BY SettleType, StatusWords DEF Settle, Row
  <2>2. RecoverInterrupted(r) = [CancelCheckpoint(t) EXCEPT !.status = "interrupted"]
    BY <1>1 DEF RecoverInterrupted
  <2> HIDE DEF t
  <2> DEFINE c == CancelCheckpoint(t)
  <2>3. /\ c \in Row /\ c.account = r.account /\ c.campaign = r.campaign
        /\ c.ckpt = Withdrawn(r.ckpt) /\ c.stages = t.stages
    BY <2>1, CancelCheckpointKeeps DEF Withdrawn
  <2> HIDE DEF c
  <2>4. LET n == [c EXCEPT !.status = "interrupted"]
        IN  /\ n.account = r.account /\ n.campaign = r.campaign
            /\ n.ckpt = Withdrawn(r.ckpt) /\ n.stages = t.stages
            /\ n.status = "interrupted"
    BY <2>3 DEF Row
  <2> QED
    BY <1>1, <2>1, <2>2, <2>4 DEF c, Settles, LiveStageStatus,
       TERMINAL_STAGE_STATUSES
<1>2. CASE r.status \notin ActiveJobStatus
  BY <1>2 DEF RecoverInterrupted, Settles
<1> QED
  BY <1>1, <1>2

LEMMA EndingSettles ==
    ASSUME NEW r \in Row, NEW n \in {FinishCancellation(r), FinishInternalError(r)}
    PROVE  /\ Settles(r, n) /\ n.account = r.account /\ n.ckpt = r.ckpt
           /\ n.status # r.status => /\ r.status \in {"running", "cancelling"}
                                     /\ n.status \in {"cancelled", "failed"}
           /\ r.status = "cancelling" => n.status = "cancelled"
<1>1. CASE n = FinishCancellation(r)
  <2>1. CASE r.status = "cancelling"
    <3>1. /\ n.status = "cancelled" /\ n.account = r.account
          /\ n.campaign = r.campaign /\ n.ckpt = r.ckpt
          /\ n.stages = [s \in Stage |->
                            IF r.stages[s] \in {"running", "pending"}
                            THEN "cancelled" ELSE r.stages[s]]
      BY <1>1, <2>1 DEF FinishCancellation, Settle, Row
    <3> QED
      BY <2>1, <3>1 DEF Settles, LiveStageStatus, TERMINAL_STAGE_STATUSES
  <2>2. CASE r.status # "cancelling"
    BY <1>1, <2>2 DEF FinishCancellation, Settles
  <2> QED
    BY <2>1, <2>2
<1>2. CASE n = FinishInternalError(r)
  BY <1>2 DEF FinishInternalError, CancelPendingStages, Settle, Row, Settles,
     LiveStageStatus, TERMINAL_STAGE_STATUSES
<1> QED
  BY <1>1, <1>2
-----------------------------------------------------------------------------
(* A runner between and in its stages                                      *)

\* A step of one job's: the others keep what they had.
LEMMA OthersOK ==
    ASSUME TypeOK, ServiceInv, NEW j \in Job, RunnerOK(j)', up' = up,
           \A k \in Job \ {j} :
              /\ row'[k] = row[k] /\ pc'[k] = pc[k] /\ run'[k] = run[k]
              /\ lease'[k] = lease[k] /\ browser'[k] = browser[k]
              /\ answer'[k] = answer[k] /\ (k \in due' <=> k \in due)
    PROVE  ServiceInv'
BY DEF ServiceInv, RunnerOK, At

LEMMA OneJobOK ==
    ASSUME TypeOK, ServiceInv, NEW j \in Job, NEW r, NEW l, NEW x,
           row' = [row EXCEPT ![j] = r], pc' = [pc EXCEPT ![j] = l],
           run' = [run EXCEPT ![j] = x], up' = up, due' = due,
           answer' = answer, lease' = lease, browser' = browser,
           At(j, r, l, x)
    PROVE  ServiceInv'
<1>1. /\ row'[j] = r /\ pc'[j] = l /\ run'[j] = x
      /\ \A k \in Job \ {j} :
            row'[k] = row[k] /\ pc'[k] = pc[k] /\ run'[k] = run[k]
  BY DEF TypeOK
<1>2. RunnerOK(j)'
  BY <1>1 DEF RunnerOK, At
<1> QED
  BY <1>1, <1>2, OthersOK

LEMMA MoveOK ==
    ASSUME TypeOK, ServiceInv, NEW j \in Job, NEW l, JustGoto(j, l),
           At(j, row[j], l, run[j])
    PROVE  ServiceInv'
<1>1. row' = [row EXCEPT ![j] = row[j]] /\ run' = [run EXCEPT ![j] = run[j]]
  BY DEF JustGoto, KeepDb, TypeOK
<1> QED
  BY <1>1, OneJobOK DEF JustGoto, Goto, KeepDb, KeepResources, KeepOthers

LEMMA WriteOK ==
    ASSUME TypeOK, ServiceInv, NEW j \in Job, NEW l, NEW r, Write(j, r, l),
           At(j, r, l, run[j])
    PROVE  ServiceInv'
<1>1. run' = [run EXCEPT ![j] = run[j]]
  BY DEF Write, TypeOK
<1> QED
  BY <1>1, OneJobOK DEF Write, SetRow, Goto, KeepResources, KeepOthers

LEMMA LocalOK ==
    ASSUME TypeOK, ServiceInv, NEW j \in Job, NEW l, NEW x,
           SetRun(j, x), Goto(j, l), KeepDb, KeepResources, KeepOthers,
           At(j, row[j], l, x)
    PROVE  ServiceInv'
<1>1. row' = [row EXCEPT ![j] = row[j]]
  BY DEF KeepDb, TypeOK
<1> QED
  BY <1>1, OneJobOK DEF SetRun, Goto, KeepDb, KeepResources, KeepOthers

LEMMA StageStepOK ==
    ASSUME TypeOK, JobInv, ServiceInv, NEW j \in Job,
           \/ Load(j) \/ NextStage(j) \/ NoStageLeft(j) \/ BeginStage(j)
           \/ CheckCancelled(j) \/ StageSucceeds(j) \/ NothingToAsk(j)
           \/ Finish(j) \/ SkipRest(j) \/ CheckFinished(j)
           \/ CloseFinished(j) \/ CheckFinal(j)
    PROVE  ServiceInv'
<1> DEFINE r == row[j]
           l == pc[j]
           x == run[j]
           s == x.stage
<1> USE DEF At, StatusAt, LocalsAt, QuestionOK, HoldsAt, AlivePC, WaitPC,
        ReviewPC, HeldPC, OpenPC, NoLivePC, InStagePC
<1>0. /\ r \in Row /\ x \in Locals /\ RowOK(r) /\ RunnerAt(r, l, s)
      /\ At(j, r, l, x)
  BY DEF TypeOK, JobInv, JobOK, ServiceInv, RunnerOK
<1>1. CASE Load(j)
  <2>1. ASSUME NEW m \in {"cancel", "open", "error"},
               m = "cancel" => IsCancelling(j)
        PROVE  At(j, r, m, x)
    BY <1>0, <1>1, <2>1 DEF Load, StagesAt, IsCancelling
  <2> HIDE DEF At
  <2> QED
    BY <1>1, <2>1, MoveOK DEF Load
<1>2. CASE NextStage(j)
  <2>1. PICK t \in StagesLeft(j) :
          /\ \A u \in StagesLeft(j) : t <= u
          /\ SetRun(j, [run[j] EXCEPT !.stage = t, !.retried = FALSE,
                                   !.code = "none", !.outcome = "none"])
    BY <1>2 DEF NextStage
  <2> DEFINE y == [run[j] EXCEPT !.stage = t, !.retried = FALSE,
                                      !.code = "none", !.outcome = "none"]
  <2>2. t \in Stage /\ y.stage = t /\ y.failed = x.failed /\ r.stages[t] # "none" /\ s < t
    BY <1>0 DEF StagesLeft, StagesOf, Locals, Stage
  <2>3. \A u \in Stage : s < u /\ u < t => r.stages[u] = "none"
    BY <1>0, <2>1, StageAssumption DEF StagesLeft, StagesOf, Stage
  <2>4. l = "top" /\ StagesAt(r, l, s) /\ s \in 0 .. NumStages
    BY <1>0, <1>2 DEF NextStage, Locals
  <2>5. Passed(r, t)
    BY <1>0, <2>2, <2>3, <2>4, StageAssumption DEF StagesAt, Passed, Stage
  <2>6. Ahead(r, t) /\ r.stages[t] = "pending"
    BY <1>0, <2>2, <2>4, StageAssumption DEF StagesAt, Ahead, Stage
  <2>7. ASSUME NEW m \in {"cancel", "start"}, m = "cancel" => IsCancelling(j)
        PROVE  At(j, r, m, y)
    BY <1>0, <2>2, <2>4, <2>5, <2>6, <2>7 DEF StagesAt, IsCancelling
  <2> HIDE DEF At, y
  <2> QED
    BY <1>2, <2>1, <2>7, LocalOK DEF NextStage, y
<1>3. CASE NoStageLeft(j)
  <2>1. \A t \in Stage : s < t => r.stages[t] = "none"
    BY <1>0, <1>3 DEF NoStageLeft, StagesLeft, StagesOf
  <2>2. \A t \in Stage : r.stages[t] \in Done \cup {"none"}
    BY <1>0, <1>3, <2>1, StageAssumption
    DEF NoStageLeft, StagesAt, Passed, Stage, Locals
  <2>3. At(j, r, "final", x)
    BY <1>0, <1>3, <2>2 DEF NoStageLeft, StagesAt
  <2> HIDE DEF At
  <2> QED
    BY <1>3, <2>3, MoveOK DEF NoStageLeft
<1>4. CASE BeginStage(j)
  <2> DEFINE n == StartStage(r, s)
  <2>1. CASE CanStartStage(r, s)
    <3>1. /\ n.status = r.status /\ n.account = r.account /\ n.ckpt = r.ckpt
          /\ n.campaign = r.campaign /\ n.stages[s] = "running" /\ s \in Stage
          /\ \A t \in Stage \ {s} : n.stages[t] = r.stages[t]
          /\ r.stages[s] = "pending" /\ r.status = "running"
      BY <1>0, <1>4, <2>1 DEF BeginStage, RunnerAt, StartStage, Row,
         CanStartStage, StagesAt
    <3> HIDE DEF n
    <3>2. Passed(n, s) /\ Ahead(n, s) /\ StagesOK(n)
      <4>1. l = "start"
        BY <1>4 DEF BeginStage
      <4>2. Passed(n, s) /\ Ahead(n, s)
        BY <1>0, <3>1, <4>1, StageAssumption
        DEF StagesAt, Passed, Ahead, Stage
      <4>3. InOrder(n)
        BY <1>0, <3>1, <4>1, <4>2, StageAssumption
        DEF StagesAt, InOrder, Passed, Ahead, Stage, LiveStageStatus
      <4> QED
        BY <1>0, <3>1, <4>2, <4>3 DEF StagesAt, StagesOK
    <3>3. \A m \in {"before", "check"} : At(j, n, m, x)
      BY <1>0, <1>4, <3>1, <3>2 DEF BeginStage, StagesAt, StagesOK
    <3> HIDE DEF At
    <3> QED
      BY <1>4, <2>1, <3>3, WriteOK DEF BeginStage, WriteIf, n
  <2>2. CASE ~CanStartStage(r, s)
    <3>1. At(j, r, "error", x)
      BY <1>0, <1>4 DEF BeginStage, StagesAt
    <3> HIDE DEF At
    <3> QED
      BY <1>4, <2>2, <3>1, MoveOK DEF BeginStage, WriteIf
  <2> QED
    BY <2>1, <2>2
<1>5. CASE CheckCancelled(j)
  <2>1. At(j, r, IF IsCancelling(j) THEN "cancel" ELSE "running", x)
    BY <1>0, <1>5 DEF CheckCancelled, StagesAt, IsCancelling
  <2> HIDE DEF At
  <2> QED
    BY <1>5, <2>1, MoveOK DEF CheckCancelled
<1>6. CASE StageSucceeds(j)
  <2> DEFINE y == [x EXCEPT !.outcome = "succeeded"]
  <2>1. At(j, r, "after", y)
    BY <1>0, <1>6 DEF StageSucceeds, StagesAt, Locals, Done
  <2> HIDE DEF At, y
  <2> QED
    BY <1>6, <2>1, LocalOK DEF StageSucceeds, y
<1>7. CASE NothingToAsk(j)
  <2>1. /\ l = "before" => At(j, r, "check", x)
        /\ l = "after" => At(j, r, "finish", x)
    BY <1>0, <1>7 DEF StagesAt
  <2> HIDE DEF At
  <2> QED
    BY <1>7, <2>1, MoveOK DEF NothingToAsk
<1>8. CASE Finish(j)
  <2> DEFINE n == FinishStage(r, s, x.outcome)
  <2>1. l = "finish" /\ s \in Stage /\ CanFinishStage(r, s) /\ x.outcome \in Done
    BY <1>0, <1>8 DEF Finish, RunnerAt, StagesAt, CanFinishStage
  <2>2. /\ Settles(r, n) /\ n.stages[s] = x.outcome
        /\ \A t \in Stage \ {s} : n.stages[t] = r.stages[t]
        /\ n.status = r.status /\ n.account = r.account
        /\ n.ckpt = r.ckpt
    BY <1>0, <2>1, FinishStageSettles DEF Done, TERMINAL_STAGE_STATUSES
  <2>3. StagesOK(n) /\ Passed(n, s) /\ Ahead(n, s) /\ n.campaign = r.campaign
    <3>1. Passed(r, s) /\ Ahead(r, s) /\ StagesOK(r)
      BY <1>0, <2>1 DEF StagesAt, StagesOK
    <3> HIDE DEF n, r, x, l
    <3>2. Ahead(n, s)
      BY <2>2, <3>1 DEF Ahead, Stage
    <3> QED
      BY <2>1, <2>2, <3>1, <3>2, SettlesKeeps DEF Settles
  <2> HIDE DEF n
  <2>4. \A m \in {"skip_rest", "checked"} : At(j, n, m, x)
    BY <1>0, <2>1, <2>2, <2>3 DEF StagesAt, StagesOK, Done
  <2> HIDE DEF At
  <2> QED
    BY <1>8, <2>1, <2>4, WriteOK DEF Finish, WriteIf, n
<1>9. CASE SkipRest(j)
  <2> DEFINE n == SkipPendingStages(r)
  <2>1. /\ Settles(r, n)
        /\ \A t \in Stage : n.stages[t] = IF r.stages[t] = "pending"
                                          THEN "skipped" ELSE r.stages[t]
        /\ n.status = r.status /\ n.account = r.account
        /\ n.ckpt = r.ckpt
    BY <1>0, SkipPendingSettles
  <2>2. StagesOK(n) /\ n.campaign = r.campaign
    BY <1>0, <2>1, SettlesKeeps DEF StagesAt, StagesOK, Settles
  <2>3. \A t \in Stage : n.stages[t] \in Done \cup {"none"}
    BY <1>0, <1>9, <2>1, StageAssumption DEF SkipRest, StagesAt, Passed, Ahead,
       Stage, Done, Locals
  <2> HIDE DEF n
  <2>4. At(j, n, "final", x)
    BY <1>0, <1>9, <2>1, <2>2, <2>3 DEF SkipRest, StagesAt, StagesOK
  <2> HIDE DEF At
  <2> QED
    BY <1>9, <2>4, WriteOK DEF SkipRest, n
<1>10. CASE CheckFinished(j)
  <2>1. At(j, r, IF IsCancelling(j) THEN "cancel" ELSE "top", x)
    BY <1>0, <1>10 DEF CheckFinished, StagesAt, IsCancelling
  <2> HIDE DEF At
  <2> QED
    BY <1>10, <2>1, MoveOK DEF CheckFinished
<1>11. CASE CloseFinished(j)
  <2>1. CASE CanClose(r)
    <3> DEFINE n == CloseJob(r, FinalStatus(x))
    <3>1. /\ n.stages = r.stages /\ n.account = r.account
          /\ n.ckpt = r.ckpt /\ n.campaign = r.campaign
          /\ n.status \in {"succeeded", "partial_failed"}
      BY <1>0 DEF CloseJob, FinalStatus, Row
    <3> HIDE DEF n
    <3>2. At(j, n, "release", x)
      BY <1>0, <1>11, <3>1 DEF CloseFinished, StagesAt, InOrder, Passed,
         ActiveJobStatus
    <3> HIDE DEF At
    <3> QED
      BY <1>11, <2>1, <3>2, WriteOK DEF CloseFinished, n
  <2>2. CASE ~CanClose(r)
    <3>1. At(j, r, "final_check", x)
      BY <1>0, <1>11, <2>2 DEF CloseFinished, StagesAt, CanClose
    <3> HIDE DEF At
    <3> QED
      BY <1>11, <2>2, <3>1, MoveOK DEF CloseFinished
  <2> QED
    BY <2>1, <2>2
<1>12. CASE CheckFinal(j)
  <2>1. IsCancelling(j) /\ At(j, r, "cancel", x)
    BY <1>0, <1>12 DEF CheckFinal, StagesAt, IsCancelling
  <2> HIDE DEF At
  <2> QED
    BY <1>12, <2>1, MoveOK DEF CheckFinal
<1> QED
  BY <1>1, <1>2, <1>3, <1>4, <1>5, <1>6, <1>7, <1>8, <1>9, <1>10, <1>11,
     <1>12

\* A failure inside a stage goes to the handlers of run_job.
LEMMA ToErrorOK ==
    ASSUME TypeOK, ServiceInv, NEW j \in Job, JustGoto(j, "error"),
           pc[j] \in AlivePC \ WaitPC
    PROVE  ServiceInv'
<1>1. At(j, row[j], "error", run[j])
  BY DEF ServiceInv, RunnerOK, At, StatusAt, StagesAt, LocalsAt, QuestionOK,
     HoldsAt, AlivePC, WaitPC, ReviewPC, HeldPC, OpenPC, NoLivePC, InStagePC
<1> QED
  BY <1>1, MoveOK

\* A question fits the place it is asked at.
Fits(plan, l, x) ==
    /\ plan.options \subseteq Offered(plan.kind)
    /\ plan.default \in plan.options
    /\ plan.kind \in {"insufficient_evidence", "qualification_review"} => l = "after"
    /\ plan.kind = "strategy_review" => x.stage = OutreachStage
    /\ plan.kind = "manual_review_session" <=> l = "review"

LEMMA PlansFit ==
    ASSUME NEW r, NEW x
    PROVE  /\ \A plan \in BeforePlans(r, x.stage) : Fits(plan, "before", x)
           /\ \A plan \in AfterPlans(r, x.stage) : Fits(plan, "after", x)
           /\ Fits(ErrorPlan(x.code, x.retried), "failure", x)
           /\ Fits(ManualReviewSession, "review", x)
<1> USE DEF Fits, Offered
<1>1. \A plan \in BeforePlans(r, x.stage) : Fits(plan, "before", x)
  BY DEF BeforePlans, StrategyReview
<1>2. \A plan \in AfterPlans(r, x.stage) : Fits(plan, "after", x)
  BY DEF AfterPlans, InsufficientEvidence, QualificationReview
<1>3. Fits(ErrorPlan(x.code, x.retried), "failure", x)
  BY DEF ErrorPlan
<1>4. Fits(ManualReviewSession, "review", x)
  BY DEF ManualReviewSession
<1> QED
  BY <1>1, <1>2, <1>3, <1>4

LEMMA AskOK ==
    ASSUME TypeOK, JobInv, ServiceInv, NEW j \in Job, NEW plan, Ask(j, plan),
           pc[j] \in {"before", "after", "failure", "review"},
           Fits(plan, pc[j], run[j])
    PROVE  ServiceInv'
<1> DEFINE r == row[j]
           l == pc[j]
           x == run[j]
           s == x.stage
           n == OpenDecision(r, s, plan)
<1>0. /\ r \in Row /\ x \in Locals /\ RowOK(r) /\ RunnerAt(r, l, s)
      /\ At(j, r, l, x) /\ answer[j] \in Answer
  BY DEF TypeOK, JobInv, JobOK, ServiceInv, RunnerOK
<1>1. CASE ~CanOpenDecision(r, s)
  BY <1>1, ToErrorOK DEF Ask, AlivePC, WaitPC, InStagePC
<1>2. CASE CanOpenDecision(r, s)
  <2>1. s \in Stage
    BY <1>0 DEF RunnerAt, InStagePC
  <2>2. /\ Settles(r, n) /\ n.stages[s] = "waiting_decision"
        /\ \A t \in Stage \ {s} : n.stages[t] = r.stages[t]
        /\ n.status = "waiting_decision" /\ n.account = r.account
        /\ r.stages[s] = "running"
    BY <1>0, <1>2, <2>1, OpenDecisionSettles
  <2> DEFINE c == n.ckpt
  <2>3. /\ c.options = plan.options /\ c.default = plan.default
        /\ c.kind = plan.kind /\ c.status = "pending" /\ c.stage = s
        /\ c.id = r.ckpt.id + 1
    BY <1>0, <1>2, <2>1, OpenDecisionSettles
  <2>4. row'[j] = n /\ pc'[j] = "wait" /\ run'[j] = x /\ j \notin due'
        /\ up' = up /\ answer' = answer /\ lease' = lease /\ browser' = browser
        /\ \A k \in Job \ {j} :
            /\ row'[k] = row[k] /\ pc'[k] = pc[k] /\ run'[k] = run[k]
            /\ (k \in due' <=> k \in due)
    BY <1>2 DEF Ask, SetRow, Goto, KeepResources, KeepOthers, TypeOK
  <2>5. StagesOK(n) /\ Passed(n, s) /\ Ahead(n, s) /\ n.campaign = r.campaign
    <3>1. StagesOK(r) /\ Passed(r, s) /\ Ahead(r, s)
      BY <1>0 DEF At, StagesAt, StagesOK, AlivePC, InStagePC, WaitPC
    <3> HIDE DEF n
    <3> QED
      BY <2>1, <2>2, <3>1, SettlesKeeps, StageAssumption DEF Ahead, Settles,
         Stage
  <2> HIDE DEF n
  <2>6. StatusAt(n, "wait", up) /\ StagesAt(n, "wait", s)
    <3>1. StatusAt(n, "wait", up)
      BY <1>0, <2>2, <2>3 DEF At, StatusAt, Answered, WaitPC
    <3>2. StagesAt(n, "wait", s)
      BY <2>2, <2>3, <2>5 DEF StagesAt, StagesOK, Answered, WaitPC
    <3> QED
      BY <3>1, <3>2
  <2>7. LocalsAt(n, "wait", x)
    <3>1. LocalsAt(r, l, x)
      BY <1>0 DEF At
    <3>2. \A t \in Stage : n.stages[t] \in {"failed", "skipped"} <=> r.stages[t] \in {"failed", "skipped"}
      BY <2>2
    <3>3. \A t \in Stage : n.stages[t] = "failed" <=> r.stages[t] = "failed"
      BY <2>2
    <3> QED
      BY <2>3, <3>1, <3>2, <3>3
      DEF LocalsAt, Fits, AlivePC, WaitPC, NoLivePC, InStagePC, ReviewPC
  <2>8. QuestionOK(c, "wait", x, (j \in due)', answer[j])
    <3>1. answer[j].id \in Nat /\ r.ckpt.id \in Nat /\ answer[j].id <= r.ckpt.id
      BY <1>0 DEF At, QuestionOK, Answer, Row, Checkpoint
    <3> HIDE DEF c
    <3> QED
      BY <2>3, <3>1 DEF QuestionOK, Fits, Answered
  <2>9. HoldsAt(n, "wait", lease[j], browser[j])
    BY <1>0, <2>2, <2>3 DEF At, HoldsAt, Fits, OpenPC, AlivePC, WaitPC,
       NoLivePC, InStagePC, ReviewPC, HeldPC
  <2>10. RunnerOK(j)'
    BY <2>4, <2>6, <2>7, <2>8, <2>9 DEF RunnerOK, At
  <2> QED
    BY <2>4, <2>10, OthersOK
<1> QED
  BY <1>1, <1>2

LEMMA TakeResolutionOK ==
    ASSUME TypeOK, JobInv, ServiceInv, NEW j \in Job, TakeResolution(j),
           pc[j] \in WaitPC, row[j].ckpt.status # "pending"
    PROVE  ServiceInv'
<1> DEFINE r == row[j]
           l == pc[j]
           x == run[j]
           s == x.stage
<1> USE DEF At, StatusAt, LocalsAt, QuestionOK, HoldsAt, AlivePC, WaitPC,
        ReviewPC, HeldPC, OpenPC, NoLivePC, InStagePC
<1>0. /\ r \in Row /\ x \in Locals /\ RowOK(r) /\ RunnerAt(r, l, s)
      /\ At(j, r, l, x) /\ s \in Stage /\ LiveStages(r) \subseteq {s}
  BY DEF TypeOK, JobInv, JobOK, ServiceInv, RunnerOK, RunnerAt
<1>1. CASE r.ckpt.status = "cancelled"
  <2> DEFINE n == ResumeWaiting(r, s)
  <2>1. /\ Settles(r, n) /\ n.account = r.account
        /\ n.status = r.status /\ n.ckpt = r.ckpt
    BY <1>0, <1>1, WaiterSettles DEF Withdrawn
  <2>2. StagesOK(n)
    BY <1>0, <2>1, SettlesKeeps DEF StagesAt, StagesOK
  <2> HIDE DEF n
  <2>3. At(j, n, "error", x)
    BY <1>0, <1>1, <2>1, <2>2 DEF StagesAt, StagesOK
  <2> HIDE DEF At
  <2> QED
    BY <1>1, <2>3, WriteOK DEF TakeResolution, n
<1>2. CASE r.ckpt.status # "cancelled"
  <2> DEFINE y == [x EXCEPT !.option = r.ckpt.resolution]
  <2>1. Answered(r.ckpt)
    BY <1>0, <1>2 DEF StagesAt, Answered, Row, Checkpoint, CheckpointStatus
  <2>2. /\ y.option = r.ckpt.resolution /\ y.stage = s /\ y.failed = x.failed
        /\ y.outcome = x.outcome
    BY <1>0 DEF Locals
  <2> HIDE DEF y
  <2>3. At(j, r, "answered", y)
    BY <1>0, <1>2, <2>1, <2>2 DEF StagesAt
  <2> HIDE DEF At
  <2> QED
    BY <1>2, <2>3, LocalOK DEF TakeResolution, y
<1> QED
  BY <1>1, <1>2

LEMMA ExpireOK ==
    ASSUME TypeOK, JobInv, ServiceInv, NEW j \in Job, Expire(j)
    PROVE  ServiceInv'
<1> DEFINE r == row[j]
           l == pc[j]
           x == run[j]
           s == x.stage
<1> USE DEF At, StatusAt, LocalsAt, QuestionOK, HoldsAt, AlivePC, WaitPC,
        ReviewPC, HeldPC, OpenPC, NoLivePC, InStagePC
<1>0. /\ r \in Row /\ x \in Locals /\ RowOK(r) /\ RunnerAt(r, l, s)
      /\ At(j, r, l, x) /\ s \in Stage /\ l = "expire"
  BY DEF TypeOK, JobInv, JobOK, ServiceInv, RunnerOK, RunnerAt, Expire
<1>1. CASE CanResolveOnce(r, r.ckpt.id)
  <2> DEFINE n == ResolveOnce(r, r.ckpt.id, r.ckpt.default, "timeout")
             y == [x EXCEPT !.option = r.ckpt.default]
  <2>1. /\ Settles(r, n) /\ n.stages[s] = "running"
        /\ \A t \in Stage \ {s} : n.stages[t] = r.stages[t]
        /\ r.stages[s] = "waiting_decision"
        /\ n.status = "running" /\ n.account = r.account
        /\ r.ckpt.status = "pending"
        /\ SameQuestion(r.ckpt, n.ckpt) /\ n.ckpt.status = "expired"
        /\ n.ckpt.resolution = r.ckpt.default
    <3>1. r.ckpt.stage = s
      BY <1>0 DEF StagesAt
    <3>2. r \in Row /\ RowOK(r)
      BY <1>0
    <3>3. /\ Settles(r, n) /\ n.stages[r.ckpt.stage] = "running"
          /\ \A t \in Stage \ {r.ckpt.stage} : n.stages[t] = r.stages[t]
          /\ r.stages[r.ckpt.stage] = "waiting_decision"
          /\ n.status = "running" /\ n.account = r.account
          /\ r.ckpt.status = "pending"
          /\ SameQuestion(r.ckpt, n.ckpt) /\ n.ckpt.status = "expired"
          /\ n.ckpt.resolution = r.ckpt.default
      BY <1>1, <3>2, ResolveOnceSettles
    <3> HIDE DEF n
    <3> QED
      BY <3>1, <3>3
  <2>2. /\ y.option = r.ckpt.default /\ y.stage = s /\ y.failed = x.failed
        /\ y.outcome = x.outcome
    BY <1>0 DEF Locals
  <2>3. /\ n.ckpt.options = r.ckpt.options /\ n.ckpt.default = r.ckpt.default
        /\ n.ckpt.kind = r.ckpt.kind /\ n.ckpt.status = "expired"
        /\ n.ckpt.stage = r.ckpt.stage /\ n.ckpt.id = r.ckpt.id
        /\ n.ckpt.resolution = r.ckpt.default
    BY <2>1 DEF SameQuestion
  <2>4. StagesOK(n) /\ Passed(n, s) /\ Ahead(n, s) /\ n.campaign = r.campaign
    <3>1. StagesOK(r) /\ Passed(r, s) /\ Ahead(r, s)
      BY <1>0, <2>1 DEF StagesAt, StagesOK
    <3> HIDE DEF n
    <3> QED
      BY <1>0, <2>1, <3>1, SettlesKeeps, StageAssumption DEF Ahead, Settles,
         Stage
  <2> HIDE DEF n, y
  <2>5. At(j, n, "answered", y)
    <3>1. StatusAt(n, "answered", up) /\ StagesAt(n, "answered", s)
      BY <1>0, <2>1, <2>3, <2>4 DEF StagesAt, StagesOK
    <3>2. LocalsAt(n, "answered", y)
      BY <1>0, <2>1, <2>2, <2>3
    <3>3. QuestionOK(n.ckpt, "answered", y, j \in due, answer[j])
      BY <1>0, <2>1, <2>2, <2>3 DEF Answered
    <3>4. HoldsAt(n, "answered", lease[j], browser[j])
      BY <1>0, <2>1, <2>3
    <3> QED
      BY <2>2, <3>1, <3>2, <3>3, <3>4 DEF At
  <2> HIDE DEF At
  <2> QED
    BY <1>1, <2>5, OneJobOK DEF Expire, SetRow, SetRun, Goto, KeepResources,
       KeepOthers, n, y
<1>2. CASE ~CanResolveOnce(r, r.ckpt.id) /\ r.ckpt.status = "pending"
  <2>1. At(j, r, "wait", x)
    BY <1>0, <1>2 DEF StagesAt
  <2> HIDE DEF At
  <2> QED
    BY <1>2, <2>1, MoveOK DEF Expire
<1>3. CASE ~CanResolveOnce(r, r.ckpt.id) /\ r.ckpt.status # "pending"
  BY <1>0, <1>3, TakeResolutionOK DEF Expire
<1> QED
  BY <1>1, <1>2, <1>3
-----------------------------------------------------------------------------
(* A runner that waits, decides and gives up its browser                   *)

LEMMA ActOnAnswerOK ==
    ASSUME TypeOK, JobInv, ServiceInv, NEW j \in Job, ActOnAnswer(j)
    PROVE  ServiceInv'
<1> DEFINE r == row[j]
           l == pc[j]
           x == run[j]
           o == x.option
           m == Continuation(o)
           y == [x EXCEPT
                   !.outcome = IF o = "skip_stage" THEN "skipped" ELSE @,
                   !.failed = @ \/ o = "skip_stage",
                   !.skipRest = @ \/ o = "skip_remaining_pipeline"]
<1> USE DEF At, StatusAt, LocalsAt, QuestionOK, HoldsAt, AlivePC, WaitPC,
        ReviewPC, HeldPC, OpenPC, NoLivePC, InStagePC
<1>0. /\ x \in Locals /\ At(j, r, l, x) /\ l = "answered"
  BY DEF TypeOK, ServiceInv, RunnerOK, ActOnAnswer
<1>1. CASE IsCancelling(j)
  <2>1. At(j, r, "cancel", x)
    BY <1>0, <1>1 DEF StagesAt, IsCancelling
  <2> HIDE DEF At
  <2> QED
    BY <1>1, <2>1, MoveOK DEF ActOnAnswer
<1>2. CASE ~IsCancelling(j)
  <2>1. /\ y.option = o /\ y.stage = x.stage
        /\ y.failed = (x.failed \/ o = "skip_stage")
        /\ y.outcome = IF o = "skip_stage" THEN "skipped" ELSE x.outcome
    BY <1>0 DEF Locals
  <2>2. o \in Offered(r.ckpt.kind)
    BY <1>0
  <2>3. /\ m \in {"finish", "review_release", "check", "cancel_self", "skip_outreach", "retry", "stop", "reacquire", "error"}
        /\ m = "finish" => o = "skip_stage" \/ r.ckpt.kind \in {"insufficient_evidence", "qualification_review"}
        /\ m = "finish" => r.ckpt.kind # "manual_review_session"
        /\ m = "review_release" => r.ckpt.kind \in {"qualification_review", "strategy_review"}
        /\ m \in {"check", "cancel_self", "skip_outreach", "retry", "stop"} => r.ckpt.kind # "manual_review_session" /\ o # "skip_stage"
        /\ m = "reacquire" => r.ckpt.kind = "manual_review_session"
        /\ o = "skip_stage" => m = "finish"
    BY <2>2 DEF Continuation, Offered
  <2> HIDE DEF y, m
  <2>4. StatusAt(r, m, up) /\ StagesAt(r, m, y.stage)
    BY <1>0, <2>1, <2>3 DEF StagesAt
  <2>5. LocalsAt(r, m, y)
    <3>1. m # "idle" /\ x \in Locals
      BY <1>0, <2>3
    <3>2. m \in AlivePC => ((\E t \in Stage : r.stages[t] = "failed") => y.failed)
      BY <1>0, <2>1
    <3>3. m \in AlivePC /\ y.failed =>
             \/ \E t \in Stage : r.stages[t] \in {"failed", "skipped"}
             \/ m = "finish" /\ y.outcome \in {"failed", "skipped"}
      BY <1>0, <2>1, <2>3
    <3>4. m \in AlivePC /\ y.outcome = "failed" => y.failed
      BY <1>0, <2>1
    <3>5. m \in {"after", "finish"} => y.outcome \in Done
      BY <1>0, <2>1, <2>3 DEF Done
    <3>6. m \in ReviewPC => y.stage = OutreachStage \/ y.outcome \in Done
      BY <1>0, <2>1, <2>3
    <3> QED
      BY <2>3, <3>1, <3>2, <3>3, <3>4, <3>5, <3>6
  <2>6. QuestionOK(r.ckpt, m, y, j \in due, answer[j])
    BY <1>0, <2>1, <2>3
  <2>7. HoldsAt(r, m, lease[j], browser[j])
    BY <1>0, <2>3
  <2>8. At(j, r, m, y)
    BY <2>4, <2>5, <2>6, <2>7
  <2> HIDE DEF At
  <2> QED
    BY <1>2, <2>8, LocalOK DEF ActOnAnswer, y, m
<1> QED
  BY <1>1, <1>2

LEMMA RetryStageOK ==
    ASSUME TypeOK, JobInv, ServiceInv, NEW j \in Job, RetryStage(j)
    PROVE  ServiceInv'
<1> DEFINE r == row[j]
           l == pc[j]
           x == run[j]
           s == x.stage
           f == FinishStage(r, s, "failed")
           n == StartStage(f, s)
           y == [x EXCEPT !.retried = TRUE]
<1>0. /\ r \in Row /\ x \in Locals /\ s \in Stage
      /\ At(j, r, l, x) /\ l = "retry" /\ r.stages[s] = "running"
  BY DEF TypeOK, JobInv, JobOK, RunnerAt, ServiceInv, RunnerOK, At, StagesAt,
     RetryStage, InStagePC, WaitPC
<1>1. /\ CanFinishStage(r, s) /\ f \in Row /\ f.stages = [r.stages EXCEPT ![s] = "failed"]
      /\ f.status = r.status /\ f.account = r.account
      /\ f.ckpt = r.ckpt /\ f.campaign = r.campaign
  BY <1>0, FinishStageType DEF CanFinishStage, FinishStage, Row, StageStatus,
     TERMINAL_STAGE_STATUSES
<1> USE DEF At, StatusAt, LocalsAt, QuestionOK, HoldsAt, AlivePC, WaitPC,
        ReviewPC, HeldPC, OpenPC, NoLivePC, InStagePC
<1>2. CASE CanStartStage(f, s)
  <2>1. /\ n.stages = r.stages /\ n.status = r.status /\ n.account = r.account
        /\ n.ckpt = r.ckpt /\ n.campaign = r.campaign
    <3> HIDE DEF f
    <3>1. n.stages = [f.stages EXCEPT ![s] = "running"] /\ n.status = f.status /\ n.account = f.account
        /\ n.ckpt = f.ckpt /\ n.campaign = f.campaign
      BY <1>1 DEF StartStage, Row
    <3>2. [f.stages EXCEPT ![s] = "running"] = r.stages
      BY <1>0, <1>1 DEF Row
    <3> QED
      BY <1>1, <3>1, <3>2
  <2>2. y.option = x.option /\ y.stage = s /\ y.failed = x.failed /\ y.outcome = x.outcome
    BY <1>0 DEF Locals
  <2>3. /\ row' = [row EXCEPT ![j] = n] /\ pc' = [pc EXCEPT ![j] = "check"]
        /\ run' = [run EXCEPT ![j] = y]
        /\ UNCHANGED <<due, answer, up, lease, browser>>
    BY <1>1, <1>2 DEF RetryStage, SetRow, SetRun, Goto, KeepResources,
       KeepOthers
  <2>5. r.status = "running"
    BY <1>1, <1>2 DEF CanStartStage
  <2> HIDE DEF n, y
  <2>4. At(j, n, "check", y)
    BY <1>0, <2>1, <2>2, <2>5 DEF StagesAt, InOrder, Passed, Ahead
  <2> HIDE DEF At
  <2> QED
    BY <2>3, <2>4, OneJobOK
<1>3. CASE ~CanStartStage(f, s)
  <2>1. /\ row' = [row EXCEPT ![j] = f] /\ pc' = [pc EXCEPT ![j] = "error"]
        /\ run' = [run EXCEPT ![j] = x]
        /\ UNCHANGED <<due, answer, up, lease, browser>>
    BY <1>1, <1>3 DEF RetryStage, SetRow, Goto, KeepResources, KeepOthers,
       TypeOK
  <2>2. StagesOK(f)
    <3>1. StagesOK(r)
      BY <1>0 DEF StagesAt, StagesOK
    <3>2. Settles(r, f)
      BY <1>0, <1>1, FinishStageSettles DEF TERMINAL_STAGE_STATUSES
    <3> QED
      BY <3>1, <3>2, SettlesKeeps
  <2> HIDE DEF f
  <2>3. At(j, f, "error", x)
    BY <1>0, <1>1, <2>2 DEF StagesAt, StagesOK
  <2> HIDE DEF At
  <2> QED
    BY <2>1, <2>3, OneJobOK
<1> QED
  BY <1>2, <1>3

LEMMA StopJobOK ==
    ASSUME TypeOK, JobInv, ServiceInv, NEW j \in Job, StopJob(j)
    PROVE  ServiceInv'
<1> DEFINE r == row[j]
           l == pc[j]
           x == run[j]
           s == x.stage
           f == FinishStage(r, s, "failed")
           k == SkipPendingStages(f)
           n == CloseJob(k, "failed")
<1>0. /\ r \in Row /\ x \in Locals /\ s \in Stage
      /\ At(j, r, l, x) /\ l = "stop" /\ r.stages[s] = "running"
  BY DEF TypeOK, JobInv, JobOK, RunnerAt, ServiceInv, RunnerOK, At, StagesAt,
     StopJob, InStagePC, WaitPC
<1>1. CASE ~(CanFinishStage(r, s) /\ CanClose(r))
  BY <1>0, <1>1, ToErrorOK DEF StopJob, WriteIf, AlivePC, InStagePC, WaitPC
<1>2. CASE CanFinishStage(r, s) /\ CanClose(r)
  <2>1. /\ Settles(r, f) /\ f.account = r.account /\ f.ckpt = r.ckpt /\ f \in Row
    BY <1>0, <1>2, FinishStageSettles, FinishStageType DEF StageStatus,
       TERMINAL_STAGE_STATUSES
  <2> HIDE DEF f
  <2>2. /\ Settles(f, k) /\ k.account = f.account /\ k.ckpt = f.ckpt /\ k \in Row
    BY <2>1, SkipPendingSettles, SettleType, StatusWords DEF SkipPendingStages
  <2> HIDE DEF k
  <2>3. /\ n.status = "failed" /\ n.account = r.account /\ n.ckpt = r.ckpt
        /\ n.stages = k.stages /\ n.campaign = k.campaign
    BY <2>1, <2>2 DEF CloseJob, Row
  <2> HIDE DEF n
  <2>4. StagesOK(n)
    <3>1. StagesOK(r)
      BY <1>0 DEF At, StagesAt, StagesOK
    <3>2. StagesOK(f)
      BY <2>1, <3>1, SettlesKeeps
    <3>3. StagesOK(k)
      BY <2>2, <3>2, SettlesKeeps
    <3> QED
      BY <2>3, <3>3 DEF StagesOK, InOrder, Passed
  <2>5. At(j, n, "release", x)
    BY <1>0, <2>3, <2>4 DEF At, StatusAt, StagesAt, StagesOK, LocalsAt,
       QuestionOK, HoldsAt, AlivePC, WaitPC, ReviewPC, HeldPC, OpenPC,
       NoLivePC, InStagePC, ActiveJobStatus
  <2> QED
    BY <1>2, <2>5, WriteOK DEF StopJob, WriteIf, n, k, f
<1> QED
  BY <1>1, <1>2

LEMMA DecisionStepOK ==
    ASSUME TypeOK, JobInv, ServiceInv, NEW j \in Job,
           \/ AskBefore(j) \/ AskAfter(j) \/ AskFailure(j) \/ AskReview(j)
           \/ PollDecision(j) \/ Expire(j) \/ ActOnAnswer(j)
           \/ RetryStage(j) \/ StopJob(j) \/ SkipOutreach(j)
           \/ CancelSelf(j) \/ CancelStage(j)
    PROVE  ServiceInv'
<1> DEFINE r == row[j]
           l == pc[j]
           x == run[j]
           s == x.stage
<1>0. /\ r \in Row /\ x \in Locals /\ RowOK(r) /\ RunnerAt(r, l, s)
      /\ At(j, r, l, x)
  BY DEF TypeOK, JobInv, JobOK, ServiceInv, RunnerOK
<1>1. CASE AskBefore(j)
  BY <1>1, PlansFit, AskOK DEF AskBefore
<1>2. CASE AskAfter(j)
  BY <1>2, PlansFit, AskOK DEF AskAfter
<1>3. CASE AskFailure(j)
  BY <1>3, PlansFit, AskOK DEF AskFailure
<1>4. CASE AskReview(j)
  BY <1>4, PlansFit, AskOK DEF AskReview
<1> USE DEF At, StatusAt, LocalsAt, QuestionOK, HoldsAt, AlivePC, WaitPC,
        ReviewPC, HeldPC, OpenPC, NoLivePC, InStagePC
<1>5. CASE PollDecision(j)
  <2>1. CASE r.ckpt.status # "pending"
    BY <1>5, <2>1, TakeResolutionOK DEF PollDecision
  <2>2. CASE r.ckpt.status = "pending"
    <3>1. JustGoto(j, "expire") /\ j \in due /\ l = "wait"
      BY <1>5, <2>2 DEF PollDecision
    <3>2. At(j, r, "expire", x)
      BY <1>0, <2>2, <3>1 DEF StagesAt
    <3> HIDE DEF At
    <3> QED
      BY <3>1, <3>2, MoveOK
  <2> QED
    BY <2>1, <2>2
<1>10. CASE SkipOutreach(j)
  <2> DEFINE n == FinishStage(r, s, "skipped")
  <2>1. l = "skip_outreach" /\ s \in Stage /\ CanFinishStage(r, s)
    BY <1>0, <1>10 DEF SkipOutreach, RunnerAt, StagesAt, CanFinishStage
  <2>2. /\ Settles(r, n) /\ n.stages[s] = "skipped"
        /\ \A t \in Stage \ {s} : n.stages[t] = r.stages[t]
        /\ n.status = r.status /\ n.account = r.account
        /\ n.ckpt = r.ckpt
    BY <1>0, <2>1, FinishStageSettles DEF TERMINAL_STAGE_STATUSES
  <2>3. StagesOK(n) /\ Passed(n, s) /\ Ahead(n, s) /\ n.campaign = r.campaign
    <3>1. Passed(r, s) /\ Ahead(r, s) /\ StagesOK(r)
      BY <1>0, <2>1 DEF StagesAt, StagesOK
    <3> HIDE DEF n, r, x, l
    <3>2. Ahead(n, s)
      BY <2>2, <3>1 DEF Ahead, Stage
    <3> QED
      BY <2>1, <2>2, <3>1, <3>2, SettlesKeeps DEF Settles
  <2> HIDE DEF n
  <2>4. At(j, n, "top", x)
    BY <1>0, <2>1, <2>2, <2>3 DEF StagesAt, StagesOK, Done
  <2> HIDE DEF At
  <2> QED
    BY <1>10, <2>1, <2>4, WriteOK DEF SkipOutreach, WriteIf, n
<1>11. CASE CancelSelf(j)
  <2> DEFINE n == RequestCancel(r)
  <2>1. l = "cancel_self" /\ r.status \in {"running", "cancelling"}
    BY <1>0, <1>11 DEF CancelSelf
  <2>2. /\ n.account = r.account /\ n.status = "cancelling" /\ n.campaign = r.campaign
        /\ n.stages = r.stages /\ n.ckpt = r.ckpt
    BY <1>0, <2>1, RequestCancelSettles DEF Settles
  <2> HIDE DEF n
  <2>3. At(j, n, "cancel_stage", x)
    BY <1>0, <2>1, <2>2 DEF StagesAt, InOrder, Passed, Ahead
  <2> HIDE DEF At
  <2> QED
    BY <1>11, <2>3, WriteOK DEF CancelSelf, n
<1>12. CASE CancelStage(j)
  <2> DEFINE n == FinishStage(r, s, "cancelled")
  <2>1. l = "cancel_stage" /\ s \in Stage /\ CanFinishStage(r, s)
    BY <1>0, <1>12 DEF CancelStage, RunnerAt, StagesAt, CanFinishStage
  <2>2. /\ Settles(r, n)
        /\ n.status = r.status /\ n.account = r.account
        /\ n.ckpt = r.ckpt
    BY <1>0, <2>1, FinishStageSettles DEF TERMINAL_STAGE_STATUSES
  <2>3. StagesOK(n)
    BY <1>0, <2>1, <2>2, SettlesKeeps DEF StagesAt, StagesOK
  <2> HIDE DEF n
  <2>4. At(j, n, "cancel", x)
    BY <1>0, <2>1, <2>2, <2>3 DEF StagesAt, StagesOK
  <2> HIDE DEF At
  <2> QED
    BY <1>12, <2>1, <2>4, WriteOK DEF CancelStage, WriteIf, n
<1> QED
  BY <1>1, <1>2, <1>3, <1>4, <1>5, <1>10, <1>11, <1>12, ExpireOK,
     ActOnAnswerOK, RetryStageOK, StopJobOK

\* A step that also moves the job's browser or lease.
LEMMA ResourceOK ==
    ASSUME TypeOK, ServiceInv, NEW j \in Job, NEW l, NEW x, NEW held, NEW br,
           Goto(j, l), run' = [run EXCEPT ![j] = x], KeepDb, KeepOthers,
           lease' = [lease EXCEPT ![j] = held],
           browser' = [browser EXCEPT ![j] = br],
           StatusAt(row[j], l, up), StagesAt(row[j], l, x.stage),
           LocalsAt(row[j], l, x),
           QuestionOK(row[j].ckpt, l, x, j \in due, answer[j]),
           HoldsAt(row[j], l, held, br)
    PROVE  ServiceInv'
<1>1. /\ row' = row /\ pc'[j] = l /\ run'[j] = x /\ up' = up /\ due' = due
      /\ answer' = answer /\ lease'[j] = held /\ browser'[j] = br
      /\ \A k \in Job \ {j} :
            /\ pc'[k] = pc[k] /\ run'[k] = run[k]
            /\ lease'[k] = lease[k] /\ browser'[k] = browser[k]
  BY DEF TypeOK, Goto, KeepDb, KeepOthers
<1>2. RunnerOK(j)'
  BY <1>1 DEF RunnerOK, At
<1> QED
  BY <1>1, <1>2, OthersOK

LEMMA ResourceStepOK ==
    ASSUME TypeOK, JobInv, ServiceInv, NEW j \in Job,
           \/ OpenBrowser(j) \/ ReleaseForReview(j) \/ Reacquire(j)
           \/ ReacquireLease(j) \/ CheckReacquired(j) \/ ReopenBrowser(j)
           \/ ResumeAfterReview(j) \/ EndCancelled(j) \/ EndInError(j)
           \/ Release(j) \/ Killed(j)
    PROVE  ServiceInv'
<1> DEFINE r == row[j]
           l == pc[j]
           x == run[j]
           s == x.stage
           Fine(m, y, held, br) ==
              /\ StatusAt(r, m, up) /\ StagesAt(r, m, y.stage)
              /\ LocalsAt(r, m, y)
              /\ QuestionOK(r.ckpt, m, y, j \in due, answer[j])
              /\ HoldsAt(r, m, held, br)
<1> USE DEF At, StatusAt, LocalsAt, QuestionOK, HoldsAt, AlivePC, WaitPC,
        ReviewPC, HeldPC, OpenPC, NoLivePC, InStagePC
<1>0. /\ r \in Row /\ x \in Locals /\ RowOK(r) /\ RunnerAt(r, l, s)
      /\ At(j, r, l, x)
  BY DEF TypeOK, JobInv, JobOK, ServiceInv, RunnerOK
<1>a. run = [run EXCEPT ![j] = x] /\ lease = [lease EXCEPT ![j] = lease[j]]
  BY DEF TypeOK
<1>1. CASE OpenBrowser(j)
  <2>1. Fine("top", x, lease[j], r.account)
    BY <1>0, <1>1 DEF OpenBrowser, StagesAt
  <2> HIDE DEF StatusAt, LocalsAt, QuestionOK, HoldsAt, At
  <2> QED
    BY <1>1, <1>a, <2>1, ResourceOK DEF OpenBrowser
<1>2. CASE ReleaseForReview(j)
  <2>1. Fine("review", x, NoAccount, NoAccount)
    BY <1>0, <1>2 DEF ReleaseForReview, StagesAt
  <2> HIDE DEF StatusAt, LocalsAt, QuestionOK, HoldsAt, At
  <2> QED
    BY <1>2, <1>a, <2>1, ResourceOK DEF ReleaseForReview, FreeResources
<1>3. CASE Reacquire(j)
  <2>1. \A m \in {"reacquire_load", "reacquire_lease"} :
          l \in {"reacquire", "reacquire_load"} => At(j, r, m, x)
    BY <1>0 DEF StagesAt
  <2>2. l \in {"reacquire", "reacquire_load"}
    BY <1>3 DEF Reacquire
  <2>3. l \in AlivePC \ WaitPC
    BY <2>2
  <2> HIDE DEF At
  <2> QED
    BY <1>3, <2>1, <2>2, <2>3, MoveOK, ToErrorOK DEF Reacquire
<1>4. CASE ReacquireLease(j)
  <2>1. CASE IsCancelling(j)
    <3>1. At(j, r, "cancel", x)
      BY <1>0, <1>4, <2>1 DEF ReacquireLease, StagesAt, IsCancelling
    <3> HIDE DEF At
    <3> QED
      BY <1>4, <2>1, <3>1, MoveOK DEF ReacquireLease
  <2>2. CASE ~IsCancelling(j)
    <3>1. Fine("reacquire_cancel", x, r.account, browser[j])
      BY <1>0, <1>4 DEF ReacquireLease, StagesAt
    <3>2. browser = [browser EXCEPT ![j] = browser[j]]
      BY DEF TypeOK
    <3> HIDE DEF StatusAt, LocalsAt, QuestionOK, HoldsAt, At
    <3> QED
      BY <1>4, <1>a, <2>2, <3>1, <3>2, ResourceOK DEF ReacquireLease
  <2> QED
    BY <2>1, <2>2
<1>5. CASE CheckReacquired(j)
  <2>1. CASE IsCancelling(j)
    <3>1. Fine("cancel", x, NoAccount, NoAccount)
      BY <1>0, <1>5, <2>1 DEF CheckReacquired, StagesAt, IsCancelling
    <3> HIDE DEF StatusAt, LocalsAt, QuestionOK, HoldsAt, At
    <3> QED
      BY <1>5, <1>a, <2>1, <3>1, ResourceOK DEF CheckReacquired, FreeResources
  <2>2. CASE ~IsCancelling(j)
    <3>1. At(j, r, "reacquire_open", x)
      BY <1>0, <1>5 DEF CheckReacquired, StagesAt
    <3> HIDE DEF At
    <3> QED
      BY <1>5, <2>2, <3>1, MoveOK DEF CheckReacquired
  <2> QED
    BY <2>1, <2>2
<1>6. CASE ReopenBrowser(j)
  <2>1. Fine("reacquired", x, lease[j], r.account)
    BY <1>0, <1>6 DEF ReopenBrowser, StagesAt
  <2> HIDE DEF StatusAt, LocalsAt, QuestionOK, HoldsAt, At
  <2> QED
    BY <1>6, <1>a, <2>1, ResourceOK DEF ReopenBrowser
<1>7. CASE ResumeAfterReview(j)
  <2>1. At(j, r, IF IsCancelling(j) THEN "cancel"
                 ELSE IF s = OutreachStage THEN "before" ELSE "finish", x)
    BY <1>0, <1>7 DEF ResumeAfterReview, StagesAt, IsCancelling
  <2> HIDE DEF At
  <2> QED
    BY <1>7, <2>1, MoveOK DEF ResumeAfterReview
<1>8. CASE EndCancelled(j)
  <2> DEFINE n == FinishCancellation(r)
  <2>1. /\ Settles(r, n) /\ n.account = r.account /\ n.ckpt = r.ckpt
        /\ n.status = "cancelled" /\ n.campaign = r.campaign /\ l = "cancel"
    BY <1>0, <1>8, EndingSettles DEF EndCancelled, Settles
  <2>2. StagesOK(n)
    BY <1>0, <2>1, SettlesKeeps DEF StagesAt, StagesOK
  <2> HIDE DEF n
  <2>3. At(j, n, "release", x)
    BY <1>0, <2>1, <2>2 DEF StagesAt, StagesOK, ActiveJobStatus
  <2> HIDE DEF At
  <2> QED
    BY <1>8, <2>3, WriteOK DEF EndCancelled, n
<1>9. CASE EndInError(j)
  <2> DEFINE n == FinishInternalError(r)
  <2>1. /\ Settles(r, n) /\ n.account = r.account /\ n.ckpt = r.ckpt
        /\ n.status # r.status => n.status \in {"cancelled", "failed"}
        /\ r.status = "cancelling" => n.status = "cancelled"
        /\ n.campaign = r.campaign /\ l = "error"
    BY <1>0, <1>9, EndingSettles DEF EndInError, Settles
  <2>2. r.status = "running" => n.status = "failed"
    BY <1>0 DEF FinishInternalError, Settle, Row
  <2>3. StagesOK(n)
    BY <1>0, <2>1, SettlesKeeps DEF StagesAt, StagesOK
  <2> HIDE DEF n
  <2>4. At(j, n, "release", x)
    BY <1>0, <2>1, <2>2, <2>3 DEF StagesAt, StagesOK, ActiveJobStatus
  <2> HIDE DEF At
  <2> QED
    BY <1>9, <2>4, WriteOK DEF EndInError, n
<1>10. CASE Release(j)
  <2>1. Fine("idle", InitLocals, NoAccount, NoAccount)
    BY <1>0, <1>10 DEF Release, StagesAt, InitLocals
  <2> HIDE DEF StatusAt, LocalsAt, QuestionOK, HoldsAt, At
  <2> QED
    BY <1>10, <2>1, ResourceOK DEF Release, FreeResources, SetRun
<1>11. CASE Killed(j)
  <2>1. CASE l = "wait"
    <3> DEFINE n == ResumeWaiting(r, s)
    <3>1. /\ Settles(r, n) /\ n.account = r.account
          /\ n.status # "waiting_decision"
          /\ n.status # r.status => n.status \in {"running", "interrupted"}
          /\ n.ckpt = Withdrawn(r.ckpt)
      BY <1>0, <2>1, WaiterSettles DEF RunnerAt
    <3>2. StagesOK(n) /\ n.campaign = r.campaign
      BY <1>0, <3>1, SettlesKeeps DEF StagesAt, StagesOK, Settles
    <3>3. SameQuestion(r.ckpt, n.ckpt) /\ n.ckpt.resolution = r.ckpt.resolution
          /\ n.ckpt.status = IF r.ckpt.status = "pending" THEN "cancelled" ELSE r.ckpt.status
      BY <1>0, <3>1 DEF Withdrawn, SameQuestion, Row, Checkpoint
    <3> HIDE DEF n
    <3>4. At(j, n, "release", x)
      BY <1>0, <1>11, <2>1, <3>1, <3>2, <3>3 DEF StagesAt, StagesOK, Killed,
         SameQuestion, Answered
    <3> HIDE DEF At
    <3> QED
      BY <1>11, <2>1, <3>4, WriteOK DEF Killed, n
  <2>2. CASE l # "wait"
    <3>1. At(j, r, "release", x)
      BY <1>0, <1>11, <2>2 DEF StagesAt, Killed, AwaitPC
    <3> HIDE DEF At
    <3> QED
      BY <1>11, <2>2, <3>1, WriteOK DEF Killed
  <2> QED
    BY <2>1, <2>2
<1> QED
  BY <1>1, <1>2, <1>3, <1>4, <1>5, <1>6, <1>7, <1>8, <1>9, <1>10, <1>11

LEMMA FaultStepOK ==
    ASSUME TypeOK, JobInv, ServiceInv, NEW j \in Job, RunnerFault(j)
    PROVE  ServiceInv'
<1> DEFINE r == row[j]
           l == pc[j]
           x == run[j]
           s == x.stage
           Fine(m, y, held, br) ==
              /\ StatusAt(r, m, up) /\ StagesAt(r, m, y.stage)
              /\ LocalsAt(r, m, y)
              /\ QuestionOK(r.ckpt, m, y, j \in due, answer[j])
              /\ HoldsAt(r, m, held, br)
<1> USE DEF AlivePC, WaitPC, NoLivePC, InStagePC
<1>1. CASE OpenBrowserFails(j)
  BY <1>1, ToErrorOK DEF OpenBrowserFails
<1>2. CASE StageRaises(j)
  BY <1>2, ToErrorOK DEF StageRaises
<1>5. CASE ReleaseForReviewFails(j)
  BY <1>5, ToErrorOK DEF ReleaseForReviewFails
<1>6. CASE ReacquireFails(j)
  BY <1>6, ToErrorOK DEF ReacquireFails
<1>9. CASE ApprovalFails(j)
  BY <1>9, ToErrorOK DEF ApprovalFails
<1> USE DEF At, StatusAt, LocalsAt, QuestionOK, HoldsAt, 
        ReviewPC, HeldPC, OpenPC
<1>0. /\ r \in Row /\ x \in Locals /\ RowOK(r) /\ RunnerAt(r, l, s)
      /\ At(j, r, l, x)
  BY DEF TypeOK, JobInv, JobOK, ServiceInv, RunnerOK
<1>a. run = [run EXCEPT ![j] = x]
  BY DEF TypeOK
<1>3. ASSUME NEW code \in ErrorCode, StageFails(j, code)
      PROVE  ServiceInv'
  <2> DEFINE y == [x EXCEPT !.code = code]
             z == [x EXCEPT !.outcome = "failed", !.failed = TRUE]
  <2>1. /\ y.stage = s /\ y.failed = x.failed /\ y.outcome = x.outcome /\ y.option = x.option
        /\ z.stage = s /\ z.failed = TRUE /\ z.outcome = "failed" /\ z.option = x.option
    BY <1>0 DEF Locals
  <2>2. l = "running"
    BY <1>3 DEF StageFails
  <2> HIDE DEF y, z
  <2>3. At(j, r, "failure", y)
    BY <1>0, <2>1, <2>2 DEF StagesAt
  <2>4. At(j, r, "finish", z)
    BY <1>0, <2>1, <2>2 DEF StagesAt, Done
  <2> HIDE DEF At
  <2> QED
    BY <1>3, <2>3, <2>4, LocalOK DEF StageFails, y, z
<1>4. CASE WaiterFails(j)
  <2>1. PICK n \in {ResumeWaiting(r, s), InterruptWaiting(r, s)} : Write(j, n, "error")
    BY <1>4 DEF WaiterFails
  <2>2. l = "wait"
    BY <1>4 DEF WaiterFails
  <2>3. /\ Settles(r, n) /\ n.account = r.account
        /\ n.status # "waiting_decision"
        /\ n.status # r.status => n.status \in {"running", "interrupted"}
        /\ n.ckpt = Withdrawn(r.ckpt)
    BY <1>0, <2>2, WaiterSettles DEF RunnerAt
  <2>4. StagesOK(n) /\ n.campaign = r.campaign
    <3>1. StagesOK(r)
      BY <1>0 DEF StagesAt, StagesOK
    <3> QED
      BY <2>3, <3>1, SettlesKeeps DEF Settles
  <2>5. SameQuestion(r.ckpt, n.ckpt) /\ n.ckpt.resolution = r.ckpt.resolution
        /\ n.ckpt.status = IF r.ckpt.status = "pending" THEN "cancelled" ELSE r.ckpt.status
    BY <1>0, <2>3 DEF Withdrawn, SameQuestion, Row, Checkpoint
  <2>6. At(j, n, "error", x)
    BY <1>0, <2>2, <2>3, <2>4, <2>5 DEF StagesAt, StagesOK, SameQuestion,
       Answered
  <2> HIDE DEF At
  <2> QED
    BY <2>1, <2>6, WriteOK
<1>7. CASE ReopenBrowserFails(j)
  <2>1. Fine("error", x, NoAccount, NoAccount)
    BY <1>0, <1>7 DEF ReopenBrowserFails, StagesAt
  <2> HIDE DEF StatusAt, LocalsAt, QuestionOK, HoldsAt, At
  <2> QED
    BY <1>7, <1>a, <2>1, ResourceOK DEF ReopenBrowserFails, FreeResources
<1>8. CASE ReleaseUnconfirmed(j)
  <2>1. Fine("idle", InitLocals, NoAccount, NoAccount)
    BY <1>0, <1>8 DEF ReleaseUnconfirmed, StagesAt, InitLocals
  <2> HIDE DEF StatusAt, LocalsAt, QuestionOK, HoldsAt, At
  <2> QED
    BY <1>8, <2>1, ResourceOK DEF ReleaseUnconfirmed, SetRun
<1> QED
  BY <1>1, <1>2, <1>3, <1>4, <1>5, <1>6, <1>7, <1>8, <1>9 DEF RunnerFault
-----------------------------------------------------------------------------
(* Everybody else                                                          *)

\* The dispatcher only works while the service is up.
DispatchUp == disp.pc # "idle" => up = "up"

LEMMA QuietOK ==
    ASSUME ServiceInv,
           UNCHANGED <<row, due, up, pc, run, lease, browser, answer>>
    PROVE  ServiceInv'
BY DEF ServiceInv, RunnerOK, At

LEMMA DispatcherStepOK ==
    ASSUME TypeOK, JobInv, ServiceInv, DispatchUp, DispatcherStep
    PROVE  ServiceInv'
<1> USE DEF KeepRunners, KeepApi
<1>1. CASE Poll
  BY <1>1, QuietOK DEF Poll
<1>2. CASE EndScan
  BY <1>2, QuietOK DEF EndScan
<1>3. CASE LeaseAccount
  BY <1>3, QuietOK DEF LeaseAccount
<1>4. CASE AccountUnavailable
  BY <1>4, QuietOK DEF AccountUnavailable
<1>5. CASE Claim
  <2>a. PICK j \in Job, a \in Account : j = disp.job /\ a = disp.account
    BY <1>5 DEF Claim, JobInv, DispatchOK
  <2> DEFINE r == row[j]
             n == ClaimJob(r, a)
  <2>1. up = "up"
    BY <1>5 DEF Claim, DispatchUp
  <2>2. CASE CanClaim(r)
    <3>1. /\ r \in Row /\ At(j, r, pc[j], run[j]) /\ run[j] \in Locals
          /\ RowOK(r) /\ RunnerAt(r, pc[j], run[j].stage)
      BY <2>1 DEF TypeOK, ServiceInv, RunnerOK, JobInv, JobOK
    <3>2. /\ n.status = "running" /\ n.account = a /\ n.stages = r.stages
          /\ n.ckpt = r.ckpt /\ n.campaign = r.campaign /\ r.status = "queued"
      BY <2>2, <3>1 DEF ClaimJob, CanClaim, Row
    <3>3. pc[j] = "idle" /\ run[j] = InitLocals /\ lease[j] = NoAccount /\ browser[j] = NoAccount
      BY <3>1, <3>2 DEF At, StatusAt, LocalsAt, HoldsAt
    <3>4. /\ \A t \in Stage : r.stages[t] \in {"pending", "none"}
          /\ r.campaign => \A t \in Stage : r.stages[t] # "none" => CollectStage <= t
          /\ run[j].stage = 0
      BY <3>1, <3>2, <3>3 DEF At, StagesAt, InitLocals
    <3> HIDE DEF n
    <3>5. StatusAt(n, "load", up)
      BY <2>1, <3>2 DEF StatusAt, WaitPC
    <3>6. StagesAt(n, "load", run[j].stage)
      BY <3>2, <3>4, StageAssumption
      DEF StagesAt, InOrder, Passed, Ahead, WaitPC, InStagePC, Stage,
          LiveStageStatus
    <3>7. LocalsAt(n, "load", run[j])
      BY <3>2, <3>3, <3>4 DEF LocalsAt, InitLocals, WaitPC, ReviewPC
    <3>8. QuestionOK(n.ckpt, "load", run[j], j \in due, answer[j])
      BY <3>1, <3>2 DEF At, QuestionOK
    <3>9. HoldsAt(n, "load", a, browser[j])
      BY <3>2, <3>3 DEF HoldsAt, OpenPC, HeldPC, WaitPC
    <3>10. /\ row'[j] = n /\ pc'[j] = "load" /\ run'[j] = run[j] /\ up' = up
           /\ due' = due /\ answer' = answer /\ lease'[j] = a
           /\ browser'[j] = browser[j]
           /\ \A k \in Job \ {j} :
                /\ row'[k] = row[k] /\ pc'[k] = pc[k] /\ run'[k] = run[k]
                /\ lease'[k] = lease[k] /\ browser'[k] = browser[k]
      BY <1>5, <2>a, <2>2 DEF Claim, SetRow, Goto, TypeOK, n
    <3>11. RunnerOK(j)'
      BY <3>5, <3>6, <3>7, <3>8, <3>9, <3>10 DEF RunnerOK, At
    <3> QED
      BY <3>10, <3>11, OthersOK
  <2>3. CASE ~CanClaim(r)
    BY <1>5, <2>a, <2>3, QuietOK DEF Claim
  <2> QED
    BY <2>2, <2>3
<1>6. ASSUME NEW j \in Job, NEW a \in Account, Consider(j, a)
      PROVE  ServiceInv'
  BY <1>6, QuietOK DEF Consider
<1> QED
  BY <1>1, <1>2, <1>3, <1>4, <1>5, <1>6 DEF DispatcherStep

\* A request that only writes the rows of one job.
LEMMA RequestRowOK ==
    ASSUME TypeOK, ServiceInv, NEW j \in Job, NEW r, SetRow(j, r),
           UNCHANGED <<due, answer>>, KeepProcess,
           At(j, r, pc[j], run[j])
    PROVE  ServiceInv'
<1>1. /\ row'[j] = r /\ pc' = pc /\ run' = run /\ up' = up /\ lease' = lease
      /\ browser' = browser
      /\ \A k \in Job \ {j} : row'[k] = row[k]
  BY DEF TypeOK, SetRow, KeepProcess, runnerVars
<1>2. RunnerOK(j)'
  BY <1>1 DEF RunnerOK, At
<1> QED
  BY <1>1, <1>2, OthersOK

\* A new job, in place of none.
LEMMA NewJobAt ==
    ASSUME TypeOK, ServiceInv, NEW j \in Job, row[j].status = "absent",
           NEW campaign, NEW included,
           campaign => \A s \in included : s \in Stage => CollectStage <= s
    PROVE  At(j, CreateJob(campaign, included), pc[j], run[j])
<1> DEFINE n == CreateJob(campaign, included)
<1>1. /\ n.status = "queued" /\ n.campaign = campaign /\ n.account = NoAccount
      /\ n.ckpt = NoCheckpoint
      /\ n.stages = [s \in Stage |-> IF s \in included THEN "pending" ELSE "none"]
  BY DEF CreateJob, NoRow
<1>2. At(j, NoRow, pc[j], run[j])
  BY DEF ServiceInv, RunnerOK, At, StatusAt
<1>3. NoRow.ckpt = NoCheckpoint /\ NoRow.status = "absent" /\ NoRow.account = NoAccount
  BY DEF NoRow
<1>4. pc[j] = "idle" /\ run[j] = InitLocals /\ lease[j] = NoAccount /\ browser[j] = NoAccount
  BY <1>2, <1>3 DEF At, StatusAt, LocalsAt, HoldsAt
<1> HIDE DEF n
<1> USE DEF AlivePC, NoLivePC, InStagePC, WaitPC, ReviewPC, HeldPC, OpenPC
<1>5. StatusAt(n, "idle", up)
  BY <1>1 DEF StatusAt, ActiveJobStatus
<1>6. StagesAt(n, "idle", run[j].stage)
  BY <1>1 DEF StagesAt, InOrder, LiveStageStatus
<1>7. LocalsAt(n, "idle", run[j])
  BY <1>4 DEF LocalsAt
<1>8. QuestionOK(n.ckpt, "idle", run[j], j \in due, answer[j])
  BY <1>1, <1>2, <1>3, <1>4 DEF At, QuestionOK
<1>9. HoldsAt(n, "idle", lease[j], browser[j])
  BY <1>4 DEF HoldsAt
<1> QED
  BY <1>4, <1>5, <1>6, <1>7, <1>8, <1>9 DEF At, n

LEMMA CancelledAt ==
    ASSUME TypeOK, JobInv, ServiceInv, NEW j \in Job, up = "up",
           row[j].status # "absent"
    PROVE  At(j, RequestCancel(row[j]), pc[j], run[j])
<1> DEFINE r == row[j]
           l == pc[j]
           x == run[j]
           s == x.stage
           n == RequestCancel(r)
<1> USE DEF AlivePC, NoLivePC, InStagePC, WaitPC, ReviewPC, HeldPC, OpenPC
<1>0. /\ r \in Row /\ x \in Locals /\ RowOK(r) /\ RunnerAt(r, l, s)
      /\ At(j, r, l, x) /\ l \in PC
  BY DEF TypeOK, JobInv, JobOK, ServiceInv, RunnerOK
<1>1. /\ Settles(r, n) /\ n.account = r.account
      /\ n.status = CASE r.status \in {"queued", "waiting_decision"} -> "cancelled"
                      [] r.status = "running" -> "cancelling"
                      [] OTHER -> r.status
      /\ r.status \notin {"queued", "waiting_decision"} =>
             n.stages = r.stages /\ n.ckpt = r.ckpt
      /\ r.status = "queued" => n.ckpt = r.ckpt
      /\ r.status = "waiting_decision" =>
             n.ckpt = [r.ckpt EXCEPT !.status = "cancelled"]
      /\ \A t \in Stage : n.stages[t] \in {"failed", "skipped"}
                            <=> r.stages[t] \in {"failed", "skipped"}
      /\ \A t \in Stage : n.stages[t] = "failed" <=> r.stages[t] = "failed"
  BY <1>0, RequestCancelSettles
<1>2. n.campaign = r.campaign
  BY <1>1 DEF Settles
<1> HIDE DEF n
<1>3. StagesOK(n) /\ \A t \in Stage : Passed(r, t) => Passed(n, t)
  BY <1>0, <1>1, SettlesKeeps DEF At, StagesAt, StagesOK
<1>4. CASE r.status = "waiting_decision"
  <2>1. l \in WaitPC
    BY <1>0, <1>4 DEF At, StatusAt, PC, AwaitPC, ActiveJobStatus
  <2>2. /\ SameQuestion(r.ckpt, n.ckpt) /\ n.ckpt.resolution = r.ckpt.resolution
        /\ n.ckpt.status = "cancelled" /\ n.status = "cancelled"
    BY <1>0, <1>1, <1>4 DEF SameQuestion, Row, Checkpoint
  <2>3. StatusAt(n, l, up)
    BY <1>0, <1>1, <2>1, <2>2 DEF At, StatusAt, Answered
  <2>4. StagesAt(n, l, s)
    BY <1>0, <1>3, <2>1, <2>2 DEF At, StagesAt, StagesOK, SameQuestion,
       Answered, RunnerAt
  <2>5. LocalsAt(n, l, x)
    BY <1>0, <1>1, <2>1, <2>2 DEF At, LocalsAt, SameQuestion
  <2>6. QuestionOK(n.ckpt, l, x, j \in due, answer[j])
    BY <1>0, <1>4, <2>1, <2>2 DEF At, QuestionOK, SameQuestion, Answered, RowOK
  <2>7. HoldsAt(n, l, lease[j], browser[j])
    BY <1>0, <1>1, <2>1, <2>2 DEF At, HoldsAt, SameQuestion
  <2> QED
    BY <2>3, <2>4, <2>5, <2>6, <2>7 DEF At, n
<1>5. CASE r.status = "queued"
  <2>1. /\ l = "idle" /\ n.ckpt = r.ckpt /\ n.status = "cancelled"
        /\ x = InitLocals
    BY <1>0, <1>1, <1>5 DEF At, StatusAt, LocalsAt
  <2>2. At(j, n, l, x)
    BY <1>0, <1>1, <1>3, <2>1 DEF At, StatusAt, StagesAt, StagesOK, LocalsAt,
       QuestionOK, HoldsAt, ActiveJobStatus
  <2> QED
    BY <2>2 DEF n
<1>6. CASE r.status \notin {"queued", "waiting_decision"}
  <2>1. /\ n.stages = r.stages /\ n.ckpt = r.ckpt
        /\ n.status = IF r.status = "running" THEN "cancelling" ELSE r.status
    BY <1>1, <1>6
  <2>2. StatusAt(n, l, up)
    BY <1>0, <1>1, <1>6, <2>1 DEF At, StatusAt, ActiveJobStatus
  <2>3. StagesAt(n, l, s)
    BY <1>0, <1>2, <1>6, <2>1 DEF At, StagesAt, InOrder, Passed, Ahead
  <2>4. LocalsAt(n, l, x)
    BY <1>0, <2>1 DEF At, LocalsAt
  <2>5. QuestionOK(n.ckpt, l, x, j \in due, answer[j])
    BY <1>0, <2>1 DEF At
  <2>6. HoldsAt(n, l, lease[j], browser[j])
    BY <1>0, <1>1, <2>1 DEF At, HoldsAt
  <2> QED
    BY <2>2, <2>3, <2>4, <2>5, <2>6 DEF At, n
<1> QED
  BY <1>4, <1>5, <1>6 DEF n

\* An answer that is written: the question is still open, or nothing happens.
LEMMA CommitOK ==
    ASSUME TypeOK, JobInv, ServiceInv, NEW j \in Job, CommitDecision(j)
    PROVE  ServiceInv'
<1> DEFINE r == row[j]
           l == pc[j]
           x == run[j]
           s == x.stage
           an == answer[j]
           n == ResolveOnce(r, an.id, an.option, an.source)
<1>0. /\ r \in Row /\ x \in Locals /\ RowOK(r) /\ RunnerAt(r, l, s)
      /\ At(j, r, l, x) /\ an \in Answer /\ an # NoAnswer
  BY DEF TypeOK, JobInv, JobOK, ServiceInv, RunnerOK, CommitDecision
<1>1. /\ row'[j] = n /\ pc' = pc /\ run' = run /\ up' = up /\ lease' = lease
      /\ browser' = browser /\ due' = due /\ answer'[j] = NoAnswer
      /\ \A k \in Job \ {j} : row'[k] = row[k] /\ answer'[k] = answer[k]
  BY DEF CommitDecision, TypeOK, SetRow, KeepProcess, runnerVars
<1>2. ASSUME NEW c, NEW d, QuestionOK(c, l, x, d, an), c.id \in Nat
      PROVE  QuestionOK(c, l, x, d, NoAnswer)
  BY <1>2 DEF QuestionOK, NoAnswer
<1>3. r.ckpt.id \in Nat
  BY <1>0 DEF Row, Checkpoint
<1>4. CASE ~CanResolveOnce(r, an.id)
  <2>1. n = r
    BY <1>4 DEF ResolveOnce
  <2>2. QuestionOK(r.ckpt, l, x, j \in due, NoAnswer)
    BY <1>0, <1>2, <1>3 DEF At
  <2> HIDE DEF n
  <2>3. RunnerOK(j)'
    BY <1>0, <1>1, <2>1, <2>2 DEF RunnerOK, At
  <2> QED
    BY <1>1, <2>3, OthersOK
<1>5. CASE CanResolveOnce(r, an.id)
  <2>1. /\ Settles(r, n) /\ n.stages[r.ckpt.stage] = "running" /\ r.ckpt.stage \in Stage
        /\ r.stages[r.ckpt.stage] = "waiting_decision"
        /\ \A t \in Stage \ {r.ckpt.stage} : n.stages[t] = r.stages[t]
        /\ n.status = "running" /\ n.account = r.account
        /\ SameQuestion(r.ckpt, n.ckpt)
        /\ n.ckpt.status = IF an.source = "timeout" THEN "expired"
                                                    ELSE "resolved"
        /\ n.ckpt.resolution = an.option
    <3>1. r \in Row /\ RowOK(r)
      BY <1>0
    <3> QED
      BY <1>5, <3>1, ResolveOnceSettles
  <2>2. /\ n.campaign = r.campaign /\ r.status = "waiting_decision"
        /\ r.ckpt.id = an.id /\ r.ckpt.status = "pending"
    BY <1>5, <2>1 DEF Settles, CanResolveOnce, CanResume, CanResolveCheckpoint
  <2>3. /\ \A t \in Stage : n.stages[t] \in {"failed", "skipped"} <=> r.stages[t] \in {"failed", "skipped"}
        /\ \A t \in Stage : n.stages[t] = "failed" <=> r.stages[t] = "failed"
    BY <2>1
  <2> HIDE DEF n
  <2>4. StagesOK(n) /\ \A t \in Stage : Passed(r, t) => Passed(n, t)
    BY <1>0, <2>1, SettlesKeeps DEF At, StagesAt, StagesOK
  <2> USE DEF AlivePC, NoLivePC, InStagePC, WaitPC, ReviewPC, HeldPC, OpenPC
  <2>5. l \notin AlivePC \ WaitPC /\ l \notin {"error", "cancel"}
    BY <1>0, <2>2 DEF At, StatusAt
  <2>6. StatusAt(n, l, up)
    BY <1>0, <2>1, <2>2, <2>5 DEF At, StatusAt, SameQuestion, ActiveJobStatus
  <2>7. StagesAt(n, l, s)
    <3>1. CASE l \notin WaitPC
      BY <2>1, <2>4, <2>5, <3>1 DEF StagesAt, StagesOK
    <3>2. CASE l \in WaitPC
      <4>1. r.ckpt.stage = s /\ Passed(r, s) /\ Ahead(r, s)
        BY <1>0, <2>1, <2>2, <3>2 DEF At, StagesAt
      <4>2. s \in Stage /\ n.stages[s] = "running" /\ Passed(n, s) /\ n.ckpt.stage = s
        BY <2>1, <2>4, <4>1 DEF SameQuestion
      <4>3. Ahead(n, s)
        BY <2>1, <4>1, StageAssumption DEF Ahead, Stage
      <4> QED
        BY <2>1, <2>4, <3>2, <4>2, <4>3 DEF StagesAt, StagesOK
    <3> QED
      BY <3>1, <3>2
  <2>8. LocalsAt(n, l, x)
    BY <1>0, <2>1, <2>2, <2>3, <2>5 DEF At, LocalsAt, SameQuestion
  <2>9. QuestionOK(n.ckpt, l, x, j \in due, NoAnswer)
    BY <1>0, <1>3, <2>1, <2>2, <2>5 DEF At, QuestionOK, SameQuestion, Answered,
       NoAnswer
  <2>10. HoldsAt(n, l, lease[j], browser[j])
    BY <1>0, <2>1, <2>5 DEF At, HoldsAt, SameQuestion
  <2>11. RunnerOK(j)'
    BY <1>1, <2>6, <2>7, <2>8, <2>9, <2>10 DEF RunnerOK, At
  <2> QED
    BY <1>1, <2>11, OthersOK
<1> QED
  BY <1>4, <1>5

LEMMA RequestOK ==
    ASSUME TypeOK, JobInv, ServiceInv, NEW j \in Job,
           Request(j) \/ DeadlinePasses(j)
    PROVE  ServiceInv'
<1>0. row[j] \in Row /\ At(j, row[j], pc[j], run[j]) /\ answer[j] \in Answer
  BY DEF TypeOK, ServiceInv, RunnerOK
<1>1. ASSUME NEW campaign \in BOOLEAN, NEW included \in (SUBSET Stage) \ {{}},
             CreatePipelineJob(j, campaign, included)
      PROVE  ServiceInv'
  BY <1>1, NewJobAt, RequestRowOK DEF CreatePipelineJob
<1>2. CASE CancelJob(j)
  BY <1>2, CancelledAt, RequestRowOK DEF CancelJob
<1>3. ASSUME NEW retried \in Job, RetryJob(j, retried)
      PROVE  ServiceInv'
  <2>1. row[j].campaign => \A s \in RetryStages(row[j]) : s \in Stage => CollectStage <= s
    BY StageAssumption DEF RetryStages, Stage
  <2> QED
    BY <1>3, <2>1, NewJobAt, RequestRowOK DEF RetryJob
<1>4. ASSUME NEW option \in Option, ReadDecision(j, option)
      PROVE  ServiceInv'
  <2> DEFINE c == row[j].ckpt
             late == AutoTimeout(c.kind) /\ j \in due
             an == [id |-> c.id,
                    option |-> IF late THEN c.default ELSE option,
                    source |-> IF late THEN "timeout" ELSE "human"]
  <2>1. /\ row' = row /\ pc' = pc /\ run' = run /\ up' = up /\ lease' = lease
        /\ browser' = browser /\ due' = due /\ answer'[j] = an
        /\ \A k \in Job \ {j} : answer'[k] = answer[k]
        /\ c.status = "pending" /\ option \in c.options
    BY <1>4 DEF ReadDecision, TypeOK, KeepDb, KeepProcess, runnerVars
  <2>2. /\ an.id = c.id /\ c.id \in Nat
        /\ an.option \in c.options
        /\ an.source = "timeout" => j \in due /\ an.option = c.default
    BY <1>0, <2>1 DEF At, QuestionOK, Row, Checkpoint
  <2> HIDE DEF an
  <2>3. QuestionOK(c, pc[j], run[j], j \in due, an)
    BY <1>0, <2>2 DEF At, QuestionOK
  <2>4. RunnerOK(j)'
    BY <1>0, <2>1, <2>3 DEF RunnerOK, At
  <2> QED
    BY <2>1, <2>4, OthersOK
<1>5. CASE DeadlinePasses(j)
  <2>1. /\ row' = row /\ pc' = pc /\ run' = run /\ up' = up /\ lease' = lease
        /\ browser' = browser /\ answer' = answer /\ due' = due \cup {j}
    BY <1>5 DEF DeadlinePasses, KeepProcess, runnerVars
  <2>2. QuestionOK(row[j].ckpt, pc[j], run[j], (j \in due)', answer[j])
    BY <1>0, <2>1 DEF At, QuestionOK
  <2>3. RunnerOK(j)'
    BY <1>0, <2>1, <2>2 DEF RunnerOK, At
  <2> QED
    BY <2>1, <2>3, OthersOK
<1> QED
  BY <1>1, <1>2, <1>3, <1>4, <1>5, CommitOK DEF Request

\* A row no runner works for.
LEMMA IdleOK ==
    ASSUME TypeOK, ServiceInv, NEW j \in Job
    PROVE  /\ StatusAt(row[j], "idle", "down") /\ StagesAt(row[j], "idle", 0)
           /\ LocalsAt(row[j], "idle", InitLocals)
           /\ QuestionOK(row[j].ckpt, "idle", InitLocals, j \in due, NoAnswer)
           /\ HoldsAt(row[j], "idle", NoAccount, NoAccount)
<1> DEFINE r == row[j]
<1> USE DEF At, StatusAt, StagesAt, LocalsAt, QuestionOK, HoldsAt, AlivePC,
   NoLivePC, InStagePC, WaitPC, ReviewPC, HeldPC, OpenPC
<1>0. At(j, r, pc[j], run[j]) /\ r \in Row
  BY DEF TypeOK, ServiceInv, RunnerOK
<1>1. StatusAt(r, "idle", "down") /\ StagesAt(r, "idle", 0)
  BY <1>0
<1>2. LocalsAt(r, "idle", InitLocals)
  OBVIOUS
<1>3. QuestionOK(r.ckpt, "idle", InitLocals, j \in due, NoAnswer)
  <2>1. r.ckpt.id \in Nat
    BY <1>0 DEF Row, Checkpoint
  <2> QED
    BY <1>0, <2>1 DEF NoAnswer
<1>4. HoldsAt(r, "idle", NoAccount, NoAccount)
  OBVIOUS
<1> QED
  BY <1>1, <1>2, <1>3, <1>4

LEMMA LoseMemoryOK ==
    ASSUME TypeOK, ServiceInv, LoseMemory, UNCHANGED dbVars, up' = "down"
    PROVE  ServiceInv'
<1>1. ASSUME NEW j \in Job
      PROVE  RunnerOK(j)'
  <2>1. /\ row' = row /\ due' = due /\ pc'[j] = "idle" /\ run'[j] = InitLocals
        /\ lease'[j] = NoAccount /\ browser'[j] = NoAccount
        /\ answer'[j] = NoAnswer
    BY DEF LoseMemory, dbVars
  <2>4. /\ StatusAt(row[j], "idle", "down") /\ StagesAt(row[j], "idle", 0)
        /\ LocalsAt(row[j], "idle", InitLocals)
        /\ QuestionOK(row[j].ckpt, "idle", InitLocals, j \in due, NoAnswer)
        /\ HoldsAt(row[j], "idle", NoAccount, NoAccount)
    BY IdleOK
  <2>5. InitLocals.stage = 0
    BY DEF InitLocals
  <2> QED
    BY <2>1, <2>4, <2>5 DEF RunnerOK, At
<1> QED
  BY <1>1 DEF ServiceInv

LEMMA ProcessStepOK ==
    ASSUME TypeOK, JobInv, ServiceInv, Shutdown \/ Exit \/ Crash \/ Restart
    PROVE  ServiceInv'
<1>1. CASE Shutdown
  <2>1. up = "up" /\ up' = "stopping" /\ UNCHANGED <<row, due, pc, run, lease, browser, answer>>
    BY <1>1 DEF Shutdown, dbVars, runnerVars
  <2>2. ASSUME NEW j \in Job
        PROVE  RunnerOK(j)'
    <3>1. At(j, row[j], pc[j], run[j])
      BY DEF ServiceInv, RunnerOK
    <3>2. StatusAt(row[j], pc[j], "stopping")
      BY <2>1, <3>1 DEF At, StatusAt
    <3> QED
      BY <2>1, <3>1, <3>2 DEF RunnerOK, At
  <2> QED
    BY <2>2 DEF ServiceInv
<1>2. CASE Exit
  BY <1>2, LoseMemoryOK DEF Exit
<1>3. CASE Crash
  BY <1>3, LoseMemoryOK DEF Crash
<1>4. CASE Restart
  <2>1. /\ up = "down" /\ up' = "up" /\ UNCHANGED <<due, pc, run, lease, browser, answer>>
        /\ \A j \in Job : row'[j] = RecoverInterrupted(row[j])
    BY <1>4 DEF Restart, runnerVars
  <2>2. ASSUME NEW j \in Job
        PROVE  RunnerOK(j)'
    <3> DEFINE r == row[j]
               n == RecoverInterrupted(r)
    <3>1. r \in Row /\ At(j, r, pc[j], run[j]) /\ pc[j] = "idle"
      BY <2>1 DEF TypeOK, ServiceInv, RunnerOK, At, StatusAt
    <3>2. /\ Settles(r, n) /\ n.account = r.account
          /\ n.status = IF r.status \in ActiveJobStatus THEN "interrupted"
                                                        ELSE r.status
          /\ r.status \notin ActiveJobStatus => n = r
          /\ n.ckpt \in {r.ckpt, Withdrawn(r.ckpt)}
      BY <3>1, RecoverSettles
    <3>3. StagesOK(n) /\ n.campaign = r.campaign
      BY <3>1, <3>2, SettlesKeeps DEF At, StagesAt, StagesOK, Settles
    <3>4. /\ SameQuestion(r.ckpt, n.ckpt) /\ n.ckpt.resolution = r.ckpt.resolution
          /\ n.ckpt.status \in {r.ckpt.status, "cancelled"}
          /\ n.ckpt.status = "none" <=> r.ckpt.status = "none"
      BY <3>1, <3>2 DEF Withdrawn, SameQuestion, Row, Checkpoint
    <3> HIDE DEF n
    <3> USE DEF AlivePC, NoLivePC, InStagePC, WaitPC, ReviewPC, HeldPC, OpenPC
    <3>5. StatusAt(n, "idle", "up")
      BY <3>1, <3>2 DEF At, StatusAt, ActiveJobStatus
    <3>6. StagesAt(n, "idle", run[j].stage)
      BY <3>1, <3>2, <3>3 DEF At, StagesAt, StagesOK
    <3>7. LocalsAt(n, "idle", run[j])
      BY <3>1 DEF At, LocalsAt
    <3>8. QuestionOK(n.ckpt, "idle", run[j], j \in due, answer[j])
      BY <3>1, <3>4 DEF At, QuestionOK, SameQuestion, Answered
    <3>9. HoldsAt(n, "idle", lease[j], browser[j])
      BY <3>1, <3>2 DEF At, HoldsAt
    <3>10. row'[j] = n
      BY <2>1 DEF n
    <3> QED
      BY <2>1, <3>1, <3>5, <3>6, <3>7, <3>8, <3>9, <3>10 DEF RunnerOK, At
  <2> QED
    BY <2>2 DEF ServiceInv
<1> QED
  BY <1>1, <1>2, <1>3, <1>4

LEMMA ServiceStep ==
    ASSUME TypeOK, JobInv, ServiceInv, DispatchUp, [Next]_vars
    PROVE  ServiceInv'
<1>1. ASSUME NEW j \in Job, RunnerStep(j)
      PROVE  ServiceInv'
  BY <1>1, StageStepOK, DecisionStepOK, ResourceStepOK DEF RunnerStep
<1>2. ASSUME NEW a \in Account, RetryQuarantinedRelease(a)
      PROVE  ServiceInv'
  BY <1>2, QuietOK DEF RetryQuarantinedRelease, KeepDb, KeepOthers
<1>3. CASE UNCHANGED vars
  BY <1>3, QuietOK DEF vars, dbVars, runnerVars
<1> QED
  BY <1>1, <1>2, <1>3, FaultStepOK, DispatcherStepOK, RequestOK,
     ProcessStepOK DEF Next

LEMMA ServiceInit ==
    ASSUME Init
    PROVE  ServiceInv
<1>1. ASSUME NEW j \in Job
      PROVE  RunnerOK(j)
  <2>1. /\ row[j] = NoRow /\ pc[j] = "idle" /\ run[j] = InitLocals
        /\ lease[j] = NoAccount /\ browser[j] = NoAccount
        /\ answer[j] = NoAnswer /\ up = "up"
    BY DEF Init
  <2>2. /\ NoRow.status = "absent" /\ NoRow.account = NoAccount /\ NoRow.campaign = FALSE
        /\ NoRow.ckpt = NoCheckpoint /\ \A t \in Stage : NoRow.stages[t] = "none"
    BY DEF NoRow
  <2> USE DEF AlivePC, NoLivePC, InStagePC, WaitPC, ReviewPC, HeldPC, OpenPC
  <2>3. StatusAt(NoRow, "idle", "up")
    BY <2>2 DEF StatusAt, ActiveJobStatus
  <2>4. StagesAt(NoRow, "idle", InitLocals.stage)
    BY <2>2 DEF StagesAt, InOrder, LiveStageStatus
  <2>5. LocalsAt(NoRow, "idle", InitLocals)
    BY DEF LocalsAt
  <2>6. QuestionOK(NoCheckpoint, "idle", InitLocals, j \in due, NoAnswer)
    BY DEF QuestionOK, NoCheckpoint, NoAnswer, Answered
  <2>7. HoldsAt(NoRow, "idle", NoAccount, NoAccount)
    BY DEF HoldsAt
  <2> QED
    BY <2>1, <2>2, <2>3, <2>4, <2>5, <2>6, <2>7 DEF RunnerOK, At
<1> QED
  BY <1>1 DEF ServiceInv

-----------------------------------------------------------------------------
(* The books of the concurrency manager                                    *)

\* A platform's counter counts the accounts of it that are in use.
SlotsOK(active, count) ==
    \A p \in Platform :
        /\ count[p] = Cardinality(active \cap AccountsOf(p))
        /\ count[p] <= Limit[p]

\* Who holds what: every account in use is held by one runner, or by the
\* dispatcher on its way to one.
LeasesOK ==
    /\ \A j \in Job : lease[j] # NoAccount => lease[j] \in activeAccounts
    /\ \A a \in activeAccounts :
          \/ \E j \in Job : lease[j] = a
          \/ disp.pc = "leased" /\ disp.account = a
    /\ disp.pc = "leased" =>
          /\ disp.account \in activeAccounts
          /\ \A j \in Job : lease[j] # disp.account
    /\ \A i, j \in Job : lease[i] = lease[j] /\ i # j => lease[i] = NoAccount
    /\ quarantinedAccounts = stuck /\ stuck \cap activeAccounts = {}

\* The manager's sets and counters agree with the leases, and the dispatcher
\* only holds one while the service is up.
BooksInv ==
    LeasesOK /\ SlotsOK(activeAccounts, activeByPlatform) /\ DispatchUp

LEMMA AcquireSlots ==
    ASSUME ManagerTypeOK, NEW a \in Account, Acquire(a),
           SlotsOK(activeAccounts, activeByPlatform)
    PROVE  SlotsOK(activeAccounts, activeByPlatform)'
<1> DEFINE In(p) == activeAccounts \cap AccountsOf(p)
<1>1. ASSUME NEW p \in Platform
      PROVE  /\ activeByPlatform'[p] = Cardinality(activeAccounts' \cap AccountsOf(p))
             /\ activeByPlatform'[p] <= Limit[p]
  <2>1. IsFiniteSet(In(p))
    BY AccountAssumption, FS_Subset DEF ManagerTypeOK
  <2>2. CASE p = PlatformOf[a]
    <3>1. activeAccounts' \cap AccountsOf(p) = In(p) \cup {a} /\ a \notin In(p)
      BY <2>2 DEF Acquire, CanAcquire, AccountsOf
    <3>2. Cardinality(In(p) \cup {a}) = Cardinality(In(p)) + 1
      BY <2>1, <3>1, FS_AddElement
    <3>3. activeByPlatform'[p] = activeByPlatform[p] + 1
      BY <2>2, AccountAssumption DEF Acquire, ManagerTypeOK
    <3>4. activeByPlatform[p] < Limit[p] /\ Limit[p] \in Nat /\ activeByPlatform[p] \in Int
      BY <2>2, AccountAssumption DEF Acquire, CanAcquire, ManagerTypeOK
    <3> QED
      BY <3>1, <3>2, <3>3, <3>4 DEF SlotsOK
  <2>3. CASE p # PlatformOf[a]
    <3>1. activeAccounts' \cap AccountsOf(p) = In(p)
      BY <2>3 DEF Acquire, AccountsOf
    <3>2. activeByPlatform'[p] = activeByPlatform[p]
      BY <2>3, AccountAssumption DEF Acquire, ManagerTypeOK
    <3> QED
      BY <3>1, <3>2 DEF SlotsOK
  <2> QED
    BY <2>2, <2>3
<1>2. \A p : AccountsOf(p)' = AccountsOf(p)
  BY DEF AccountsOf
<1> QED
  BY <1>1 DEF SlotsOK

LEMMA DeactivateSlots ==
    ASSUME ManagerTypeOK, NEW a \in Account, Deactivate(a),
           SlotsOK(activeAccounts, activeByPlatform)
    PROVE  SlotsOK(activeAccounts, activeByPlatform)'
<1> DEFINE In(p) == activeAccounts \cap AccountsOf(p)
<1>1. CASE a \notin activeAccounts
  <2>1. activeAccounts' = activeAccounts /\ activeByPlatform' = activeByPlatform
    BY <1>1 DEF Deactivate
  <2> QED
    BY <2>1 DEF SlotsOK
<1>2. ASSUME a \in activeAccounts, NEW p \in Platform
      PROVE  /\ activeByPlatform'[p] = Cardinality(activeAccounts' \cap AccountsOf(p))
             /\ activeByPlatform'[p] <= Limit[p]
  <2>1. IsFiniteSet(In(p))
    BY AccountAssumption, FS_Subset DEF ManagerTypeOK
  <2>2. CASE p = PlatformOf[a]
    <3>1. activeAccounts' \cap AccountsOf(p) = In(p) \ {a} /\ a \in In(p)
      BY <1>2, <2>2 DEF Deactivate, AccountsOf
    <3>2. Cardinality(In(p) \ {a}) = Cardinality(In(p)) - 1
      BY <2>1, <3>1, FS_RemoveElement
    <3>3. activeByPlatform'[p] = activeByPlatform[p] - 1
      BY <1>2, <2>2, AccountAssumption DEF Deactivate, ManagerTypeOK
    <3>4. activeByPlatform[p] <= Limit[p] /\ Limit[p] \in Nat /\ activeByPlatform[p] \in Int
      BY AccountAssumption DEF SlotsOK, ManagerTypeOK
    <3> QED
      BY <3>1, <3>2, <3>3, <3>4 DEF SlotsOK
  <2>3. CASE p # PlatformOf[a]
    <3>1. activeAccounts' \cap AccountsOf(p) = In(p)
      BY <2>3 DEF Deactivate, AccountsOf
    <3>2. activeByPlatform'[p] = activeByPlatform[p]
      BY <1>2, <2>3, AccountAssumption DEF Deactivate, ManagerTypeOK
    <3> QED
      BY <3>1, <3>2 DEF SlotsOK
  <2> QED
    BY <2>2, <2>3
<1> QED
  BY <1>1, <1>2 DEF SlotsOK

LEMMA BooksQuiet ==
    ASSUME BooksInv, UNCHANGED <<up, disp, lease, stuck, managerVars>>
    PROVE  BooksInv'
BY DEF BooksInv, LeasesOK, SlotsOK, DispatchUp, managerVars

\* A runner gives its account up: nobody holds it any more.
LEMMA LeaseFreed ==
    ASSUME TypeOK, LeasesOK, NEW j \in Job, NEW a \in Account, lease[j] = a,
           lease' = [lease EXCEPT ![j] = NoAccount], disp' = disp,
           activeAccounts' = activeAccounts \ {a},
           quarantinedAccounts' = stuck', stuck' \subseteq stuck \cup {a}
    PROVE  LeasesOK'
<1>1. lease'[j] = NoAccount /\ \A k \in Job \ {j} : lease'[k] = lease[k]
  BY DEF TypeOK
<1>2. a # NoAccount /\ a \in activeAccounts
  BY AccountAssumption DEF LeasesOK
<1>3. \A k \in Job : lease[k] = a => k = j
  BY <1>2 DEF LeasesOK
<1>4. \A k \in Job : lease'[k] # NoAccount => lease'[k] \in activeAccounts'
  BY <1>1, <1>3 DEF LeasesOK
<1>5. \A b \in activeAccounts' :
         \/ \E k \in Job : lease'[k] = b
         \/ disp'.pc = "leased" /\ disp'.account = b
  BY <1>1 DEF LeasesOK
<1>6. disp'.pc = "leased" =>
         /\ disp'.account \in activeAccounts'
         /\ \A k \in Job : lease'[k] # disp'.account
  BY <1>1, <1>2, AccountAssumption DEF LeasesOK, TypeOK, ManagerTypeOK
<1>7. \A i, k \in Job : lease'[i] = lease'[k] /\ i # k => lease'[i] = NoAccount
  BY <1>1 DEF LeasesOK
<1>8. quarantinedAccounts' = stuck' /\ stuck' \cap activeAccounts' = {}
  BY DEF LeasesOK
<1> QED
  BY <1>4, <1>5, <1>6, <1>7, <1>8 DEF LeasesOK

\* A runner gets an account that no other runner holds.
LEMMA LeaseTaken ==
    ASSUME TypeOK, LeasesOK, NEW j \in Job, NEW a \in Account,
           lease[j] = NoAccount, \A k \in Job : lease[k] # a,
           lease' = [lease EXCEPT ![j] = a],
           activeAccounts' = activeAccounts \cup {a}, a \notin stuck,
           quarantinedAccounts' = stuck, stuck' = stuck,
           disp'.pc = "leased" => disp' = disp /\ disp.account # a,
           disp.pc = "leased" => disp' = disp \/ disp.account = a
    PROVE  LeasesOK'
<1>1. lease'[j] = a /\ \A k \in Job \ {j} : lease'[k] = lease[k]
  BY DEF TypeOK
<1>4. \A k \in Job : lease'[k] # NoAccount => lease'[k] \in activeAccounts'
  BY <1>1 DEF LeasesOK
<1>5. \A b \in activeAccounts' :
         \/ \E k \in Job : lease'[k] = b
         \/ disp'.pc = "leased" /\ disp'.account = b
  <2>1. SUFFICES ASSUME NEW b \in activeAccounts, b # a
                 PROVE  \/ \E k \in Job : lease'[k] = b
                        \/ disp'.pc = "leased" /\ disp'.account = b
    BY <1>1
  <2>2. CASE \E k \in Job : lease[k] = b
    <3>1. PICK k \in Job : lease[k] = b
      BY <2>2
    <3>2. k # j
      BY <3>1, AccountAssumption DEF TypeOK, ManagerTypeOK
    <3> QED
      BY <3>1, <3>2, <1>1
  <2>3. CASE disp.pc = "leased" /\ disp.account = b
    BY <2>1, <2>3
  <2> QED
    BY <2>2, <2>3 DEF LeasesOK
<1>6. disp'.pc = "leased" =>
         /\ disp'.account \in activeAccounts'
         /\ \A k \in Job : lease'[k] # disp'.account
  BY <1>1 DEF LeasesOK
<1>7. \A i, k \in Job : lease'[i] = lease'[k] /\ i # k => lease'[i] = NoAccount
  BY <1>1 DEF LeasesOK
<1>8. quarantinedAccounts' = stuck' /\ stuck' \cap activeAccounts' = {}
  BY DEF LeasesOK
<1> QED
  BY <1>4, <1>5, <1>6, <1>7, <1>8 DEF LeasesOK

\* release(): what the runner holds is held no more.
LEMMA FreeBooks ==
    ASSUME TypeOK, BooksInv, NEW j \in Job, FreeResources(j), KeepOthers
    PROVE  BooksInv'
<1>1. CASE lease[j] = NoAccount
  <2>1. lease' = lease /\ stuck' = stuck /\ UNCHANGED managerVars
    BY <1>1 DEF FreeResources, TypeOK
  <2> QED
    BY <2>1, BooksQuiet DEF KeepOthers
<1>2. CASE lease[j] # NoAccount
  <2> DEFINE a == lease[j]
  <2>1. /\ a \in Account /\ ManagerTypeOK /\ a \in activeAccounts
        /\ activeAccounts' = activeAccounts \ {a}
        /\ quarantinedAccounts' = quarantinedAccounts \ {a}
        /\ lease' = [lease EXCEPT ![j] = NoAccount] /\ stuck' = stuck
        /\ disp' = disp /\ up' = up /\ Deactivate(a)
    BY <1>2 DEF FreeResources, ReleaseAccount, Deactivate, TypeOK, KeepOthers,
       BooksInv, LeasesOK
  <2>2. SlotsOK(activeAccounts, activeByPlatform)'
    BY <2>1, DeactivateSlots DEF BooksInv
  <2>3. LeasesOK'
    <3>1. lease[j] = a /\ quarantinedAccounts' = stuck'
      BY <2>1 DEF BooksInv, LeasesOK
    <3> HIDE DEF a
    <3> QED
      BY <2>1, <3>1, LeaseFreed DEF BooksInv
  <2> QED
    BY <2>1, <2>2, <2>3 DEF BooksInv, DispatchUp
<1> QED
  BY <1>1, <1>2

\* A session that was not confirmed closed takes its account with it.
LEMMA QuarantineBooks ==
    ASSUME TypeOK, BooksInv, NEW j \in Job, ReleaseUnconfirmed(j)
    PROVE  BooksInv'
<1> DEFINE a == lease[j]
<1>1. /\ a \in Account /\ ManagerTypeOK /\ a \in activeAccounts /\ a # NoAccount
      /\ a \notin quarantinedAccounts
      /\ activeAccounts' = activeAccounts \ {a}
      /\ quarantinedAccounts' = quarantinedAccounts \cup {a}
      /\ lease' = [lease EXCEPT ![j] = NoAccount] /\ stuck' = stuck \cup {a}
      /\ disp' = disp /\ up' = up /\ Deactivate(a)
  BY DEF ReleaseUnconfirmed, QuarantineAccount, Deactivate, TypeOK, KeepOthers,
     BooksInv, LeasesOK
<1>2. SlotsOK(activeAccounts, activeByPlatform)'
  BY <1>1, DeactivateSlots DEF BooksInv
<1>3. LeasesOK'
  <2>1. lease[j] = a /\ quarantinedAccounts' = stuck'
    BY <1>1 DEF BooksInv, LeasesOK
  <2> HIDE DEF a
  <2> QED
    BY <1>1, <2>1, LeaseFreed DEF BooksInv
<1> QED
  BY <1>1, <1>2, <1>3 DEF BooksInv, DispatchUp

\* The runner takes its account back after a manual review.
LEMMA ReacquireBooks ==
    ASSUME TypeOK, JobInv, ServiceInv, BooksInv, NEW j \in Job,
           ReacquireLease(j)
    PROVE  BooksInv'
<1>1. CASE IsCancelling(j)
  BY <1>1, BooksQuiet DEF ReacquireLease, JustGoto, KeepResources, KeepOthers
<1>2. CASE ~IsCancelling(j)
  <2> DEFINE a == row[j].account
  <2>1. /\ a \in Account /\ ManagerTypeOK /\ Acquire(a)
        /\ a \notin activeAccounts /\ a \notin quarantinedAccounts
        /\ activeAccounts' = activeAccounts \cup {a}
        /\ quarantinedAccounts' = quarantinedAccounts
        /\ lease' = [lease EXCEPT ![j] = a] /\ stuck' = stuck
        /\ disp' = disp /\ up' = up
    BY <1>2 DEF ReacquireLease, Acquire, CanAcquire, TypeOK, KeepOthers,
       JobInv, JobOK, RunnerAt
  <2>2. lease[j] = NoAccount
    BY <2>1 DEF ServiceInv, RunnerOK, At, HoldsAt, BooksInv, LeasesOK
  <2>3. SlotsOK(activeAccounts, activeByPlatform)'
    BY <2>1, AcquireSlots DEF BooksInv
  <2>4. LeasesOK'
    <3>1. /\ quarantinedAccounts' = stuck /\ a \notin stuck
          /\ a # NoAccount
          /\ disp'.pc = "leased" => disp.account # a
      BY <2>1, AccountAssumption DEF BooksInv, LeasesOK
    <3> HIDE DEF a
    <3>2. \A k \in Job : lease[k] # a
      BY <2>1, <3>1 DEF BooksInv, LeasesOK
    <3> QED
      BY <2>1, <2>2, <3>1, <3>2, LeaseTaken DEF BooksInv
  <2> QED
    BY <2>1, <2>3, <2>4 DEF BooksInv, DispatchUp
<1> QED
  BY <1>1, <1>2

LEMMA RunnerBooks ==
    ASSUME TypeOK, JobInv, ServiceInv, BooksInv, NEW j \in Job,
           RunnerStep(j) \/ RunnerFault(j)
    PROVE  BooksInv'
<1>1. CASE UNCHANGED <<up, disp, lease, stuck, managerVars>>
  BY <1>1, BooksQuiet
<1>2. CASE FreeResources(j) /\ KeepOthers
  BY <1>2, FreeBooks
<1>3. CASE ReacquireLease(j)
  BY <1>3, ReacquireBooks
<1>4. CASE ReleaseUnconfirmed(j)
  BY <1>4, QuarantineBooks
<1> USE DEF JustGoto, Write, WriteIf, KeepResources, KeepOthers
<1>5. CASE \/ Load(j) \/ NextStage(j) \/ NoStageLeft(j) \/ BeginStage(j)
           \/ CheckCancelled(j) \/ StageSucceeds(j) \/ NothingToAsk(j)
           \/ Finish(j) \/ SkipRest(j) \/ CheckFinished(j)
           \/ CloseFinished(j) \/ CheckFinal(j)
  BY <1>1, <1>5 DEF Load, NextStage, NoStageLeft, BeginStage, CheckCancelled,
     StageSucceeds, NothingToAsk, Finish, SkipRest, CheckFinished,
     CloseFinished, CheckFinal
<1>6. CASE \/ AskBefore(j) \/ AskAfter(j) \/ AskFailure(j) \/ AskReview(j)
           \/ PollDecision(j) \/ Expire(j) \/ ActOnAnswer(j)
           \/ RetryStage(j) \/ StopJob(j) \/ SkipOutreach(j)
           \/ CancelSelf(j) \/ CancelStage(j)
  BY <1>1, <1>6 DEF AskBefore, AskAfter, AskFailure, AskReview, Ask,
     PollDecision, TakeResolution, Expire, ActOnAnswer, RetryStage, StopJob,
     SkipOutreach, CancelSelf, CancelStage
<1>7. CASE \/ OpenBrowser(j) \/ ReleaseForReview(j) \/ Reacquire(j)
           \/ CheckReacquired(j) \/ ReopenBrowser(j)
           \/ ResumeAfterReview(j) \/ EndCancelled(j) \/ EndInError(j)
           \/ Release(j) \/ Killed(j)
  BY <1>1, <1>2, <1>7 DEF OpenBrowser, ReleaseForReview, Reacquire,
     CheckReacquired, ReopenBrowser, ResumeAfterReview, EndCancelled,
     EndInError, Release, Killed
<1>8. CASE RunnerFault(j)
  BY <1>1, <1>2, <1>4, <1>8 DEF RunnerFault, OpenBrowserFails, StageRaises,
     StageFails, ApprovalFails, WaiterFails, ReleaseForReviewFails,
     ReacquireFails, ReopenBrowserFails
<1> QED
  BY <1>3, <1>5, <1>6, <1>7, <1>8 DEF RunnerStep

LEMMA DispatcherBooks ==
    ASSUME TypeOK, JobInv, ServiceInv, BooksInv, DispatcherStep
    PROVE  BooksInv'
<1> USE DEF KeepRunners, KeepApi
<1>1. ASSUME UNCHANGED <<up, lease, stuck, managerVars>>, disp'.pc # "leased",
             disp.pc # "leased", up = "up"
      PROVE  BooksInv'
  BY <1>1 DEF BooksInv, LeasesOK, SlotsOK, DispatchUp, managerVars
<1>2. CASE Poll
  BY <1>1, <1>2 DEF Poll, TypeOK, Dispatch
<1>3. CASE EndScan
  BY <1>1, <1>3 DEF EndScan, InitDispatch, BooksInv, DispatchUp
<1>4. CASE AccountUnavailable
  BY <1>1, <1>4 DEF AccountUnavailable, BooksInv, DispatchUp, TypeOK, Dispatch
<1>5. ASSUME NEW j \in Job, NEW a \in Account, Consider(j, a)
      PROVE  BooksInv'
  BY <1>1, <1>5 DEF Consider, BooksInv, DispatchUp, TypeOK, Dispatch
<1>6. CASE LeaseAccount
  <2>0. PICK a \in Account : a = disp.account
    BY <1>6 DEF LeaseAccount, JobInv, DispatchOK
  <2>1. CASE ~CanAcquire(a)
    BY <1>1, <1>6, <2>0, <2>1 DEF LeaseAccount, BooksInv, DispatchUp, TypeOK,
       Dispatch
  <2>2. CASE CanAcquire(a)
    <3>1. /\ Acquire(a) /\ ManagerTypeOK
          /\ a \notin activeAccounts /\ a \notin quarantinedAccounts
          /\ activeAccounts' = activeAccounts \cup {a}
          /\ quarantinedAccounts' = quarantinedAccounts
          /\ lease' = lease /\ stuck' = stuck /\ up' = up
          /\ disp'.pc = "leased" /\ disp'.account = a /\ disp.pc = "preflight"
      BY <1>6, <2>0, <2>2 DEF LeaseAccount, Acquire, CanAcquire, TypeOK,
         Dispatch
    <3>2. SlotsOK(activeAccounts, activeByPlatform)'
      BY <3>1, AcquireSlots DEF BooksInv
    <3>3. LeasesOK'
      BY <3>1, AccountAssumption DEF BooksInv, LeasesOK
    <3> QED
      BY <3>1, <3>2, <3>3 DEF BooksInv, DispatchUp
  <2> QED
    BY <2>1, <2>2
<1>7. CASE Claim
  <2>0. PICK j \in Job, a \in Account : j = disp.job /\ a = disp.account
    BY <1>7 DEF Claim, JobInv, DispatchOK
  <2>1. /\ disp.pc = "leased" /\ a \in activeAccounts /\ ManagerTypeOK
        /\ up = "up" /\ up' = up /\ stuck' = stuck
    BY <1>7, <2>0 DEF Claim, BooksInv, LeasesOK, TypeOK, DispatchUp
  <2>2. CASE CanClaim(row[j])
    <3>1. lease[j] = NoAccount
      BY <2>2 DEF ServiceInv, RunnerOK, At, StatusAt, HoldsAt, CanClaim
    <3>2. /\ lease' = [lease EXCEPT ![j] = a] /\ disp'.pc = "idle"
          /\ UNCHANGED managerVars
      BY <1>7, <2>0, <2>2 DEF Claim, InitDispatch
    <3>3. LeasesOK'
      <4>1. /\ quarantinedAccounts' = stuck /\ a \notin stuck
            /\ activeAccounts' = activeAccounts \cup {a}
            /\ \A k \in Job : lease[k] # a
        BY <2>0, <2>1, <3>2 DEF BooksInv, LeasesOK, managerVars
      <4> QED
        BY <2>0, <2>1, <3>1, <3>2, <4>1, LeaseTaken DEF BooksInv
    <3> QED
      BY <2>1, <3>2, <3>3 DEF BooksInv, SlotsOK, DispatchUp, managerVars
  <2>3. CASE ~CanClaim(row[j])
    <3>1. /\ lease' = lease /\ disp'.pc = "scan" /\ Deactivate(a)
          /\ activeAccounts' = activeAccounts \ {a}
          /\ quarantinedAccounts' = quarantinedAccounts \ {a}
      BY <1>7, <2>0, <2>3 DEF Claim, TypeOK, Dispatch, ReleaseAccount,
         Deactivate
    <3>2. LeasesOK'
      BY <2>0, <2>1, <3>1 DEF BooksInv, LeasesOK
    <3>3. SlotsOK(activeAccounts, activeByPlatform)'
      BY <2>1, <3>1, DeactivateSlots DEF BooksInv
    <3> QED
      BY <2>1, <3>1, <3>2, <3>3 DEF BooksInv, DispatchUp
  <2> QED
    BY <2>2, <2>3
<1> QED
  BY <1>2, <1>3, <1>4, <1>5, <1>6, <1>7 DEF DispatcherStep

\* Nothing is held by a process that has just begun.
LEMMA FreshBooks ==
    ASSUME \A j \in Job : lease'[j] = NoAccount, stuck' = {},
           disp' = InitDispatch, activeAccounts' = {},
           activeByPlatform' = [p \in Platform |-> 0],
           quarantinedAccounts' = {}
    PROVE  BooksInv'
<1>1. SlotsOK(activeAccounts, activeByPlatform)'
  <2>1. ASSUME NEW p \in Platform
        PROVE  /\ activeByPlatform'[p] = Cardinality(activeAccounts' \cap AccountsOf(p))
               /\ activeByPlatform'[p] <= Limit[p]
    <3>1. activeAccounts' \cap AccountsOf(p) = {}
      OBVIOUS
    <3> QED
      BY <3>1, FS_EmptySet, AccountAssumption
  <2> QED
    BY <2>1 DEF SlotsOK
<1>2. LeasesOK' /\ DispatchUp'
  BY DEF LeasesOK, DispatchUp, InitDispatch
<1> QED
  BY <1>1, <1>2 DEF BooksInv

LEMMA BooksStep ==
    ASSUME TypeOK, JobInv, ServiceInv, BooksInv, [Next]_vars
    PROVE  BooksInv'
<1>1. ASSUME NEW j \in Job, Request(j) \/ DeadlinePasses(j)
      PROVE  BooksInv'
  BY <1>1, BooksQuiet DEF Request, CreatePipelineJob, CancelJob, RetryJob,
     ReadDecision, CommitDecision, DeadlinePasses, KeepProcess, runnerVars
<1>2. ASSUME NEW a \in Account, RetryQuarantinedRelease(a)
      PROVE  BooksInv'
  <2>1. /\ a \in stuck /\ a \notin activeAccounts /\ ManagerTypeOK
        /\ activeAccounts' = activeAccounts /\ activeByPlatform' = activeByPlatform
        /\ quarantinedAccounts' = quarantinedAccounts \ {a}
        /\ stuck' = stuck \ {a} /\ UNCHANGED <<up, disp, lease>>
    BY <1>2 DEF RetryQuarantinedRelease, ReleaseAccount, Deactivate, BooksInv,
       LeasesOK, TypeOK, KeepOthers
  <2> QED
    BY <2>1 DEF BooksInv, LeasesOK, SlotsOK, DispatchUp
<1>3. CASE Shutdown
  BY <1>3 DEF Shutdown, BooksInv, LeasesOK, SlotsOK, DispatchUp, runnerVars,
     managerVars
<1>4. CASE Exit \/ Crash
  BY <1>4, FreshBooks DEF Exit, Crash, LoseMemory
<1>5. CASE Restart
  BY <1>5 DEF Restart, BooksInv, LeasesOK, SlotsOK, DispatchUp, runnerVars,
     managerVars
<1>6. CASE UNCHANGED vars
  BY <1>6, BooksQuiet DEF vars, runnerVars, managerVars
<1> QED
  BY <1>1, <1>2, <1>3, <1>4, <1>5, <1>6, RunnerBooks, DispatcherBooks DEF Next

LEMMA BooksInit ==
    ASSUME Init
    PROVE  BooksInv
<1>1. SlotsOK(activeAccounts, activeByPlatform)
  <2>1. ASSUME NEW p \in Platform
        PROVE  /\ activeByPlatform[p] = Cardinality(activeAccounts \cap AccountsOf(p))
               /\ activeByPlatform[p] <= Limit[p]
    <3>1. activeAccounts \cap AccountsOf(p) = {} /\ activeByPlatform[p] = 0
      BY DEF Init, ManagerInit
    <3> QED
      BY <3>1, FS_EmptySet, AccountAssumption
  <2> QED
    BY <2>1 DEF SlotsOK
<1>2. LeasesOK /\ DispatchUp
  BY DEF LeasesOK, DispatchUp, InitDispatch, Init, ManagerInit
<1> QED
  BY <1>1, <1>2 DEF BooksInv

-----------------------------------------------------------------------------

LEMMA Service == Spec => [](TypeOK /\ JobInv /\ ServiceInv /\ BooksInv)
<1>1. Init => TypeOK /\ JobInv /\ ServiceInv /\ BooksInv
  BY InitInv, ServiceInit, BooksInit
<1>2. TypeOK /\ JobInv /\ ServiceInv /\ BooksInv /\ [Next]_vars
        => (TypeOK /\ JobInv /\ ServiceInv /\ BooksInv)'
  BY TypeStep, JobInvStep, ServiceStep, BooksStep DEF BooksInv
<1> QED
  BY <1>1, <1>2, PTL DEF Spec

\* While the service is up, every job that is being worked for has a runner:
\* run_job ends the job's row on every path before it gives the job up.
THEOREM NoJobIsOrphaned == Spec => []NoOrphan
<1>1. ServiceInv => NoOrphan
  BY DEF ServiceInv, RunnerOK, At, StatusAt, NoOrphan
<1> QED
  BY <1>1, Service, PTL

\* Stage handlers run inside a job and stage that say so, with the browser of
\* the job's account open: also when the runner gave both back for a manual
\* review and came back by any path of _reacquire_after_manual_review.
THEOREM WorkHasItsBrowser == Spec => []WorkOwnsBrowser
<1>1. JobInv /\ ServiceInv => WorkOwnsBrowser
  BY AccountAssumption DEF JobInv, JobOK, RunnerAt, ServiceInv, RunnerOK, At,
     StatusAt, StagesAt, HoldsAt, WorkOwnsBrowser, AlivePC, NoLivePC,
     InStagePC, WaitPC, ReviewPC, HeldPC, OpenPC
<1> QED
  BY <1>1, Service, PTL

\* The runner acts on the answer that DecisionGate.resolve_once recorded, which
\* is one the question offered, and an expiry only ever records the default.
THEOREM AnswersAreObeyed == Spec => []AnswerObeyed
<1>1. ServiceInv => AnswerObeyed
  BY DEF ServiceInv, RunnerOK, At, QuestionOK, Answered, AnswerObeyed
<1> QED
  BY <1>1, Service, PTL

\* The concurrency manager's books agree with the leases of the runners and of
\* the dispatcher, within the limit of every platform, and an account whose
\* browser was not confirmed closed stays out of use.
THEOREM LeasesAreAccounted == Spec => []LeaseAccounting
<1>1. TypeOK /\ JobInv /\ BooksInv => LeaseAccounting
  <2> SUFFICES ASSUME TypeOK, JobInv, BooksInv
               PROVE  LeaseAccounting
    OBVIOUS
  <2> DEFINE held == {lease[j] : j \in Job} \ {NoAccount}
             pending == IF disp.pc = "leased" THEN {disp.account} ELSE {}
  <2>1. activeAccounts = held \cup pending
    BY AccountAssumption DEF BooksInv, LeasesOK, TypeOK, ManagerTypeOK
  <2>2. held \cap pending = {}
    BY DEF BooksInv, LeasesOK
  <2>3. \A p \in Platform :
              /\ activeByPlatform[p] = Cardinality(activeAccounts \cap AccountsOf(p))
              /\ activeByPlatform[p] <= Limit[p]
    BY DEF BooksInv, SlotsOK
  <2>4. /\ \A i, j \in Job : lease[i] = lease[j] /\ i # j => lease[i] = NoAccount
        /\ quarantinedAccounts = stuck /\ stuck \cap activeAccounts = {}
    BY DEF BooksInv, LeasesOK
  <2> QED
    BY <2>1, <2>2, <2>3, <2>4 DEF LeaseAccounting
<1> QED
  BY <1>1, Service, PTL

\* At most one browser session controls an account, open or not confirmed
\* closed, and its owner holds the account's lease.
THEOREM AccountsHaveOneBrowser == Spec => []OneBrowserPerAccount
<1>1. TypeOK /\ ServiceInv /\ BooksInv => OneBrowserPerAccount
  <2> SUFFICES ASSUME TypeOK, ServiceInv, BooksInv, NEW a \in Account
               PROVE  /\ Cardinality(Controllers(a)) <= 1
                      /\ \A j \in Job : browser[j] = a => lease[j] = a
    BY DEF OneBrowserPerAccount
  <2>1. \A j \in Job : browser[j] = a => lease[j] = a /\ a \in activeAccounts
    BY AccountAssumption DEF ServiceInv, RunnerOK, At, HoldsAt, BooksInv,
       LeasesOK
  <2>2. \A i, j \in Controllers(a) : i = j
    BY <2>1, AccountAssumption, JobAssumption DEF Controllers, BooksInv,
       LeasesOK
  <2>3. Controllers(a) = {} \/ \E x : Controllers(a) = {x}
    BY <2>2
  <2>4. Cardinality(Controllers(a)) <= 1
    BY <2>3, FS_EmptySet, FS_Singleton
  <2> QED
    BY <2>1, <2>4
<1> QED
  BY <1>1, Service, PTL
-----------------------------------------------------------------------------
(* Jobs that were stopped                                                  *)

\* A job that is being cancelled or has ended, and asks nothing.
Stopped(r) ==
    /\ r.status \in {"cancelling"} \cup TERMINAL_JOB_STATUSES
    /\ r.ckpt.status # "pending"

\* No stage began and no question changed.
Kept(r, n) == n.attempt = r.attempt /\ n.ckpt = r.ckpt

LEMMA StoppedRow ==
    ASSUME NEW r \in Row, Stopped(r)
    PROVE  /\ \A s : ~CanStartStage(r, s) /\ ~CanOpenDecision(r, s)
           /\ \A s : /\ ResumeWaiting(r, s) = r
                             /\ InterruptWaiting(r, s) = r
           /\ \A id, option, source : /\ ~CanResolveOnce(r, id)
                                      /\ ResolveOnce(r, id, option, source) = r
           /\ ~CanClose(r) /\ ~CanClaim(r) /\ RequestCancel(r) = r
           /\ Kept(r, RecoverInterrupted(r))
           /\ r.status # "cancelling" => RecoverInterrupted(r) = r
<1> USE DEF Stopped, TERMINAL_JOB_STATUSES
<1>1. CancelCheckpoint(r) = r
  BY DEF CancelCheckpoint
<1>2. \A s : ~CanResume(r, s)
  BY DEF CanResume
<1>3. \A s : /\ ResumeWaiting(r, s) = r
                             /\ InterruptWaiting(r, s) = r
  BY <1>1, <1>2 DEF ResumeWaiting, InterruptWaiting
<1>4. \A id, option, source : /\ ~CanResolveOnce(r, id)
                              /\ ResolveOnce(r, id, option, source) = r
  BY <1>2 DEF CanResolveOnce, ResolveOnce, CanResolveCheckpoint
<1>5. /\ ~CanClose(r) /\ ~CanClaim(r) /\ RequestCancel(r) = r
      /\ \A s : ~CanStartStage(r, s) /\ ~CanOpenDecision(r, s)
  BY DEF CanClose, CanClaim, RequestCancel, CanStartStage, CanOpenDecision,
     CanPause
<1>6. Kept(r, RecoverInterrupted(r)) /\ (r.status # "cancelling" => RecoverInterrupted(r) = r)
  <2>1. CASE r.status = "cancelling"
    <3> DEFINE m == Settle(r, LiveStageStatus, "failed")
    <3>1. m.ckpt = r.ckpt /\ m.attempt = r.attempt /\ m \in Row
      BY SettleType DEF Settle, Row, StageStatus, TERMINAL_STAGE_STATUSES
    <3>2. CancelCheckpoint(m) = m
      BY <3>1 DEF CancelCheckpoint
    <3>3. RecoverInterrupted(r) = [m EXCEPT !.status = "interrupted"]
      BY <2>1, <3>2 DEF RecoverInterrupted, ActiveJobStatus
    <3> HIDE DEF m
    <3> QED
      BY <2>1, <3>1, <3>3 DEF Kept, Row
  <2>2. CASE r.status # "cancelling"
    BY <2>2 DEF RecoverInterrupted, ActiveJobStatus, Kept
  <2> QED
    BY <2>1, <2>2
<1> QED
  BY <1>3, <1>4, <1>5, <1>6

\* A runner only writes to the rows of its own job.
LEMMA RunnerWritesOwn ==
    ASSUME TypeOK, NEW i \in Job, NEW j \in Job \ {i},
           RunnerStep(i) \/ RunnerFault(i)
    PROVE  row'[j] = row[j]
<1> USE DEF JustGoto, Write, WriteIf, SetRow, KeepDb, TypeOK
<1>1. CASE \/ Load(i) \/ NextStage(i) \/ NoStageLeft(i) \/ BeginStage(i)
           \/ CheckCancelled(i) \/ StageSucceeds(i) \/ NothingToAsk(i)
           \/ Finish(i) \/ SkipRest(i) \/ CheckFinished(i)
           \/ CloseFinished(i) \/ CheckFinal(i)
  BY <1>1 DEF Load, NextStage, NoStageLeft, BeginStage, CheckCancelled,
     StageSucceeds, NothingToAsk, Finish, SkipRest, CheckFinished,
     CloseFinished, CheckFinal
<1>2. CASE \/ AskBefore(i) \/ AskAfter(i) \/ AskFailure(i) \/ AskReview(i)
           \/ PollDecision(i) \/ Expire(i) \/ ActOnAnswer(i)
           \/ RetryStage(i) \/ StopJob(i) \/ SkipOutreach(i)
           \/ CancelSelf(i) \/ CancelStage(i)
  BY <1>2 DEF AskBefore, AskAfter, AskFailure, AskReview, Ask, PollDecision,
     TakeResolution, Expire, ActOnAnswer, RetryStage, StopJob, SkipOutreach,
     CancelSelf, CancelStage
<1>3. CASE \/ OpenBrowser(i) \/ ReleaseForReview(i) \/ Reacquire(i) \/ ReacquireLease(i)
           \/ CheckReacquired(i) \/ ReopenBrowser(i)
           \/ ResumeAfterReview(i) \/ EndCancelled(i) \/ EndInError(i)
           \/ Release(i) \/ Killed(i)
  BY <1>3 DEF OpenBrowser, ReleaseForReview, Reacquire, ReacquireLease,
     CheckReacquired, ReopenBrowser, ResumeAfterReview, EndCancelled,
     EndInError, Release, Killed
<1>4. CASE RunnerFault(i)
  BY <1>4 DEF RunnerFault, OpenBrowserFails, StageRaises, StageFails,
     ApprovalFails, WaiterFails, ReleaseForReviewFails, ReacquireFails,
     ReopenBrowserFails, ReleaseUnconfirmed
<1> QED
  BY <1>1, <1>2, <1>3, <1>4 DEF RunnerStep

LEMMA EndingsKeep ==
    ASSUME NEW r \in Row, NEW s, NEW to
    PROVE  /\ Kept(r, FinishStage(r, s, to)) /\ FinishStage(r, s, to).status = r.status
           /\ Kept(r, SkipPendingStages(r))
           /\ Kept(r, FinishCancellation(r))
           /\ Kept(r, FinishInternalError(r))
           /\ r.status \in TERMINAL_JOB_STATUSES =>
                 FinishCancellation(r) = r /\ FinishInternalError(r) = r
<1> USE DEF Row, Kept, Settle
<1>1. Kept(r, FinishStage(r, s, to)) /\ FinishStage(r, s, to).status = r.status
  BY DEF FinishStage
<1>2. Kept(r, SkipPendingStages(r))
  BY DEF SkipPendingStages
<1>3. Kept(r, FinishCancellation(r))
  BY DEF FinishCancellation
<1>4. Kept(r, FinishInternalError(r))
  BY DEF FinishInternalError, CancelPendingStages
<1>5. r.status \in TERMINAL_JOB_STATUSES =>
         FinishCancellation(r) = r /\ FinishInternalError(r) = r
  BY DEF FinishCancellation, FinishInternalError, TERMINAL_JOB_STATUSES
<1> QED
  BY <1>1, <1>2, <1>3, <1>4, <1>5

\* The runner of a job that was stopped begins nothing and asks nothing.
LEMMA StoppedRunner ==
    ASSUME TypeOK, NEW j \in Job, Stopped(row[j]),
           RunnerStep(j) \/ RunnerFault(j)
    PROVE  Kept(row[j], row'[j])
<1> DEFINE r == row[j]
<1>0. /\ r \in Row
      /\ \A n : SetRow(j, n) => row'[j] = n
      /\ KeepDb => row'[j] = r
      /\ Kept(r, r)
  BY DEF TypeOK, SetRow, KeepDb, Kept
<1>1. /\ \A s : ~CanStartStage(r, s) /\ ~CanOpenDecision(r, s)
      /\ \A s : ResumeWaiting(r, s) = r /\ InterruptWaiting(r, s) = r
      /\ \A id : ~CanResolveOnce(r, id)
      /\ ~CanClose(r) /\ RequestCancel(r) = r
  BY <1>0, StoppedRow
<1>2. /\ \A s, to : Kept(r, FinishStage(r, s, to)) /\ FinishStage(r, s, to).status = r.status
      /\ Kept(r, SkipPendingStages(r)) /\ Kept(r, FinishCancellation(r))
      /\ Kept(r, FinishInternalError(r))
  BY <1>0, EndingsKeep
<1> USE DEF JustGoto, Write, WriteIf
<1>3. CASE \/ Load(j) \/ NextStage(j) \/ NoStageLeft(j) \/ BeginStage(j)
           \/ CheckCancelled(j) \/ StageSucceeds(j) \/ NothingToAsk(j)
           \/ Finish(j) \/ SkipRest(j) \/ CheckFinished(j)
           \/ CloseFinished(j) \/ CheckFinal(j)
  BY <1>0, <1>1, <1>2, <1>3 DEF Load, NextStage, NoStageLeft, BeginStage,
     CheckCancelled, StageSucceeds, NothingToAsk, Finish, SkipRest,
     CheckFinished, CloseFinished, CheckFinal
<1>4. CASE RetryStage(j)
  <2> DEFINE s == run[j].stage
             n == IF CanFinishStage(r, s) THEN FinishStage(r, s, "failed") ELSE r
  <2>1. n.status = r.status /\ Kept(r, n)
    BY <1>0, <1>2
  <2>2. ~CanStartStage(n, s)
    BY <1>0, <2>1 DEF CanStartStage, Stopped, TERMINAL_JOB_STATUSES
  <2>3. row'[j] = n
    BY <1>0, <1>4, <2>2 DEF RetryStage
  <2> QED
    BY <2>1, <2>3
<1>5. CASE \/ AskBefore(j) \/ AskAfter(j) \/ AskFailure(j) \/ AskReview(j)
           \/ PollDecision(j) \/ Expire(j) \/ ActOnAnswer(j)
           \/ StopJob(j) \/ SkipOutreach(j)
           \/ CancelSelf(j) \/ CancelStage(j)
  BY <1>0, <1>1, <1>2, <1>5 DEF AskBefore, AskAfter, AskFailure, AskReview,
     Ask, PollDecision, TakeResolution, Expire, ActOnAnswer, StopJob,
     SkipOutreach, CancelSelf, CancelStage
<1>6. CASE \/ OpenBrowser(j) \/ ReleaseForReview(j) \/ Reacquire(j) \/ ReacquireLease(j)
           \/ CheckReacquired(j) \/ ReopenBrowser(j)
           \/ ResumeAfterReview(j) \/ EndCancelled(j) \/ EndInError(j)
           \/ Release(j) \/ Killed(j)
  BY <1>0, <1>1, <1>2, <1>6 DEF OpenBrowser, ReleaseForReview, Reacquire,
     ReacquireLease, CheckReacquired, ReopenBrowser, ResumeAfterReview,
     EndCancelled, EndInError, Release, Killed
<1>7. CASE RunnerFault(j)
  BY <1>0, <1>1, <1>7 DEF RunnerFault, OpenBrowserFails, StageRaises,
     StageFails, ApprovalFails, WaiterFails, ReleaseForReviewFails,
     ReacquireFails, ReopenBrowserFails, ReleaseUnconfirmed
<1> QED
  BY <1>3, <1>4, <1>5, <1>6, <1>7 DEF RunnerStep

\* The runner of a job that has ended writes nothing any more.
LEMMA EndedRunner ==
    ASSUME TypeOK, JobInv, ServiceInv, NEW j \in Job,
           row[j].status \in TERMINAL_JOB_STATUSES,
           RunnerStep(j) \/ RunnerFault(j)
    PROVE  row'[j] = row[j]
<1> DEFINE r == row[j]
<1>0. /\ r \in Row
      /\ \A n : SetRow(j, n) => row'[j] = n
      /\ KeepDb => row'[j] = r
  BY DEF TypeOK, SetRow, KeepDb
<1>1. Stopped(r)
  BY DEF Stopped, JobInv, JobOK, RowOK, TERMINAL_JOB_STATUSES
<1>2. pc[j] \in {"wait", "expire", "error", "idle", "release"}
  BY DEF ServiceInv, RunnerOK, At, StatusAt, TypeOK, PC, AwaitPC, AlivePC,
     NoLivePC, InStagePC, WaitPC, TERMINAL_JOB_STATUSES
<1>3. /\ \A s : ResumeWaiting(r, s) = r /\ InterruptWaiting(r, s) = r
      /\ \A id : ~CanResolveOnce(r, id)
      /\ FinishInternalError(r) = r
  BY <1>0, <1>1, StoppedRow, EndingsKeep
<1> USE DEF JustGoto, Write, WriteIf
<1>4. CASE \/ Load(j) \/ NextStage(j) \/ NoStageLeft(j) \/ BeginStage(j)
           \/ CheckCancelled(j) \/ StageSucceeds(j) \/ NothingToAsk(j)
           \/ Finish(j) \/ SkipRest(j) \/ CheckFinished(j)
           \/ CloseFinished(j) \/ CheckFinal(j)
  BY <1>2, <1>4 DEF Load, NextStage, NoStageLeft, BeginStage, CheckCancelled,
     StageSucceeds, NothingToAsk, Finish, SkipRest, CheckFinished,
     CloseFinished, CheckFinal
<1>5. CASE \/ AskBefore(j) \/ AskAfter(j) \/ AskFailure(j) \/ AskReview(j)
           \/ PollDecision(j) \/ Expire(j) \/ ActOnAnswer(j) \/ RetryStage(j)
           \/ StopJob(j) \/ SkipOutreach(j)
           \/ CancelSelf(j) \/ CancelStage(j)
  BY <1>0, <1>2, <1>3, <1>5 DEF AskBefore, AskAfter, AskFailure, AskReview,
     PollDecision, TakeResolution, Expire, ActOnAnswer, RetryStage, StopJob,
     SkipOutreach, CancelSelf, CancelStage
<1>6. CASE \/ OpenBrowser(j) \/ ReleaseForReview(j) \/ Reacquire(j) \/ ReacquireLease(j)
           \/ CheckReacquired(j) \/ ReopenBrowser(j)
           \/ ResumeAfterReview(j) \/ EndCancelled(j) \/ EndInError(j)
           \/ Release(j) \/ Killed(j)
  BY <1>0, <1>2, <1>3, <1>6 DEF OpenBrowser, ReleaseForReview, Reacquire,
     ReacquireLease, CheckReacquired, ReopenBrowser, ResumeAfterReview,
     EndCancelled, EndInError, Release, Killed
<1>7. CASE RunnerFault(j)
  BY <1>0, <1>2, <1>3, <1>7 DEF RunnerFault, OpenBrowserFails, StageRaises,
     StageFails, ApprovalFails, WaiterFails, ReleaseForReviewFails,
     ReacquireFails, ReopenBrowserFails, ReleaseUnconfirmed
<1> QED
  BY <1>4, <1>5, <1>6, <1>7 DEF RunnerStep

\* What everybody else does to a job that was stopped: next to nothing.
LEMMA StoppedElsewhere ==
    ASSUME TypeOK, JobInv, NEW j \in Job, Stopped(row[j]), [Next]_vars,
           \A i \in Job : ~(RunnerStep(i) \/ RunnerFault(i))
    PROVE  /\ Kept(row[j], row'[j])
           /\ row[j].status # "cancelling" => row'[j] = row[j]
<1> DEFINE r == row[j]
<1>0. /\ r \in Row /\ r.status # "absent"
      /\ \A i \in Job : \A n : SetRow(i, n) => row'[j] = IF i = j THEN n ELSE r
      /\ KeepDb => row'[j] = r
      /\ Kept(r, r)
  BY DEF TypeOK, SetRow, KeepDb, Kept, Stopped, TERMINAL_JOB_STATUSES
<1>1. /\ \A id, option, source : ResolveOnce(r, id, option, source) = r
      /\ ~CanClaim(r) /\ RequestCancel(r) = r
      /\ Kept(r, RecoverInterrupted(r))
      /\ r.status # "cancelling" => RecoverInterrupted(r) = r
  BY <1>0, StoppedRow
<1>2. ASSUME NEW i \in Job, Request(i) \/ DeadlinePasses(i)
      PROVE  row'[j] = r
  BY <1>0, <1>1, <1>2 DEF Request, CreatePipelineJob, CancelJob, RetryJob,
     ReadDecision, CommitDecision, DeadlinePasses
<1>3. CASE \E a \in Account : RetryQuarantinedRelease(a)
  BY <1>0, <1>3 DEF RetryQuarantinedRelease
<1>4. CASE Claim
  <2>1. disp.job \in Job
    BY <1>4 DEF Claim, JobInv, DispatchOK
  <2> QED
    BY <1>0, <1>1, <1>4, <2>1 DEF Claim
<1>5. CASE DispatcherStep /\ ~Claim
  BY <1>0, <1>5 DEF DispatcherStep, Poll, EndScan, LeaseAccount,
     AccountUnavailable, Consider
<1>6. CASE Shutdown \/ Exit \/ Crash
  BY <1>0, <1>6 DEF Shutdown, Exit, Crash, dbVars
<1>7. CASE Restart
  BY <1>0, <1>1, <1>7 DEF Restart
<1>8. CASE UNCHANGED vars
  BY <1>0, <1>8 DEF vars, dbVars
<1> QED
  BY <1>0, <1>2, <1>3, <1>4, <1>5, <1>6, <1>7, <1>8 DEF Next

LEMMA EndedStep ==
    ASSUME TypeOK, JobInv, ServiceInv, [Next]_vars, NEW j \in Job,
           row[j].status \in TERMINAL_JOB_STATUSES
    PROVE  row'[j] = row[j]
<1>1. Stopped(row[j]) /\ row[j].status # "cancelling"
  BY DEF Stopped, JobInv, JobOK, RowOK, TERMINAL_JOB_STATUSES
<1> QED
  BY <1>1, EndedRunner, RunnerWritesOwn, StoppedElsewhere

\* Once a job is being cancelled or has ended, its runner, which may still be on
\* its way, begins no stage and asks no question: the guards of start_stage and
\* open_decision refuse, and recovery changes neither.
THEOREM NothingAfterCancel == Spec => NoWorkAfterCancel
<1>1. ASSUME TypeOK, JobInv, [Next]_vars, NEW j \in Job,
             row[j].status \in {"cancelling"} \cup TERMINAL_JOB_STATUSES
      PROVE  row'[j].attempt = row[j].attempt /\ row'[j].ckpt = row[j].ckpt
  <2>1. Stopped(row[j])
    BY <1>1 DEF Stopped, JobInv, JobOK, RowOK, TERMINAL_JOB_STATUSES
  <2> QED
    BY <1>1, <2>1, StoppedRunner, RunnerWritesOwn, StoppedElsewhere DEF Kept
<1>2. TypeOK /\ JobInv /\ [Next]_vars =>
         [\A j \in Job :
            row[j].status \in {"cancelling"} \cup TERMINAL_JOB_STATUSES =>
               /\ row'[j].attempt = row[j].attempt
               /\ row'[j].ckpt = row[j].ckpt]_vars
  BY <1>1
<1> QED
  BY <1>2, Invariance, PTL DEF Spec, NoWorkAfterCancel

-----------------------------------------------------------------------------
(* The status tables                                                       *)

\* How a job and a stage of it may change in one step.
JobMoves(old, new) == old # new => <<old, new>> \in Contract!JOB_STATUS_TRANSITIONS

StageMoves(old, new) ==
    old # new => <<old, new>> \in Contract!STAGE_STATUS_TRANSITIONS

\* One job moves, the others stay.
LEMMA ChangeMoves ==
    ASSUME NEW j \in Job, NEW k \in Job, NEW to, NEW S, NEW settled,
           Contract!Change(k, to, S, settled),
           JobMoves(row[k].status, to),
           \A s \in S : s \in Stage => StageMoves(row[k].stages[s], settled)
    PROVE  /\ JobMoves(row[j].status, row'[j].status)
           /\ \A s \in Stage :
                  StageMoves(row[j].stages[s], row'[j].stages[s])
<1>1. /\ [i \in Job |-> row'[i].status]
             = [[i \in Job |-> row[i].status] EXCEPT ![k] = to]
      /\ [i \in Job |-> row'[i].stages]
             = [[i \in Job |-> row[i].stages] EXCEPT ![k] =
                  [s \in Stage |-> IF s \in S THEN settled
                                             ELSE row[k].stages[s]]]
  BY DEF Contract!Change, Contract!Stage, Stage
<1>2. row'[j].status = IF j = k THEN to ELSE row[j].status
  <2>1. row'[j].status = [i \in Job |-> row'[i].status][j]
    OBVIOUS
  <2> QED
    BY <1>1, <2>1
<1>3. row'[j].stages = IF j = k
                       THEN [s \in Stage |-> IF s \in S THEN settled
                                              ELSE row[k].stages[s]]
                       ELSE row[j].stages
  <2>1. row'[j].stages = [i \in Job |-> row'[i].stages][j]
    OBVIOUS
  <2> QED
    BY <1>1, <2>1
<1> QED
  BY <1>2, <1>3 DEF JobMoves, StageMoves

\* Every step of the contract is in the tables.
LEMMA ContractStepMoves ==
    ASSUME Contract!Next, NEW j \in Job, row[j].status # "absent"
    PROVE  /\ JobMoves(row[j].status, row'[j].status)
           /\ \A s \in Stage :
                  StageMoves(row[j].stages[s], row'[j].stages[s])
<1> DEFINE Goal == /\ JobMoves(row[j].status, row'[j].status)
                   /\ \A s \in Stage :
                          StageMoves(row[j].stages[s], row'[j].stages[s])
<1>1. /\ row'[j].status = [i \in Job |-> row'[i].status][j]
      /\ row'[j].stages = [i \in Job |-> row'[i].stages][j]
  OBVIOUS
<1>2. ASSUME NEW k \in Job, NEW to, NEW S, NEW settled,
             Contract!Change(k, to, S, settled),
             JobMoves(row[k].status, to),
             \A s \in S : s \in Stage => StageMoves(row[k].stages[s], settled)
      PROVE  Goal
  BY <1>2, ChangeMoves
<1> HIDE DEF Goal
<1>3. ASSUME NEW k \in Job, Contract!Submit(k)
      PROVE  Goal
  <2>1. k # j
    BY <1>3 DEF Contract!Submit
  <2>2. row'[j].status = row[j].status /\ row'[j].stages = row[j].stages
    BY <1>1, <1>3, <2>1 DEF Contract!Submit, Contract!Change
  <2> QED
    BY <2>2 DEF Goal, JobMoves, StageMoves
<1>4. ASSUME NEW k \in Job, Contract!ClaimIt(k)
      PROVE  Goal
  <2>1. row[k].status = "queued" /\ Contract!Change(k, "running", {}, "none")
    BY <1>4 DEF Contract!ClaimIt
  <2>2. JobMoves(row[k].status, "running")
    BY <2>1 DEF JobMoves, Contract!JOB_STATUS_TRANSITIONS
  <2> QED
    BY <1>2, <2>1, <2>2
<1>5. ASSUME NEW k \in Job, Contract!Begin(k)
      PROVE  Goal
  <2>1. PICK s \in Contract!Pending(k) :
            row[k].status = "running" /\ Contract!Change(k, "running", {s}, "running")
    BY <1>5 DEF Contract!Begin
  <2>2. s \in Stage => StageMoves(row[k].stages[s], "running")
    BY <2>1 DEF Contract!Pending, StageMoves, Contract!STAGE_STATUS_TRANSITIONS
  <2>3. JobMoves(row[k].status, "running")
    BY <2>1 DEF JobMoves
  <2> QED
    BY <1>2, <2>1, <2>2, <2>3
<1>6. ASSUME NEW k \in Job, Contract!End(k)
      PROVE  Goal
  <2>1. PICK s \in Contract!Running(k), to \in Contract!TERMINAL_STAGE_STATUSES :
            Contract!Change(k, row[k].status, {s}, to)
    BY <1>6 DEF Contract!End
  <2>2. s \in Stage => StageMoves(row[k].stages[s], to)
    BY <2>1 DEF Contract!Running, StageMoves,
       Contract!TERMINAL_STAGE_STATUSES, Contract!STAGE_STATUS_TRANSITIONS
  <2>3. JobMoves(row[k].status, row[k].status)
    BY DEF JobMoves
  <2> QED
    BY <1>2, <2>1, <2>2, <2>3
<1>7. ASSUME NEW k \in Job, Contract!SkipPending(k)
      PROVE  Goal
  <2>1. Contract!Change(k, row[k].status, Contract!Pending(k), "skipped")
    BY <1>7 DEF Contract!SkipPending
  <2>2. \A s \in Contract!Pending(k) :
            s \in Stage => StageMoves(row[k].stages[s], "skipped")
    BY DEF Contract!Pending, StageMoves, Contract!STAGE_STATUS_TRANSITIONS
  <2>3. JobMoves(row[k].status, row[k].status)
    BY DEF JobMoves
  <2> QED
    BY <1>2, <2>1, <2>2, <2>3
<1>8. ASSUME NEW k \in Job, Contract!Pause(k)
      PROVE  Goal
  <2>1. PICK s \in Contract!Live(k) :
            /\ row[k].status = "running"
            /\ Contract!Change(k, "waiting_decision", {s}, "waiting_decision")
    BY <1>8 DEF Contract!Pause
  <2>2. s \in Stage => StageMoves(row[k].stages[s], "waiting_decision")
    BY <2>1 DEF Contract!Live, Contract!LiveStageStatus, StageMoves,
       Contract!STAGE_STATUS_TRANSITIONS
  <2>3. JobMoves(row[k].status, "waiting_decision")
    BY <2>1 DEF JobMoves, Contract!JOB_STATUS_TRANSITIONS
  <2> QED
    BY <1>2, <2>1, <2>2, <2>3
<1>9. ASSUME NEW k \in Job, Contract!Resume(k)
      PROVE  Goal
  <2>1. PICK s \in Contract!Live(k) :
            /\ row[k].status = "waiting_decision"
            /\ Contract!Change(k, "running", {s}, "running")
    BY <1>9 DEF Contract!Resume
  <2>2. s \in Stage => StageMoves(row[k].stages[s], "running")
    BY <2>1 DEF Contract!Live, Contract!LiveStageStatus, StageMoves,
       Contract!STAGE_STATUS_TRANSITIONS
  <2>3. JobMoves(row[k].status, "running")
    BY <2>1 DEF JobMoves, Contract!JOB_STATUS_TRANSITIONS
  <2> QED
    BY <1>2, <2>1, <2>2, <2>3
<1>10. ASSUME NEW k \in Job, Contract!AskToCancel(k)
      PROVE  Goal
  <2> DEFINE open == Contract!Live(k) \cup Contract!Pending(k)
  <2>1. \A s \in open : s \in Stage => StageMoves(row[k].stages[s], "cancelled")
    BY DEF Contract!Live, Contract!Pending, Contract!LiveStageStatus,
       StageMoves, Contract!STAGE_STATUS_TRANSITIONS
  <2>2. CASE /\ row[k].status \in {"queued", "waiting_decision"}
             /\ Contract!Change(k, "cancelled", open, "cancelled")
    <3>1. JobMoves(row[k].status, "cancelled")
      BY <2>2 DEF JobMoves, Contract!JOB_STATUS_TRANSITIONS
    <3> QED
      BY <1>2, <2>1, <2>2, <3>1
  <2>3. CASE /\ row[k].status = "running"
             /\ Contract!Change(k, "cancelling", {}, "none")
    <3>1. JobMoves(row[k].status, "cancelling")
      BY <2>3 DEF JobMoves, Contract!JOB_STATUS_TRANSITIONS
    <3> QED
      BY <1>2, <2>3, <3>1
  <2> QED
    BY <1>10, <2>2, <2>3 DEF Contract!AskToCancel
<1>11. ASSUME NEW k \in Job, Contract!Complete(k)
      PROVE  Goal
  <2>1. PICK to \in {"succeeded", "partial_failed"} :
            row[k].status = "running" /\ Contract!Change(k, to, {}, "none")
    BY <1>11 DEF Contract!Complete
  <2>2. JobMoves(row[k].status, to)
    BY <2>1 DEF JobMoves, Contract!JOB_STATUS_TRANSITIONS
  <2> QED
    BY <1>2, <2>1, <2>2
<1>12. ASSUME NEW k \in Job, Contract!Interrupt(k)
      PROVE  Goal
  <2>1. /\ row[k].status = "waiting_decision"
        /\ Contract!Change(k, "interrupted", Contract!Live(k), "failed")
    BY <1>12 DEF Contract!Interrupt
  <2>2. \A s \in Contract!Live(k) :
            s \in Stage => StageMoves(row[k].stages[s], "failed")
    BY DEF Contract!Live, Contract!LiveStageStatus, StageMoves,
       Contract!STAGE_STATUS_TRANSITIONS
  <2>3. JobMoves(row[k].status, "interrupted")
    BY <2>1 DEF JobMoves, Contract!JOB_STATUS_TRANSITIONS
  <2> QED
    BY <1>2, <2>1, <2>2, <2>3
<1>13. ASSUME NEW k \in Job, Contract!Fail(k)
      PROVE  Goal
  <2>1. PICK rest \in {"pending", "skipped"} :
            /\ row[k].status = "running"
            /\ [i \in Job |-> row'[i].status]
                  = [[i \in Job |-> row[i].status] EXCEPT ![k] = "failed"]
            /\ [i \in Job |-> row'[i].stages]
                  = [[i \in Job |-> row[i].stages] EXCEPT ![k] =
                       [s \in Stage |->
                           IF s \in Contract!Live(k) THEN "failed"
                           ELSE IF s \in Contract!Pending(k) THEN rest
                           ELSE row[k].stages[s]]]
    BY <1>13 DEF Contract!Fail, Contract!Stage, Stage
  <2>2. JobMoves(row[k].status, "failed")
    BY <2>1 DEF JobMoves, Contract!JOB_STATUS_TRANSITIONS
  <2>3. \A s \in Stage :
            /\ s \in Contract!Live(k) => StageMoves(row[k].stages[s], "failed")
            /\ s \in Contract!Pending(k) => StageMoves(row[k].stages[s], rest)
    BY <2>1 DEF Contract!Live, Contract!Pending, Contract!LiveStageStatus,
       StageMoves, Contract!STAGE_STATUS_TRANSITIONS
  <2>4. \A s \in Stage : StageMoves(row[j].stages[s], row'[j].stages[s])
    <3>1. CASE j = k
      <4>1. row'[j].stages = [s \in Stage |->
                                 IF s \in Contract!Live(k) THEN "failed"
                                 ELSE IF s \in Contract!Pending(k) THEN rest
                                 ELSE row[k].stages[s]]
        BY <1>1, <2>1, <3>1
      <4> QED
        BY <2>3, <3>1, <4>1 DEF StageMoves
    <3>2. CASE j # k
      <4>1. row'[j].stages = row[j].stages
        BY <1>1, <2>1, <3>2
      <4> QED
        BY <4>1 DEF StageMoves
    <3> QED
      BY <3>1, <3>2
  <2>5. JobMoves(row[j].status, row'[j].status)
    BY <1>1, <2>1, <2>2 DEF JobMoves
  <2> QED
    BY <2>4, <2>5 DEF Goal
<1>14. ASSUME NEW k \in Job, Contract!CompleteCancel(k)
      PROVE  Goal
  <2>1. PICK last \in {"failed", "cancelled"} :
            /\ row[k].status = "cancelling"
            /\ [i \in Job |-> row'[i].status]
                  = [[i \in Job |-> row[i].status] EXCEPT ![k] = "cancelled"]
            /\ [i \in Job |-> row'[i].stages]
                  = [[i \in Job |-> row[i].stages] EXCEPT ![k] =
                       [s \in Stage |->
                           IF s \in Contract!Live(k) THEN last
                           ELSE IF s \in Contract!Pending(k) THEN "cancelled"
                           ELSE row[k].stages[s]]]
    BY <1>14 DEF Contract!CompleteCancel, Contract!Stage, Stage
  <2>2. JobMoves(row[k].status, "cancelled")
    BY <2>1 DEF JobMoves, Contract!JOB_STATUS_TRANSITIONS
  <2>3. \A s \in Stage :
            /\ s \in Contract!Live(k) => StageMoves(row[k].stages[s], last)
            /\ s \in Contract!Pending(k) => StageMoves(row[k].stages[s], "cancelled")
    BY <2>1 DEF Contract!Live, Contract!Pending, Contract!LiveStageStatus,
       StageMoves, Contract!STAGE_STATUS_TRANSITIONS
  <2>4. \A s \in Stage : StageMoves(row[j].stages[s], row'[j].stages[s])
    <3>1. CASE j = k
      <4>1. row'[j].stages = [s \in Stage |->
                                 IF s \in Contract!Live(k) THEN last
                                 ELSE IF s \in Contract!Pending(k) THEN "cancelled"
                                 ELSE row[k].stages[s]]
        BY <1>1, <2>1, <3>1
      <4> QED
        BY <2>3, <3>1, <4>1 DEF StageMoves
    <3>2. CASE j # k
      <4>1. row'[j].stages = row[j].stages
        BY <1>1, <2>1, <3>2
      <4> QED
        BY <4>1 DEF StageMoves
    <3> QED
      BY <3>1, <3>2
  <2>5. JobMoves(row[j].status, row'[j].status)
    BY <1>1, <2>1, <2>2 DEF JobMoves
  <2> QED
    BY <2>4, <2>5 DEF Goal
<1>15. ASSUME Contract!Recover
      PROVE  Goal
  <2>1. row'[j].status = IF row[j].status \in Contract!ActiveJobStatus
                         THEN "interrupted" ELSE row[j].status
    BY <1>1, <1>15 DEF Contract!Recover
  <2>2. row'[j].stages = [s \in Stage |-> IF s \in Contract!Live(j)
                                          THEN "failed"
                                          ELSE row[j].stages[s]]
    BY <1>1, <1>15 DEF Contract!Recover, Contract!Stage, Stage
  <2>3. JobMoves(row[j].status, row'[j].status)
    BY <2>1 DEF JobMoves, Contract!JOB_STATUS_TRANSITIONS,
       Contract!ActiveJobStatus
  <2>4. \A s \in Stage : StageMoves(row[j].stages[s], row'[j].stages[s])
    BY <2>2 DEF StageMoves, Contract!STAGE_STATUS_TRANSITIONS, Contract!Live,
       Contract!LiveStageStatus
  <2> QED
    BY <2>3, <2>4 DEF Goal
<1>16. Goal
  BY <1>3, <1>4, <1>5, <1>6, <1>7, <1>8, <1>9, <1>10, <1>11, <1>12, <1>13,
     <1>14, <1>15 DEF Contract!Next
<1> QED
  BY <1>16 DEF Goal

\* A client that relies on the contract sees statuses change only the way
\* models/pipeline_states.py declares, also over whole transactions.
THEOREM ContractFollowsTables == Contract!Spec => Contract!FollowsTables
<1> DEFINE Followed == \A j \in Job : row[j].status # "absent" =>
              /\ JobMoves(row[j].status, row'[j].status)
              /\ \A s \in Stage :
                     StageMoves(row[j].stages[s], row'[j].stages[s])
<1>1. ASSUME UNCHANGED Contract!vars
      PROVE  Followed
  <2>1. ASSUME NEW j \in Job
        PROVE  row'[j].status = row[j].status /\ row'[j].stages = row[j].stages
    <3>1. /\ row'[j].status = [i \in Job |-> row'[i].status][j]
          /\ row'[j].stages = [i \in Job |-> row'[i].stages][j]
      OBVIOUS
    <3> QED
      BY <1>1, <3>1 DEF Contract!vars
  <2> QED
    BY <2>1 DEF JobMoves, StageMoves
<1>2. [Contract!Next]_(Contract!vars) => Followed
  BY <1>1, ContractStepMoves
<1>3. Followed => [Contract!Tabled]_(Contract!vars)
  BY DEF Contract!Tabled, JobMoves, StageMoves, Contract!Stage, Stage
<1> QED
  BY <1>2, <1>3, PTL DEF Contract!Spec, Contract!FollowsTables
-----------------------------------------------------------------------------
(* The service implements its contract                                     *)

\* The stages that have not begun.
PendingStages(r) == {s \in Stage : r.stages[s] = "pending"}

\* The job's status becomes to, and the stages in S settled.
Becomes(r, n, to, S, settled) ==
    /\ n.status = to
    /\ n.stages = [s \in Stage |-> IF s \in S THEN settled ELSE r.stages[s]]

\* What the contract lets happen to the row of one job, action by action.
Submitted(r, n) ==
    r.status = "absent" /\ \E S \in SUBSET Stage :
        S # {} /\ Becomes(r, n, "queued", S, "pending")
Claimed(r, n) == r.status = "queued" /\ Becomes(r, n, "running", {}, "none")
Begun(r, n) ==
    /\ r.status = "running" /\ LiveStages(r) = {}
    /\ \E s \in PendingStages(r) :
          /\ \A t \in PendingStages(r) : s <= t
          /\ Becomes(r, n, "running", {s}, "running")
Ended(r, n) ==
    /\ r.status \in {"running", "cancelling"}
    /\ \E s \in Stage, to \in TERMINAL_STAGE_STATUSES :
          r.stages[s] = "running" /\ Becomes(r, n, r.status, {s}, to)
Skipped(r, n) ==
    /\ r.status \in {"running", "cancelling"} /\ LiveStages(r) = {}
    /\ Becomes(r, n, r.status, PendingStages(r), "skipped")
Paused(r, n) ==
    r.status = "running" /\ \E s \in LiveStages(r) :
        Becomes(r, n, "waiting_decision", {s}, "waiting_decision")
Resumed(r, n) ==
    r.status = "waiting_decision" /\ \E s \in LiveStages(r) :
        Becomes(r, n, "running", {s}, "running")
AskedToCancel(r, n) ==
    \/ /\ r.status \in {"queued", "waiting_decision"}
       /\ Becomes(r, n, "cancelled", LiveStages(r) \cup PendingStages(r), "cancelled")
    \/ r.status = "running" /\ Becomes(r, n, "cancelling", {}, "none")
Completed(r, n) ==
    /\ r.status = "running" /\ LiveStages(r) \cup PendingStages(r) = {}
    /\ \/ /\ \A s \in Stage : r.stages[s] # "failed"
          /\ Becomes(r, n, "succeeded", {}, "none")
       \/ /\ \E s \in Stage : r.stages[s] \in {"failed", "skipped"}
          /\ Becomes(r, n, "partial_failed", {}, "none")
Settled(r, n, last, rest) ==
    n.stages = [s \in Stage |-> IF s \in LiveStages(r) THEN last
                                ELSE IF s \in PendingStages(r) THEN rest
                                ELSE r.stages[s]]
Failed(r, n) ==
    /\ r.status = "running" /\ n.status = "failed"
    /\ \E rest \in {"pending", "skipped"} : Settled(r, n, "failed", rest)
CancelCompleted(r, n) ==
    /\ r.status = "cancelling" /\ n.status = "cancelled"
    /\ \E last \in {"failed", "cancelled"} : Settled(r, n, last, "cancelled")
Interrupted(r, n) ==
    /\ r.status = "waiting_decision"
    /\ Becomes(r, n, "interrupted", LiveStages(r), "failed")

Allowed(r, n) ==
    \/ n.status = r.status /\ n.stages = r.stages
    \/ Submitted(r, n) \/ Claimed(r, n) \/ Begun(r, n) \/ Ended(r, n)
    \/ Skipped(r, n) \/ Paused(r, n) \/ Resumed(r, n) \/ AskedToCancel(r, n)
    \/ Completed(r, n) \/ Failed(r, n) \/ CancelCompleted(r, n)
    \/ Interrupted(r, n)

\* A row that changes as allowed is a step of the contract.
LEMMA AllowedIsContract ==
    ASSUME TypeOK, NEW j \in Job, NEW n, SetRow(j, n), Allowed(row[j], n)
    PROVE  Contract!Next \/ UNCHANGED Contract!vars
<1> DEFINE r == row[j]
           status == [i \in Job |-> row[i].status]
           stages == [i \in Job |-> row[i].stages]
<1>1. row'[j] = n /\ \A i \in Job \ {j} : row'[i] = row[i]
  BY DEF TypeOK, SetRow
<1>2. /\ [i \in Job |-> row'[i].status] = [status EXCEPT ![j] = n.status]
      /\ [i \in Job |-> row'[i].stages] = [stages EXCEPT ![j] = n.stages]
  BY <1>1
<1>3. status[j] = r.status /\ stages[j] = r.stages /\ Contract!Stage = Stage
  BY DEF Contract!Stage, Stage
<1>4. /\ Contract!Live(j) = LiveStages(r) /\ Contract!Pending(j) = PendingStages(r)
      /\ Contract!Running(j) = {s \in Stage : r.stages[s] = "running"}
      /\ Contract!TERMINAL_STAGE_STATUSES = TERMINAL_STAGE_STATUSES
  BY <1>3 DEF Contract!Live, Contract!Pending, Contract!Running, LiveStages,
     PendingStages, Contract!LiveStageStatus, LiveStageStatus,
     Contract!TERMINAL_STAGE_STATUSES, TERMINAL_STAGE_STATUSES
<1>5. ASSUME NEW to, NEW S, NEW settled, Becomes(r, n, to, S, settled)
      PROVE  Contract!Change(j, to, S, settled)
  BY <1>2, <1>3, <1>5 DEF Becomes, Contract!Change
<1>6. CASE n.status = r.status /\ n.stages = r.stages
  <2>1. /\ [i \in Job |-> row'[i].status] = status
        /\ [i \in Job |-> row'[i].stages] = stages
    BY <1>1, <1>6
  <2> QED
    BY <2>1 DEF Contract!vars
<1>7. CASE Submitted(r, n)
  BY <1>3, <1>5, <1>7 DEF Submitted, Contract!Submit, Contract!Next
<1>8. CASE Claimed(r, n)
  BY <1>3, <1>5, <1>8 DEF Claimed, Contract!ClaimIt, Contract!Next
<1>9. CASE Begun(r, n)
  BY <1>3, <1>4, <1>5, <1>9 DEF Begun, Contract!Begin, Contract!Next
<1>10. CASE Ended(r, n)
  BY <1>3, <1>4, <1>5, <1>10 DEF Ended, Contract!End, Contract!Next
<1>11. CASE Skipped(r, n)
  BY <1>3, <1>4, <1>5, <1>11 DEF Skipped, Contract!SkipPending, Contract!Next
<1>12. CASE Paused(r, n)
  BY <1>3, <1>4, <1>5, <1>12 DEF Paused, Contract!Pause, Contract!Next
<1>13. CASE Resumed(r, n)
  BY <1>3, <1>4, <1>5, <1>13 DEF Resumed, Contract!Resume, Contract!Next
<1>14. CASE AskedToCancel(r, n)
  BY <1>3, <1>4, <1>5, <1>14 DEF AskedToCancel, Contract!AskToCancel,
     Contract!Next
<1>15. CASE Completed(r, n)
  BY <1>3, <1>4, <1>5, <1>15 DEF Completed, Contract!Complete, Contract!Next
<1>16. CASE Failed(r, n)
  <2>1. PICK rest \in {"pending", "skipped"} : Settled(r, n, "failed", rest)
    BY <1>16 DEF Failed
  <2>2. n.stages = [s \in Contract!Stage |->
            IF s \in Contract!Live(j) THEN "failed"
            ELSE IF s \in Contract!Pending(j) THEN rest ELSE stages[j][s]]
    BY <1>3, <1>4, <2>1 DEF Settled
  <2> HIDE DEF status, stages, r
  <2>3. Contract!Fail(j)
    BY <1>2, <1>3, <1>16, <2>2 DEF Failed, Contract!Fail, status, stages
  <2> QED
    BY <2>3 DEF Contract!Next
<1>17. CASE CancelCompleted(r, n)
  <2>1. PICK last \in {"failed", "cancelled"} : Settled(r, n, last, "cancelled")
    BY <1>17 DEF CancelCompleted
  <2>2. n.stages = [s \in Contract!Stage |->
            IF s \in Contract!Live(j) THEN last
            ELSE IF s \in Contract!Pending(j) THEN "cancelled" ELSE stages[j][s]]
    BY <1>3, <1>4, <2>1 DEF Settled
  <2> HIDE DEF r
  <2>3. Contract!CompleteCancel(j)
    BY <1>2, <1>3, <1>17, <2>2 DEF CancelCompleted, Contract!CompleteCancel
  <2> QED
    BY <2>3 DEF Contract!Next
<1>18. CASE Interrupted(r, n)
  BY <1>3, <1>4, <1>5, <1>18 DEF Interrupted, Contract!Interrupt, Contract!Next
<1> QED
  BY <1>6, <1>7, <1>8, <1>9, <1>10, <1>11, <1>12, <1>13, <1>14, <1>15, <1>16,
     <1>17, <1>18 DEF Allowed

LEMMA StartAllowed ==
    ASSUME NEW r \in Row, NEW s \in Stage, r.status = "running",
           LiveStages(r) = {}, r.stages[s] = "pending", Passed(r, s)
    PROVE  Allowed(r, StartStage(r, s))
<1>1. \A t \in PendingStages(r) : s <= t
  BY DEF PendingStages, Passed, Done, Stage
<1>2. Becomes(r, StartStage(r, s), "running", {s}, "running")
  BY DEF Becomes, StartStage, Row
<1> QED
  BY <1>1, <1>2 DEF Begun, PendingStages, Allowed

LEMMA FinishAllowed ==
    ASSUME NEW r \in Row, NEW s \in Stage, CanFinishStage(r, s),
           r.status \in {"running", "cancelling"},
           NEW to \in TERMINAL_STAGE_STATUSES
    PROVE  Allowed(r, FinishStage(r, s, to))
<1>1. Becomes(r, FinishStage(r, s, to), r.status, {s}, to)
  BY DEF Becomes, FinishStage, Row
<1> QED
  BY <1>1 DEF Ended, CanFinishStage, Allowed

LEMMA SkipAllowed ==
    ASSUME NEW r \in Row, r.status \in {"running", "cancelling"},
           LiveStages(r) = {}
    PROVE  Allowed(r, SkipPendingStages(r))
<1>1. Becomes(r, SkipPendingStages(r), r.status, PendingStages(r), "skipped")
  BY DEF Becomes, SkipPendingStages, Settle, PendingStages, Row
<1> QED
  BY <1>1 DEF Skipped, Allowed

LEMMA CloseAllowed ==
    ASSUME NEW r \in Row, CanClose(r), NEW x \in Locals,
           \A s \in Stage : r.stages[s] \in Done \cup {"none"},
           (\E s \in Stage : r.stages[s] = "failed") => x.failed,
           x.failed => \E s \in Stage : r.stages[s] \in {"failed", "skipped"}
    PROVE  Allowed(r, CloseJob(r, FinalStatus(x)))
<1>1. LiveStages(r) \cup PendingStages(r) = {}
  BY DEF LiveStages, PendingStages, LiveStageStatus, Done
<1>2. \A to : Becomes(r, CloseJob(r, to), to, {}, "none")
  BY DEF Becomes, CloseJob, Row
<1>3. Completed(r, CloseJob(r, FinalStatus(x)))
  BY <1>1, <1>2 DEF Completed, FinalStatus, CanClose
<1> QED
  BY <1>3 DEF Allowed

LEMMA OpenAllowed ==
    ASSUME NEW r \in Row, NEW s \in Stage, NEW plan, CanOpenDecision(r, s)
    PROVE  Allowed(r, OpenDecision(r, s, plan))
<1>1. Becomes(r, OpenDecision(r, s, plan), "waiting_decision", {s}, "waiting_decision")
  BY DEF Becomes, OpenDecision, PauseForDecision, CreateCheckpoint, Row
<1>2. Paused(r, OpenDecision(r, s, plan))
  BY <1>1 DEF Paused, CanOpenDecision, CanPause, LiveStages, LiveStageStatus
<1> QED
  BY <1>2 DEF Allowed

LEMMA ResolveAllowed ==
    ASSUME NEW r \in Row, RowOK(r), NEW id, NEW option, NEW source
    PROVE  Allowed(r, ResolveOnce(r, id, option, source))
<1> DEFINE n == ResolveOnce(r, id, option, source)
           s == r.ckpt.stage
<1>1. CASE CanResolveOnce(r, id)
  <2>1. /\ n.status = "running" /\ s \in Stage /\ n.stages[s] = "running"
        /\ \A t \in Stage \ {s} : n.stages[t] = r.stages[t]
        /\ r.stages[s] = "waiting_decision"
    BY <1>1, ResolveOnceSettles
  <2>2. n.stages = [r.stages EXCEPT ![s] = "running"]
    BY <1>1 DEF ResolveOnce, ResumeFromDecision, ResolveCheckpoint, Row
  <2>3. Becomes(r, n, "running", {s}, "running")
    BY <2>1, <2>2 DEF Becomes, Row
  <2> QED
    BY <1>1, <2>1, <2>3 DEF Allowed, Resumed, CanResolveOnce, CanResume,
       LiveStages, LiveStageStatus
<1>2. CASE ~CanResolveOnce(r, id)
  BY <1>2 DEF ResolveOnce, Allowed
<1> QED
  BY <1>1, <1>2

LEMMA WaiterAllowed ==
    ASSUME NEW r \in Row, RowOK(r), NEW s \in Stage
    PROVE  Allowed(r, ResumeWaiting(r, s)) /\ Allowed(r, InterruptWaiting(r, s))
<1> DEFINE c == CancelCheckpoint(r)
<1>1. c \in Row /\ c.stages = r.stages /\ c.status = r.status /\ c.current = r.current
  BY CancelCheckpointKeeps
<1>2. CASE CanResume(c, s)
  <2>1. r.status = "waiting_decision" /\ r.stages[s] = "waiting_decision" /\ s \in LiveStages(r)
    BY <1>1, <1>2 DEF CanResume, LiveStages, LiveStageStatus
  <2>2. LiveStages(r) = {s}
    BY <2>1 DEF RowOK
  <2> HIDE DEF c
  <2>3. Becomes(r, ResumeFromDecision(c, s), "running", {s}, "running")
    BY <1>1 DEF Becomes, ResumeFromDecision, Row
  <2>4. Becomes(r, InterruptWaitingDecision(c, s), "interrupted", {s}, "failed")
    BY <1>1 DEF Becomes, InterruptWaitingDecision, Row
  <2> QED
    BY <1>2, <2>1, <2>2, <2>3, <2>4 DEF ResumeWaiting, InterruptWaiting,
       Allowed, Resumed, Interrupted, c
<1>3. CASE ~CanResume(c, s)
  BY <1>1, <1>3 DEF ResumeWaiting, InterruptWaiting, Allowed
<1> QED
  BY <1>2, <1>3

LEMMA CancelAllowed ==
    ASSUME NEW r \in Row, RowOK(r)
    PROVE  Allowed(r, RequestCancel(r))
<1> DEFINE n == RequestCancel(r)
<1>1. CASE r.status = "queued"
  <2>1. LiveStages(r) = {}
    BY <1>1 DEF RowOK, ActiveJobStatus
  <2>2. n.status = "cancelled" /\ n.stages = [s \in Stage |-> IF r.stages[s] = "pending" THEN "cancelled" ELSE r.stages[s]]
    BY <1>1 DEF RequestCancel, CancelPendingStages, Settle, Row
  <2>3. Becomes(r, n, "cancelled", LiveStages(r) \cup PendingStages(r), "cancelled")
    BY <2>1, <2>2 DEF Becomes, PendingStages
  <2> QED
    BY <1>1, <2>3 DEF Allowed, AskedToCancel
<1>2. CASE r.status = "waiting_decision"
  <2>1. \A s \in Stage : r.stages[s] # "running"
    BY <1>2 DEF RowOK, LiveStages, LiveStageStatus
  <2>2. /\ n.status = "cancelled"
        /\ n.stages = [s \in Stage |-> IF r.stages[s] \in {"waiting_decision", "pending"}
                                       THEN "cancelled" ELSE r.stages[s]]
    BY <1>2 DEF RequestCancel, CancelCheckpoint, Settle, Row
  <2>3. Becomes(r, n, "cancelled", LiveStages(r) \cup PendingStages(r), "cancelled")
    BY <2>1, <2>2 DEF Becomes, PendingStages, LiveStages, LiveStageStatus
  <2> QED
    BY <1>2, <2>3 DEF Allowed, AskedToCancel
<1>3. CASE r.status = "running"
  <2>1. n.status = "cancelling" /\ n.stages = r.stages
    BY <1>3 DEF RequestCancel, Row
  <2>2. Becomes(r, n, "cancelling", {}, "none")
    BY <2>1 DEF Becomes, Row
  <2> QED
    BY <1>3, <2>2 DEF Allowed, AskedToCancel
<1>4. CASE r.status \notin {"queued", "waiting_decision", "running"}
  BY <1>4 DEF RequestCancel, Allowed
<1> QED
  BY <1>1, <1>2, <1>3, <1>4

\* The two endings of a runner that did not get to the end of its job.
LEMMA EndingAllowed ==
    ASSUME NEW r \in Row, RowOK(r)
    PROVE  Allowed(r, FinishCancellation(r)) /\ Allowed(r, FinishInternalError(r))
<1>1. r.status # "waiting_decision" =>
         \A s \in Stage : s \in LiveStages(r) <=> r.stages[s] = "running"
  BY DEF RowOK, LiveStages, LiveStageStatus
<1>2. CASE r.status = "cancelling"
  <2>1. /\ FinishCancellation(r).status = "cancelled"
        /\ FinishCancellation(r).stages =
              [s \in Stage |-> IF r.stages[s] \in {"running", "pending"}
                               THEN "cancelled" ELSE r.stages[s]]
    BY <1>2 DEF FinishCancellation, Settle, Row
  <2>2. /\ FinishInternalError(r).status = "cancelled"
        /\ FinishInternalError(r).stages =
              [s \in Stage |-> IF r.stages[s] = "running" THEN "failed"
                               ELSE IF r.stages[s] = "pending" THEN "cancelled"
                               ELSE r.stages[s]]
    BY <1>2 DEF FinishInternalError, CancelPendingStages, Settle, Row
  <2>3. Settled(r, FinishCancellation(r), "cancelled", "cancelled")
    BY <1>1, <1>2, <2>1 DEF Settled, PendingStages
  <2>4. Settled(r, FinishInternalError(r), "failed", "cancelled")
    BY <1>1, <1>2, <2>2 DEF Settled, PendingStages
  <2> QED
    BY <1>2, <2>1, <2>2, <2>3, <2>4 DEF Allowed, CancelCompleted
<1>3. CASE r.status = "running"
  <2>1. /\ FinishInternalError(r).status = "failed"
        /\ FinishInternalError(r).stages =
              [s \in Stage |-> IF r.stages[s] = "running" THEN "failed"
                               ELSE r.stages[s]]
    BY <1>3 DEF FinishInternalError, Settle, Row
  <2>2. Settled(r, FinishInternalError(r), "failed", "pending")
    BY <1>1, <1>3, <2>1 DEF Settled, PendingStages
  <2> QED
    BY <1>3, <2>1, <2>2 DEF Allowed, Failed, FinishCancellation
<1>4. CASE r.status \notin {"running", "cancelling"}
  BY <1>4 DEF FinishCancellation, FinishInternalError, Allowed
<1> QED
  BY <1>2, <1>3, <1>4

LEMMA StopAllowed ==
    ASSUME NEW r \in Row, RowOK(r), NEW s \in Stage,
           CanFinishStage(r, s), CanClose(r)
    PROVE  Allowed(r, CloseJob(SkipPendingStages(FinishStage(r, s, "failed")), "failed"))
<1> DEFINE n == CloseJob(SkipPendingStages(FinishStage(r, s, "failed")), "failed")
<1>1. LiveStages(r) = {s}
  BY DEF RowOK, CanFinishStage, LiveStages, LiveStageStatus
<1>2. /\ n.status = "failed"
      /\ n.stages = [t \in Stage |-> IF t = s THEN "failed"
                                     ELSE IF r.stages[t] = "pending" THEN "skipped"
                                     ELSE r.stages[t]]
  BY DEF CloseJob, SkipPendingStages, FinishStage, Settle, Row
<1>3. Settled(r, n, "failed", "skipped")
  BY <1>1, <1>2 DEF Settled, PendingStages
<1> QED
  BY <1>2, <1>3 DEF Allowed, Failed, CanClose

\* The runner of j, in stage s, may write n to its row, or leave it alone.
LEMMA RetryAllowed ==
    ASSUME NEW r \in Row, NEW s \in Stage, CanFinishStage(r, s),
           r.status \in {"running", "cancelling"}
    PROVE  LET n == FinishStage(r, s, "failed")
           IN  Allowed(r, IF CanStartStage(n, s) THEN StartStage(n, s) ELSE n)
<1> DEFINE n == FinishStage(r, s, "failed")
<1>1. Allowed(r, n)
  BY FinishAllowed DEF TERMINAL_STAGE_STATUSES
<1>2. n \in Row /\ n.status = r.status /\ n.stages = [r.stages EXCEPT ![s] = "failed"]
  <2>1. n \in Row
    BY FinishStageType DEF StageStatus, TERMINAL_STAGE_STATUSES
  <2>2. n.status = r.status /\ n.stages = [r.stages EXCEPT ![s] = "failed"]
    BY DEF FinishStage, Row
  <2> QED
    BY <2>1, <2>2
<1>3. StartStage(n, s).status = r.status
  BY <1>2 DEF StartStage, Row
<1>4. StartStage(n, s).stages = r.stages
  <2>1. StartStage(n, s).stages = [n.stages EXCEPT ![s] = "running"]
    BY <1>2 DEF StartStage, Row
  <2> QED
    BY <1>2, <2>1 DEF CanFinishStage, Row
<1> QED
  BY <1>1, <1>3, <1>4 DEF Allowed

\* A runner's step is a step of the contract, or no step of it.
LEMMA RunnerAllowed ==
    ASSUME TypeOK, JobInv, ServiceInv, NEW j \in Job,
           RunnerStep(j) \/ RunnerFault(j)
    PROVE  \E n : SetRow(j, n) /\ Allowed(row[j], n)
<1> DEFINE r == row[j]
           l == pc[j]
           x == run[j]
           s == x.stage
           Goal == \E n : SetRow(j, n) /\ Allowed(r, n)
<1>0. /\ r \in Row /\ x \in Locals /\ RowOK(r) /\ RunnerAt(r, l, s)
      /\ StatusAt(r, l, up) /\ StagesAt(r, l, s) /\ LocalsAt(r, l, x)
  BY DEF TypeOK, JobInv, JobOK, ServiceInv, RunnerOK, At
<1>1. ASSUME KeepDb
      PROVE  Goal
  BY <1>1 DEF TypeOK, KeepDb, SetRow, Allowed
<1>2. ASSUME NEW n, SetRow(j, n), Allowed(r, n)
      PROVE  Goal
  BY <1>2
<1>3. /\ l \in AlivePC \ WaitPC => r.status \in {"running", "cancelling"}
      /\ l \in InStagePC \cup {"start"} => s \in Stage
      /\ l \in NoLivePC => LiveStages(r) = {}
  BY <1>0 DEF StatusAt, RunnerAt
<1> USE DEF AlivePC, NoLivePC, InStagePC, WaitPC
<1> SUFFICES Goal
  OBVIOUS
<1> HIDE DEF Goal
<1> USE DEF JustGoto, Write, WriteIf
<1>4. CASE BeginStage(j)
  <2>1. r.stages[s] = "pending" /\ Passed(r, s) /\ l = "start"
    BY <1>0, <1>4 DEF BeginStage, StagesAt
  <2>2. CanStartStage(r, s) => Allowed(r, StartStage(r, s))
    BY <1>0, <1>3, <2>1, StartAllowed DEF CanStartStage
  <2> QED
    BY <1>1, <1>2, <1>4, <2>2 DEF BeginStage
<1>5. ASSUME NEW to \in TERMINAL_STAGE_STATUSES, l \in InStagePC \ WaitPC
      PROVE  CanFinishStage(r, s) => Allowed(r, FinishStage(r, s, to))
  BY <1>0, <1>3, <1>5, FinishAllowed
<1>6. CASE Finish(j)
  <2>1. x.outcome \in TERMINAL_STAGE_STATUSES /\ l = "finish"
    BY <1>0, <1>6 DEF Finish, LocalsAt, Done, TERMINAL_STAGE_STATUSES
  <2> QED
    BY <1>1, <1>2, <1>5, <1>6, <2>1 DEF Finish
<1>7. CASE SkipRest(j)
  BY <1>0, <1>2, <1>3, <1>7, SkipAllowed DEF SkipRest
<1>8. CASE CloseFinished(j)
  <2>1. CanClose(r) => Allowed(r, CloseJob(r, FinalStatus(x)))
    <3>1. /\ \A t \in Stage : r.stages[t] \in Done \cup {"none"}
          /\ (\E t \in Stage : r.stages[t] = "failed") => x.failed
          /\ x.failed => \E t \in Stage : r.stages[t] \in {"failed", "skipped"}
      BY <1>0, <1>8 DEF CloseFinished, StagesAt, LocalsAt
    <3> QED
      BY <1>0, <3>1, CloseAllowed
  <2> QED
    BY <1>1, <1>2, <1>8, <2>1 DEF CloseFinished
<1>9. CASE \/ Load(j) \/ NextStage(j) \/ NoStageLeft(j)
           \/ CheckCancelled(j) \/ StageSucceeds(j) \/ NothingToAsk(j)
           \/ CheckFinished(j) \/ CheckFinal(j) \/ ActOnAnswer(j)
  BY <1>1, <1>9 DEF Load, NextStage, NoStageLeft, CheckCancelled,
     StageSucceeds, NothingToAsk, CheckFinished, CheckFinal, ActOnAnswer
<1>10. ASSUME NEW plan, Ask(j, plan), s \in Stage
       PROVE  Goal
  BY <1>0, <1>1, <1>2, <1>10, OpenAllowed DEF Ask
<1>11. CASE AskBefore(j) \/ AskAfter(j) \/ AskFailure(j) \/ AskReview(j)
  BY <1>3, <1>10, <1>11 DEF AskBefore, AskAfter, AskFailure, AskReview
<1>12. ASSUME TakeResolution(j), l \in WaitPC
       PROVE  Goal
  BY <1>0, <1>1, <1>2, <1>3, <1>12, WaiterAllowed DEF TakeResolution
<1>13. CASE PollDecision(j)
  BY <1>1, <1>12, <1>13 DEF PollDecision
<1>14. CASE Expire(j)
  BY <1>0, <1>1, <1>2, <1>12, <1>14, ResolveAllowed DEF Expire
<1>15. CASE RetryStage(j)
  <2>1. CanFinishStage(r, s) /\ l = "retry"
    BY <1>0, <1>15 DEF RetryStage, StagesAt, CanFinishStage
  <2> QED
    BY <1>0, <1>2, <1>3, <1>15, <2>1, RetryAllowed DEF RetryStage
<1>16. CASE StopJob(j)
  BY <1>0, <1>1, <1>2, <1>3, <1>16, StopAllowed DEF StopJob
<1>17. CASE SkipOutreach(j) \/ CancelStage(j)
  BY <1>1, <1>2, <1>5, <1>17 DEF SkipOutreach, CancelStage,
     TERMINAL_STAGE_STATUSES
<1>18. CASE CancelSelf(j)
  BY <1>0, <1>2, <1>18, CancelAllowed DEF CancelSelf
<1>19. CASE \/ OpenBrowser(j) \/ ReleaseForReview(j) \/ Reacquire(j)
            \/ ReacquireLease(j) \/ CheckReacquired(j)
            \/ ReopenBrowser(j) \/ ResumeAfterReview(j) \/ Release(j)
  BY <1>1, <1>19 DEF OpenBrowser, ReleaseForReview, Reacquire, ReacquireLease,
     CheckReacquired, ReopenBrowser, ResumeAfterReview, Release
<1>20. CASE EndCancelled(j) \/ EndInError(j)
  BY <1>0, <1>2, <1>20, EndingAllowed DEF EndCancelled, EndInError
<1>21. CASE Killed(j)
  <2>1. CASE l = "wait"
    BY <1>0, <1>2, <1>3, <1>21, <2>1, WaiterAllowed DEF Killed
  <2>2. CASE l # "wait"
    BY <1>2, <1>21, <2>2 DEF Killed, Allowed
  <2> QED
    BY <2>1, <2>2
<1>22. CASE WaiterFails(j)
  BY <1>0, <1>2, <1>3, <1>22, WaiterAllowed DEF WaiterFails
<1>23. CASE RunnerFault(j) /\ ~WaiterFails(j)
  BY <1>1, <1>23 DEF RunnerFault, OpenBrowserFails, StageRaises, StageFails,
     ApprovalFails, ReleaseForReviewFails, ReacquireFails, ReopenBrowserFails,
     ReleaseUnconfirmed
<1> QED
  BY <1>4, <1>6, <1>7, <1>8, <1>9, <1>11, <1>13, <1>14, <1>15, <1>16, <1>17,
     <1>18, <1>19,
     <1>20, <1>21, <1>22, <1>23 DEF RunnerStep

\* What is kept about a job and the job it retries.
HistoryOK(k) ==
    /\ row[k].status # "absent" => StagesOf(row[k]) # {}
    /\ retryOf[k] # NoJob =>
          /\ row[k].status # "absent"
          /\ row[retryOf[k]].status \in {"failed", "partial_failed", "interrupted"}
          /\ \A s \in StagesOf(row[retryOf[k]]) :
                row[retryOf[k]].stages[s] \notin {"succeeded", "skipped"}
                    => s \in StagesOf(row[k])

HistoryInv == \A k \in Job : HistoryOK(k)

LEMMA CreateAllowed ==
    ASSUME NEW r \in Row, r.status = "absent", r.status = "absent" => r = NoRow,
           NEW campaign, NEW included, included \subseteq Stage, included # {}
    PROVE  Allowed(r, CreateJob(campaign, included))
<1>1. Becomes(r, CreateJob(campaign, included), "queued", included, "pending")
  BY DEF Becomes, CreateJob, NoRow
<1> QED
  BY <1>1 DEF Submitted, Allowed

\* A retry has something to run, and what its original did not complete.
LEMMA RetryStagesCover ==
    ASSUME NEW r \in Row, StagesOf(r) # {}, StagesOK(r)
    PROVE  /\ RetryStages(r) # {} /\ RetryStages(r) \subseteq Stage
           /\ \A s \in StagesOf(r) :
                 r.stages[s] \notin {"succeeded", "skipped"} => s \in RetryStages(r)
<1> DEFINE failed == {s \in Stage : r.stages[s] = "failed"}
<1>0. StagesOf(r) \subseteq Stage
  BY DEF StagesOf
<1>1. CASE r.campaign
  <2>1. \A s \in StagesOf(r) : s >= CollectStage
    BY <1>1, StageAssumption DEF StagesOK, StagesOf, Stage
  <2>2. RetryStages(r) = StagesOf(r)
    BY <1>1, <2>1 DEF RetryStages
  <2> QED
    BY <1>0, <2>2
<1>2. CASE ~r.campaign /\ failed = {}
  <2>1. RetryStages(r) = StagesOf(r)
    BY <1>2 DEF RetryStages
  <2> QED
    BY <1>0, <2>1
<1>3. CASE ~r.campaign /\ failed # {}
  <2>1. PICK f \in failed : TRUE
    BY <1>3
  <2>2. RetryStages(r) = {s \in StagesOf(r) : \E g \in failed : g <= s}
    BY <1>3 DEF RetryStages
  <2>3. f \in RetryStages(r)
    BY <2>1, <2>2 DEF StagesOf, Stage
  <2>4. ASSUME NEW s \in StagesOf(r), r.stages[s] \notin {"succeeded", "skipped"}
        PROVE  s \in RetryStages(r)
    <3>1. CASE f <= s
      BY <2>2, <3>1
    <3>2. CASE s < f
      <4>1. r.stages[s] \in Done
        BY <1>0, <2>1, <2>4, <3>2 DEF StagesOK, InOrder, Passed, StagesOf
      <4>2. s \in failed
        BY <1>0, <2>4, <4>1 DEF Done
      <4> QED
        BY <1>0, <2>2, <4>2 DEF Stage
    <3> QED
      BY <1>0, <2>1, <3>1, <3>2 DEF Stage
  <2>5. RetryStages(r) # {} /\ RetryStages(r) \subseteq Stage
    BY <1>0, <2>2, <2>3
  <2> QED
    BY <2>4, <2>5
<1> QED
  BY <1>1, <1>2, <1>3

\* Nothing but a restart changes the rows of more than one job, and what it
\* changes in one is a step of the contract, or no step of it.
LEMMA StepAllowed ==
    ASSUME TypeOK, JobInv, ServiceInv, HistoryInv, [Next]_vars, ~Restart
    PROVE  row' = row \/ \E j \in Job : \E n : SetRow(j, n) /\ Allowed(row[j], n)
<1> DEFINE Goal == row' = row \/ \E j \in Job : \E n : SetRow(j, n) /\ Allowed(row[j], n)
<1>0. \A j \in Job : row[j] \in Row /\ RowOK(row[j])
  BY DEF TypeOK, JobInv, JobOK
<1> SUFFICES Goal
  OBVIOUS
<1>1. ASSUME NEW j \in Job, NEW n, SetRow(j, n), Allowed(row[j], n)
      PROVE  Goal
  BY <1>1
<1>2. ASSUME row' = row
      PROVE  Goal
  BY <1>2
<1> HIDE DEF Goal
<1>3. ASSUME NEW j \in Job, RunnerStep(j) \/ RunnerFault(j)
      PROVE  Goal
  BY <1>1, <1>3, RunnerAllowed
<1>4. ASSUME NEW j \in Job, NEW campaign \in BOOLEAN, NEW included, included \subseteq Stage, included # {},
             row[j].status = "absent", SetRow(j, CreateJob(campaign, included))
      PROVE  Goal
  <2>1. row[j] = NoRow
    BY <1>4 DEF ServiceInv, RunnerOK, At, StatusAt
  <2> QED
    BY <1>0, <1>1, <1>4, <2>1, CreateAllowed
<1>5. ASSUME NEW j \in Job, Request(j)
      PROVE  Goal
  <2>1. CASE \E campaign \in BOOLEAN, included \in (SUBSET Stage) \ {{}} :
                CreatePipelineJob(j, campaign, included)
    <3>1. PICK campaign \in BOOLEAN, included \in (SUBSET Stage) \ {{}} :
              CreatePipelineJob(j, campaign, included)
      BY <2>1
    <3>2. included \subseteq Stage /\ included # {}
      OBVIOUS
    <3> QED
      BY <1>4, <3>1, <3>2 DEF CreatePipelineJob
  <2>2. CASE CancelJob(j)
    BY <1>0, <1>1, <2>2, CancelAllowed DEF CancelJob
  <2>3. ASSUME NEW k \in Job, RetryJob(j, k)
        PROVE  Goal
    <3>1. RetryStages(row[j]) \subseteq Stage /\ RetryStages(row[j]) # {}
      BY <1>0, <2>3, RetryStagesCover DEF RetryJob, HistoryInv, HistoryOK,
         ServiceInv, RunnerOK, At, StagesAt, StagesOK
    <3>2. row[j].campaign \in BOOLEAN
      BY <1>0 DEF Row
    <3> QED
      BY <1>4, <2>3, <3>1, <3>2 DEF RetryJob
  <2>4. CASE \E option \in Option : ReadDecision(j, option)
    BY <1>2, <2>4 DEF ReadDecision, KeepDb
  <2>5. CASE CommitDecision(j)
    BY <1>0, <1>1, <2>5, ResolveAllowed DEF CommitDecision
  <2> QED
    BY <1>5, <2>1, <2>2, <2>3, <2>4, <2>5 DEF Request
<1>6. CASE Claim
  <2>1. PICK j \in Job, a \in Account : j = disp.job /\ a = disp.account
    BY <1>6 DEF Claim, JobInv, DispatchOK
  <2>2. CASE CanClaim(row[j])
    <3>1. Becomes(row[j], ClaimJob(row[j], a), "running", {}, "none")
      BY <1>0 DEF Becomes, ClaimJob, Row
    <3>2. Allowed(row[j], ClaimJob(row[j], a))
      BY <2>2, <3>1 DEF Allowed, Claimed, CanClaim
    <3> QED
      BY <1>1, <1>6, <2>1, <2>2, <3>2 DEF Claim
  <2>3. CASE ~CanClaim(row[j])
    BY <1>2, <1>6, <2>1, <2>3 DEF Claim
  <2> QED
    BY <2>2, <2>3
<1>7. CASE DispatcherStep /\ ~Claim
  BY <1>2, <1>7 DEF DispatcherStep, Poll, EndScan, LeaseAccount,
     AccountUnavailable, Consider
<1>8. CASE \/ \E j \in Job : DeadlinePasses(j)
           \/ \E a \in Account : RetryQuarantinedRelease(a)
           \/ Shutdown \/ Exit \/ Crash \/ UNCHANGED vars
  BY <1>2, <1>8 DEF DeadlinePasses, RetryQuarantinedRelease, KeepDb, Shutdown,
     Exit, Crash, dbVars, vars
<1> QED
  BY <1>3, <1>5, <1>6, <1>7, <1>8 DEF Next

\* A job and its stages do not go away.
LEMMA RowsStay ==
    ASSUME TypeOK, JobInv, ServiceInv, HistoryInv, [Next]_vars, NEW k \in Job,
           row[k].status # "absent"
    PROVE  row'[k].status # "absent" /\ StagesOf(row'[k]) = StagesOf(row[k])
<1> DEFINE Stays(r, n) == n.status # "absent" /\ StagesOf(n) = StagesOf(r)
<1>1. ASSUME NEW r \in Row, r.status # "absent", NEW n, Allowed(r, n)
      PROVE  Stays(r, n)
  <2>1. CASE n.status = r.status /\ n.stages = r.stages
    BY <1>1, <2>1 DEF StagesOf
  <2>2. ASSUME NEW to, NEW S, NEW settled, Becomes(r, n, to, S, settled),
               to # "absent", settled # "none" \/ S = {}, \A s \in S : r.stages[s] # "none"
        PROVE  Stays(r, n)
    BY <2>2 DEF Becomes, StagesOf
  <2>3. ASSUME NEW last, NEW rest, Settled(r, n, last, rest),
               last # "none", rest # "none", n.status # "absent"
        PROVE  Stays(r, n)
    BY <2>3 DEF Settled, StagesOf, LiveStages, PendingStages, LiveStageStatus
  <2>a. \A s \in LiveStages(r) \cup PendingStages(r) : r.stages[s] # "none"
    BY DEF LiveStages, PendingStages, LiveStageStatus
  <2> HIDE DEF Stays
  <2>4. CASE Claimed(r, n) \/ Completed(r, n)
    BY <2>2, <2>4 DEF Claimed, Completed
  <2>6. CASE Begun(r, n) \/ Paused(r, n) \/ Resumed(r, n)
    <3>1. PICK s \in LiveStages(r) \cup PendingStages(r), to \in {"running", "waiting_decision"} :
              Becomes(r, n, to, {s}, to)
      BY <2>6 DEF Begun, Paused, Resumed
    <3> QED
      BY <2>2, <2>a, <3>1
  <2>7. CASE Ended(r, n)
    BY <1>1, <2>2, <2>7 DEF Ended, TERMINAL_STAGE_STATUSES
  <2>8. CASE Skipped(r, n) \/ AskedToCancel(r, n) \/ Interrupted(r, n)
    BY <1>1, <2>2, <2>8, <2>a DEF Skipped, AskedToCancel, Interrupted
  <2>5. CASE Failed(r, n) \/ CancelCompleted(r, n)
    BY <2>3, <2>5 DEF Failed, CancelCompleted
  <2> QED
    BY <1>1, <2>1, <2>4, <2>5, <2>6, <2>7, <2>8 DEF Allowed, Submitted
<1>2. CASE Restart
  <2>1. row'[k] = RecoverInterrupted(row[k]) /\ row[k] \in Row
    BY <1>2 DEF Restart, TypeOK
  <2>2. /\ Settles(row[k], row'[k])
        /\ row'[k].status = IF row[k].status \in ActiveJobStatus THEN "interrupted"
                                                                 ELSE row[k].status
    BY <2>1, RecoverSettles
  <2> QED
    BY <2>2 DEF Settles, StagesOf, LiveStageStatus, TERMINAL_STAGE_STATUSES
<1>3. CASE ~Restart
  <2>1. CASE row' = row
    BY <2>1
  <2>2. ASSUME NEW j \in Job, NEW n, SetRow(j, n), Allowed(row[j], n)
        PROVE  Stays(row[k], row'[k])
    BY <1>1, <2>2 DEF SetRow, TypeOK
  <2> QED
    BY <1>3, <2>1, <2>2, StepAllowed
<1> QED
  BY <1>2, <1>3

LEMMA OnlyRetriesLink ==
    ASSUME [Next]_vars
    PROVE  retryOf' = retryOf \/ \E j, k \in Job : RetryJob(j, k)
<1> USE DEF JustGoto, Write, WriteIf, KeepOthers, KeepApi, KeepProcess
<1>1. ASSUME NEW i \in Job, RunnerStep(i)
      PROVE  retryOf' = retryOf
  <2>1. CASE \/ Load(i) \/ NextStage(i) \/ NoStageLeft(i) \/ BeginStage(i)
             \/ CheckCancelled(i) \/ StageSucceeds(i) \/ NothingToAsk(i)
             \/ Finish(i) \/ SkipRest(i) \/ CheckFinished(i)
             \/ CloseFinished(i) \/ CheckFinal(i)
    BY <2>1 DEF Load, NextStage, NoStageLeft, BeginStage, CheckCancelled,
       StageSucceeds, NothingToAsk, Finish, SkipRest, CheckFinished,
       CloseFinished, CheckFinal
  <2>2. CASE \/ AskBefore(i) \/ AskAfter(i) \/ AskFailure(i) \/ AskReview(i)
             \/ PollDecision(i) \/ Expire(i) \/ ActOnAnswer(i)
             \/ RetryStage(i) \/ StopJob(i) \/ SkipOutreach(i)
             \/ CancelSelf(i) \/ CancelStage(i)
    BY <2>2 DEF AskBefore, AskAfter, AskFailure, AskReview, Ask, PollDecision,
       TakeResolution, Expire, ActOnAnswer, RetryStage, StopJob, SkipOutreach,
       CancelSelf, CancelStage
  <2>3. CASE \/ OpenBrowser(i) \/ ReleaseForReview(i) \/ Reacquire(i) \/ ReacquireLease(i)
             \/ CheckReacquired(i) \/ ReopenBrowser(i)
             \/ ResumeAfterReview(i) \/ EndCancelled(i) \/ EndInError(i)
             \/ Release(i) \/ Killed(i)
    BY <2>3 DEF OpenBrowser, ReleaseForReview, Reacquire, ReacquireLease,
       CheckReacquired, ReopenBrowser, ResumeAfterReview, EndCancelled,
       EndInError, Release, Killed
  <2> QED
    BY <1>1, <2>1, <2>2, <2>3 DEF RunnerStep
<1>2. ASSUME NEW i \in Job, RunnerFault(i)
      PROVE  retryOf' = retryOf
  BY <1>2 DEF RunnerFault, OpenBrowserFails, StageRaises, StageFails,
     ApprovalFails, WaiterFails, ReleaseForReviewFails, ReacquireFails,
     ReopenBrowserFails, ReleaseUnconfirmed
<1>3. ASSUME NEW i \in Job, Request(i) \/ DeadlinePasses(i)
      PROVE  retryOf' = retryOf \/ \E k \in Job : RetryJob(i, k)
  BY <1>3 DEF Request, CreatePipelineJob, CancelJob, ReadDecision,
     CommitDecision, DeadlinePasses
<1>4. ASSUME DispatcherStep \/ \E a \in Account : RetryQuarantinedRelease(a)
      PROVE  retryOf' = retryOf
  BY <1>4 DEF DispatcherStep, Poll, EndScan, LeaseAccount, AccountUnavailable,
     Consider, Claim, RetryQuarantinedRelease
<1>5. ASSUME Shutdown \/ Exit \/ Crash \/ Restart \/ UNCHANGED vars
      PROVE  retryOf' = retryOf
  BY <1>5 DEF Shutdown, Exit, Crash, Restart, dbVars, vars
<1> QED
  BY <1>1, <1>2, <1>3, <1>4, <1>5 DEF Next

LEMMA HistoryStep ==
    ASSUME TypeOK, JobInv, ServiceInv, HistoryInv, [Next]_vars
    PROVE  HistoryInv'
<1>1. ASSUME NEW j \in Job, NEW k \in Job, RetryJob(j, k)
      PROVE  HistoryOK(k)' /\ \A i \in Job \ {k} : retryOf'[i] = retryOf[i]
  <2>1. /\ row'[k] = CreateJob(row[j].campaign, RetryStages(row[j]))
        /\ row'[j] = row[j] /\ retryOf'[k] = j
        /\ row[j].status \in {"failed", "partial_failed", "interrupted"}
        /\ \A i \in Job \ {k} : retryOf'[i] = retryOf[i]
    BY <1>1 DEF RetryJob, SetRow, TypeOK
  <2>2. /\ RetryStages(row[j]) \subseteq Stage /\ RetryStages(row[j]) # {}
        /\ \A s \in StagesOf(row[j]) :
              row[j].stages[s] \notin {"succeeded", "skipped"} => s \in RetryStages(row[j])
    BY <2>1, RetryStagesCover DEF HistoryInv, HistoryOK, ServiceInv, RunnerOK,
       At, StagesAt, StagesOK, TypeOK
  <2>3. row'[k].status = "queued" /\ StagesOf(row'[k]) = RetryStages(row[j])
    BY <2>1, <2>2 DEF CreateJob, NoRow, StagesOf
  <2>4. retryOf'[k] \in Job
    BY <2>1
  <2> QED
    BY <2>1, <2>2, <2>3 DEF HistoryOK
<1>2. ASSUME NEW k \in Job, row[k].status = "absent", row'[k].status # "absent"
      PROVE  StagesOf(row'[k]) # {}
  <2>1. ~Restart
    BY <1>2 DEF Restart, RecoverInterrupted, ActiveJobStatus
  <2>2. PICK j \in Job : \E n : SetRow(j, n) /\ Allowed(row[j], n)
    BY <1>2, <2>1, StepAllowed
  <2>3. PICK n : SetRow(j, n) /\ Allowed(row[j], n)
    BY <2>2
  <2>4. j = k /\ row'[k] = n
    BY <1>2, <2>3 DEF SetRow, TypeOK
  <2>5. Submitted(row[k], n)
    BY <1>2, <2>3, <2>4 DEF Allowed, Claimed, Begun, Ended, Skipped, Paused,
       Resumed, AskedToCancel, Completed, Failed, CancelCompleted, Interrupted
  <2> QED
    BY <2>4, <2>5 DEF Submitted, Becomes, StagesOf
<1>3. ASSUME NEW k \in Job, retryOf'[k] = retryOf[k]
      PROVE  HistoryOK(k)'
  <2>1. HistoryOK(k)
    BY DEF HistoryInv
  <2>2. CASE row[k].status = "absent"
    BY <1>2, <1>3, <2>1, <2>2 DEF HistoryOK
  <2>3. CASE row[k].status # "absent"
    <3>1. row'[k].status # "absent" /\ StagesOf(row'[k]) = StagesOf(row[k])
      BY <2>3, RowsStay
    <3>2. CASE retryOf[k] = NoJob
      BY <1>3, <2>1, <2>3, <3>1, <3>2 DEF HistoryOK
    <3>3. CASE retryOf[k] # NoJob
      <4>1. PICK o \in Job : o = retryOf[k]
        BY <3>3 DEF TypeOK
      <4>2. row[o].status \in {"failed", "partial_failed", "interrupted"}
        BY <2>1, <3>3, <4>1 DEF HistoryOK
      <4>3. row'[o] = row[o]
        BY <4>2, EndedStep DEF TERMINAL_JOB_STATUSES
      <4> QED
        BY <1>3, <2>1, <2>3, <3>1, <3>3, <4>1, <4>3 DEF HistoryOK
    <3> QED
      BY <3>2, <3>3
  <2> QED
    BY <2>2, <2>3
<1> QED
  BY <1>1, <1>3, OnlyRetriesLink DEF HistoryInv

LEMMA History == Spec => [](TypeOK /\ JobInv /\ ServiceInv /\ HistoryInv)
<1>1. Init => TypeOK /\ JobInv /\ ServiceInv /\ HistoryInv
  <2>1. Init => HistoryInv
    BY DEF Init, HistoryInv, HistoryOK, NoRow
  <2> QED
    BY <2>1, InitInv, ServiceInit
<1>2. TypeOK /\ JobInv /\ ServiceInv /\ BooksInv /\ HistoryInv /\ [Next]_vars
         => HistoryInv'
  BY HistoryStep
<1> QED
  BY <1>1, <1>2, Service, PTL DEF Spec

\* A retry that create_retry_job accepted runs every stage its original did not
\* complete, and the original does not change any more.
THEOREM RetriesCover == Spec => []RetryCovers
<1>1. HistoryInv => RetryCovers
  BY DEF HistoryInv, HistoryOK, RetryCovers
<1> QED
  BY <1>1, History, PTL

LEMMA RecoveredRow ==
    ASSUME NEW r \in Row, RowOK(r)
    PROVE  LET n == RecoverInterrupted(r)
           IN  /\ n.status = IF r.status \in ActiveJobStatus THEN "interrupted"
                                                             ELSE r.status
               /\ n.stages = [s \in Stage |-> IF s \in LiveStages(r) THEN "failed"
                                                               ELSE r.stages[s]]
<1>1. CASE r.status \in ActiveJobStatus
  <2> DEFINE t == Settle(r, LiveStageStatus, "failed")
             c == CancelCheckpoint(t)
  <2>1. t \in Row /\ t.stages = [s \in Stage |-> IF r.stages[s] \in LiveStageStatus
                                                 THEN "failed" ELSE r.stages[s]]
    BY SettleType, StatusWords DEF Settle, Row
  <2>2. c \in Row /\ c.stages = t.stages
    BY <2>1, CancelCheckpointKeeps
  <2>3. RecoverInterrupted(r) = [c EXCEPT !.status = "interrupted"]
    BY <1>1 DEF RecoverInterrupted
  <2> HIDE DEF c, t
  <2> QED
    BY <1>1, <2>1, <2>2, <2>3 DEF Row, LiveStages
<1>2. CASE r.status \notin ActiveJobStatus
  <2>1. LiveStages(r) = {} /\ RecoverInterrupted(r) = r
    BY <1>2 DEF RowOK, RecoverInterrupted
  <2> QED
    BY <1>2, <2>1 DEF Row
<1> QED
  BY <1>1, <1>2

\* Every step of the service is a step of the contract, or no step of it.
LEMMA ContractStep ==
    ASSUME TypeOK, JobInv, ServiceInv, HistoryInv, [Next]_vars
    PROVE  [Contract!Next]_(Contract!vars)
<1>1. CASE Restart
  <2> DEFINE status == [i \in Job |-> row[i].status]
             stages == [i \in Job |-> row[i].stages]
  <2>1. ASSUME NEW i \in Job
        PROVE  /\ row'[i].status = IF status[i] \in Contract!ActiveJobStatus
                                   THEN "interrupted" ELSE status[i]
               /\ row'[i].stages = [s \in Contract!Stage |->
                      IF s \in Contract!Live(i) THEN "failed" ELSE stages[i][s]]
    <3> DEFINE r == row[i]
    <3>1. row'[i] = RecoverInterrupted(r) /\ r \in Row /\ RowOK(r)
      BY <1>1 DEF Restart, TypeOK, JobInv, JobOK
    <3>2. status[i] = r.status /\ stages[i] = r.stages
      OBVIOUS
    <3>3. Contract!Stage = Stage /\ Contract!Live(i) = LiveStages(r)
      BY <3>2 DEF Contract!Stage, Stage, Contract!Live, LiveStages,
         Contract!LiveStageStatus, LiveStageStatus
    <3>4. Contract!ActiveJobStatus = ActiveJobStatus
      BY DEF Contract!ActiveJobStatus, ActiveJobStatus
    <3> QED
      BY <3>1, <3>2, <3>3, <3>4, RecoveredRow
  <2> QED
    BY <2>1 DEF Contract!Recover, Contract!Next
<1>2. CASE ~Restart
  <2>1. CASE row' = row
    BY <2>1 DEF Contract!vars
  <2>2. CASE \E j \in Job : \E n : SetRow(j, n) /\ Allowed(row[j], n)
    BY <2>2, AllowedIsContract
  <2> QED
    BY <1>2, <2>1, <2>2, StepAllowed
<1> QED
  BY <1>1, <1>2

\* Every transaction of the store, the gate, the job service, the runners and
\* recovery is one step of the contract, or changes no status: in spite of
\* crashes, stage retries and races of answers with cancellations and expiries.
THEOREM ServiceImplementsContract == Spec => ImplementsContract
<1>1. Init => Contract!Init
  BY DEF Init, Contract!Init, NoRow, Contract!Stage, Stage
<1> QED
  BY <1>1, ContractStep, History, PTL DEF Spec, ImplementsContract,
     Contract!Spec
=============================================================================
