-------------------------- MODULE PipelineJobStore --------------------------
(***************************************************************************)
(* The durable half of the pipeline: what one transaction of               *)
(* PipelineJobStore and PipelineLiveStore does to the rows of one job.     *)
(* Each compare-and-swap UPDATE is a pair of operators: CanX is its WHERE  *)
(* clause, X the row it writes.  The module is constant-level; the state   *)
(* machines that call it keep the rows in a variable.                      *)
(*                                                                         *)
(* A job's row carries its stage rows and its latest decision checkpoint.  *)
(* Earlier checkpoints are terminal and never written again.               *)
(***************************************************************************)
EXTENDS PipelineStates, Accounts

CONSTANTS
    NumStages,      \* stages are the positions 1..NumStages of a pipeline
    CollectStage,   \* position of "collect", 0 when the pipeline has none
    FilterStage,    \* position of "filter", 0 when the pipeline has none
    OutreachStage   \* position of "outreach", 0 when the pipeline has none

ASSUME StageAssumption ==
    /\ NumStages \in Nat \ {0}
    /\ {CollectStage, FilterStage, OutreachStage} \subseteq 0..NumStages

Stage == 1..NumStages

DecisionKind == {"insufficient_evidence", "qualification_review",
                 "strategy_review", "retryable_failure", "account_blocked",
                 "manual_review_session"}

Option == {"continue_with_current_evidence", "skip_remaining_pipeline",
           "cancel_job", "open_review_workbench",
           "continue_with_qualified_only", "open_strategy_workbench",
           "approve_all_safe_drafts", "skip_outreach", "retry_once",
           "skip_stage", "stop_job", "review_complete"}

\* A decision a policy asks for: its kind, the options offered, the default.
Plan == [kind : DecisionKind, options : SUBSET Option, default : Option]

CheckpointStatus == {"pending", "resolved", "expired", "cancelled"}

Checkpoint == [id : Nat,
               kind : DecisionKind \cup {"none"},
               stage : 0..NumStages,
               options : SUBSET Option,
               default : Option \cup {"none"},
               status : CheckpointStatus \cup {"none"},
               resolution : Option \cup {"none"}]

Row == [status : JobStatus \cup {"absent"},
        campaign : BOOLEAN,
        account : Account \cup {NoAccount},
        current : 0..NumStages,
        stages : [Stage -> StageStatus \cup {"none"}],
        attempt : [Stage -> Nat],
        ckpt : Checkpoint]

NoCheckpoint == [id |-> 0, kind |-> "none", stage |-> 0, options |-> {},
                 default |-> "none", status |-> "none", resolution |-> "none"]

\* No row: the job has not been created.
NoRow == [status |-> "absent", campaign |-> FALSE, account |-> NoAccount,
          current |-> 0, stages |-> [s \in Stage |-> "none"],
          attempt |-> [s \in Stage |-> 0], ckpt |-> NoCheckpoint]

StagesOf(r) == {s \in Stage : r.stages[s] # "none"}

LiveStages(r) == {s \in Stage : r.stages[s] \in LiveStageStatus}

-----------------------------------------------------------------------------
(* Helpers for UPDATEs over several stage rows.                            *)

\* Every stage row whose status is in from becomes to.
Settle(r, from, to) ==
    [r EXCEPT !.stages =
        [s \in Stage |-> IF r.stages[s] \in from THEN to ELSE r.stages[s]]]

-----------------------------------------------------------------------------
(* Jobs                                                                    *)

\* A new job runs the given stages; the others are not part of it.
CreateJob(campaign, included) ==
    [NoRow EXCEPT
        !.status = "queued",
        !.campaign = campaign,
        !.stages = [s \in Stage |-> IF s \in included THEN "pending"
                                                      ELSE "none"]]

CanClaim(r) == r.status = "queued"

ClaimJob(r, a) == [r EXCEPT !.status = "running", !.account = a]

\* set_job_status for the runner's own endings, expected_statuses={running}.
CanClose(r) == r.status = "running"

CloseJob(r, status) == [r EXCEPT !.status = status]

-----------------------------------------------------------------------------
(* Stages                                                                  *)

\* Seeded fault: a stage starts whatever became of its job.
CanStartInAnyJob(r, s) == r.stages[s] \in {"pending", "failed"}

CanStartStage(r, s) ==
    /\ r.stages[s] \in {"pending", "failed"}
    /\ r.status = "running"

StartStage(r, s) ==
    [r EXCEPT !.stages[s] = "running",
              !.attempt[s] = @ + 1,
              !.current = s]

CanFinishStage(r, s) == r.stages[s] = "running"

FinishStage(r, s, to) == [r EXCEPT !.stages[s] = to]

CancelPendingStages(r) == Settle(r, {"pending"}, "cancelled")

SkipPendingStages(r) == Settle(r, {"pending"}, "skipped")

-----------------------------------------------------------------------------
(* Decisions: the two-row swap of job and stage, and the checkpoint row.   *)

CanPause(r, s) ==
    r.status = "running" /\ r.current = s /\ r.stages[s] = "running"

PauseForDecision(r, s) ==
    [r EXCEPT !.status = "waiting_decision", !.stages[s] = "waiting_decision"]

CanResume(r, s) ==
    /\ r.status = "waiting_decision"
    /\ r.current = s
    /\ r.stages[s] = "waiting_decision"

ResumeFromDecision(r, s) ==
    [r EXCEPT !.status = "running", !.stages[s] = "running"]

\* Seeded fault: only the job is interrupted.
InterruptJobOnly(r, s) == [r EXCEPT !.status = "interrupted"]

InterruptWaitingDecision(r, s) ==
    [r EXCEPT !.status = "interrupted", !.stages[s] = "failed"]

\* The unique index allows one pending checkpoint per job.
CanCreateCheckpoint(r) == r.ckpt.status # "pending"

CreateCheckpoint(r, s, plan) ==
    [r EXCEPT !.ckpt = [id |-> r.ckpt.id + 1, kind |-> plan.kind, stage |-> s,
                        options |-> plan.options, default |-> plan.default,
                        status |-> "pending", resolution |-> "none"]]

CanResolveCheckpoint(r, id) == r.ckpt.id = id /\ r.ckpt.status = "pending"

ResolveCheckpoint(r, option, source) ==
    [r EXCEPT !.ckpt.status = IF source = "timeout" THEN "expired"
                                                    ELSE "resolved",
              !.ckpt.resolution = option]

\* Without a pending checkpoint nothing is written.
CancelCheckpoint(r) ==
    IF r.ckpt.status = "pending" THEN [r EXCEPT !.ckpt.status = "cancelled"]
                                 ELSE r

-----------------------------------------------------------------------------
(* Cancellation and recovery                                               *)

\* Seeded fault: cancelling a waiting job leaves its question open.
RequestCancelKeepsQuestion(r) ==
    CASE r.status = "queued" ->
            [CancelPendingStages(r) EXCEPT !.status = "cancelled"]
      [] r.status = "waiting_decision" ->
            [Settle(r, {"waiting_decision", "pending"}, "cancelled")
                EXCEPT !.status = "cancelled"]
      [] r.status = "running" -> [r EXCEPT !.status = "cancelling"]
      [] OTHER -> r

\* queued and waiting jobs end here and now; a running one is only asked to
\* stop; any other status is left alone.
RequestCancel(r) ==
    CASE r.status = "queued" ->
            [CancelPendingStages(r) EXCEPT !.status = "cancelled"]
      [] r.status = "waiting_decision" ->
            [CancelCheckpoint(Settle(r, {"waiting_decision", "pending"},
                                     "cancelled"))
                EXCEPT !.status = "cancelled"]
      [] r.status = "running" -> [r EXCEPT !.status = "cancelling"]
      [] OTHER -> r

\* Seeded fault: recovery forgets the jobs that were being cancelled.
RecoverOnlyRunning(r) ==
    IF r.status \in {"running", "waiting_decision"}
    THEN [CancelCheckpoint(Settle(r, LiveStageStatus, "failed"))
            EXCEPT !.status = "interrupted"]
    ELSE r

\* Run over every job when the service starts.
RecoverInterrupted(r) ==
    IF r.status \in ActiveJobStatus
    THEN [CancelCheckpoint(Settle(r, LiveStageStatus, "failed"))
            EXCEPT !.status = "interrupted"]
    ELSE r
=============================================================================
