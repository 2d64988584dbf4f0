------------------------- MODULE PipelineDecisions --------------------------
(***************************************************************************)
(* Decision points of a pipeline: which decision the policy may ask for    *)
(* (pipeline_decision_policy.py) and the transactions of the gate that     *)
(* opens, resolves and abandons one (pipeline_decisions.py).               *)
(*                                                                         *)
(* A policy looks at business rows (candidate counts, strategy drafts)     *)
(* that are not modelled, so it is the set of plans it may return.         *)
(***************************************************************************)
EXTENDS PipelineJobStore

\* auto_timeout: every kind but the manual review session has a deadline.
AutoTimeout(kind) == kind # "manual_review_session"

StrategyReview(options) ==
    [kind |-> "strategy_review",
     options |-> {"open_strategy_workbench", "skip_outreach", "cancel_job"}
                     \cup options,
     default |-> "skip_outreach"]

\* Before outreach, when drafts are left; the batch option needs a safe one.
BeforePlans(r, s) ==
    IF r.campaign /\ s = OutreachStage
    THEN {StrategyReview({}), StrategyReview({"approve_all_safe_drafts"})}
    ELSE {}

InsufficientEvidence ==
    [kind |-> "insufficient_evidence",
     options |-> {"continue_with_current_evidence", "skip_remaining_pipeline",
                  "cancel_job"},
     default |-> "continue_with_current_evidence"]

QualificationReview ==
    [kind |-> "qualification_review",
     options |-> {"open_review_workbench", "continue_with_qualified_only"},
     default |-> "continue_with_qualified_only"]

AfterPlans(r, s) ==
    IF ~r.campaign THEN {}
    ELSE (IF s = CollectStage THEN {InsufficientEvidence} ELSE {})
         \cup (IF s = FilterStage THEN {QualificationReview} ELSE {})

\* The decision a failed stage asks for; retried says the one retry is used.
ErrorPlan(code, retried) ==
    IF code = "retryable"
    THEN [kind |-> "retryable_failure",
          options |-> {"skip_stage", "stop_job"}
                         \cup (IF retried THEN {} ELSE {"retry_once"}),
          default |-> IF retried THEN "skip_stage" ELSE "retry_once"]
    ELSE [kind |-> "account_blocked",
          options |-> {"skip_stage", "stop_job"},
          default |-> "skip_stage"]

ManualReviewSession ==
    [kind |-> "manual_review_session",
     options |-> {"review_complete"},
     default |-> "review_complete"]

-----------------------------------------------------------------------------

\* await_decision's first transaction; it is rolled back when either half
\* conflicts.
CanOpenDecision(r, s) == CanCreateCheckpoint(r) /\ CanPause(r, s)

OpenDecision(r, s, plan) == PauseForDecision(CreateCheckpoint(r, s, plan), s)

\* _resolve_once: resolve the checkpoint and resume the job, or neither.
CanResolveOnce(r, id) ==
    CanResolveCheckpoint(r, id) /\ CanResume(r, r.ckpt.stage)

ResolveOnce(r, id, option, source) ==
    IF CanResolveOnce(r, id)
    THEN ResumeFromDecision(ResolveCheckpoint(r, option, source),
                            r.ckpt.stage)
    ELSE r

\* _cleanup_waiting_checkpoint: a waiter that gives up withdraws the question
\* and puts the job back to running.
ResumeWaiting(r, s) ==
    LET cancelled == CancelCheckpoint(r)
    IN  IF CanResume(cancelled, s) THEN ResumeFromDecision(cancelled, s)
                                   ELSE cancelled

\* Its second attempt, after the first transaction failed and was rolled back.
InterruptWaiting(r, s) ==
    LET cancelled == CancelCheckpoint(r)
    IN  IF CanResume(cancelled, s) THEN InterruptWaitingDecision(cancelled, s)
                                   ELSE cancelled
=============================================================================
