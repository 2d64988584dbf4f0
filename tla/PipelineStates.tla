--------------------------- MODULE PipelineStates ---------------------------
(***************************************************************************)
(* The status vocabulary of pipeline jobs and of their stages, and the     *)
(* transition tables that models/pipeline_states.py declares for both.     *)
(***************************************************************************)

TERMINAL_JOB_STATUSES ==
    {"succeeded", "partial_failed", "failed", "cancelled", "interrupted"}

\* A job that somebody has to be working for.
ActiveJobStatus == {"running", "waiting_decision", "cancelling"}

JobStatus == {"queued"} \cup ActiveJobStatus \cup TERMINAL_JOB_STATUSES

TERMINAL_STAGE_STATUSES == {"succeeded", "failed", "skipped", "cancelled"}

\* A stage that an execution is inside of.
LiveStageStatus == {"running", "waiting_decision"}

StageStatus == {"pending"} \cup LiveStageStatus \cup TERMINAL_STAGE_STATUSES

JOB_STATUS_TRANSITIONS ==
    ({"queued"} \X {"running", "cancelled"})
    \cup ({"running"} \X {"waiting_decision", "succeeded", "partial_failed",
                          "failed", "cancelling", "interrupted"})
    \cup ({"waiting_decision"} \X {"running", "cancelled", "interrupted"})
    \cup ({"cancelling"} \X {"cancelled", "interrupted"})

STAGE_STATUS_TRANSITIONS ==
    ({"pending"} \X {"running", "skipped", "cancelled"})
    \cup ({"running"} \X {"succeeded", "failed", "skipped", "cancelled",
                          "waiting_decision"})
    \cup ({"waiting_decision"} \X {"running", "failed", "cancelled"})
    \cup ({"failed"} \X {"running"})
=============================================================================
