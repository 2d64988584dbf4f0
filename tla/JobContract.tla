---------------------------- MODULE JobContract -----------------------------
(***************************************************************************)
(* What a client of the job API may rely on, without dispatcher, runners,  *)
(* browsers, checkpoints or crashes: the statuses of a job and of its      *)
(* stages, and how they may change together.  PipelineJobs implements it.  *)
(***************************************************************************)
EXTENDS PipelineStates, Integers

CONSTANTS Job, NumStages

Stage == 1..NumStages

VARIABLES
    status,   \* the status of each job
    stages    \* the statuses of each job's stages, "none" for those it lacks

vars == <<status, stages>>

Live(j) == {s \in Stage : stages[j][s] \in LiveStageStatus}
Pending(j) == {s \in Stage : stages[j][s] = "pending"}
Running(j) == {s \in Stage : stages[j][s] = "running"}

\* One job and its stages change: stages of S become to.
Change(j, newStatus, S, to) ==
    /\ status' = [status EXCEPT ![j] = newStatus]
    /\ stages' = [stages EXCEPT ![j] =
          [s \in Stage |-> IF s \in S THEN to ELSE stages[j][s]]]

Init ==
    /\ status = [j \in Job |-> "absent"]
    /\ stages = [j \in Job |-> [s \in Stage |-> "none"]]

Submit(j) ==
    /\ status[j] = "absent"
    /\ \E S \in SUBSET Stage : S # {} /\ Change(j, "queued", S, "pending")

ClaimIt(j) == status[j] = "queued" /\ Change(j, "running", {}, "none")

\* Stages begin one after another, and only in a job nobody has cancelled.
Begin(j) ==
    /\ status[j] = "running" /\ Live(j) = {}
    /\ \E s \in Pending(j) :
          /\ \A t \in Pending(j) : s <= t
          /\ Change(j, "running", {s}, "running")

\* A stage also ends in a job that is being cancelled.
End(j) ==
    /\ status[j] \in {"running", "cancelling"}
    /\ \E s \in Running(j), to \in TERMINAL_STAGE_STATUSES :
          Change(j, status[j], {s}, to)

SkipPending(j) ==
    /\ status[j] \in {"running", "cancelling"} /\ Live(j) = {}
    /\ Change(j, status[j], Pending(j), "skipped")

Pause(j) ==
    /\ status[j] = "running"
    /\ \E s \in Live(j) : Change(j, "waiting_decision", {s}, "waiting_decision")

Resume(j) ==
    /\ status[j] = "waiting_decision"
    /\ \E s \in Live(j) : Change(j, "running", {s}, "running")

\* A job nobody works on is cancelled at once, a running one on its way.
AskToCancel(j) ==
    \/ /\ status[j] \in {"queued", "waiting_decision"}
       /\ Change(j, "cancelled", Live(j) \cup Pending(j), "cancelled")
    \/ status[j] = "running" /\ Change(j, "cancelling", {}, "none")

\* Success, full or partial, leaves no stage undone and agrees with what
\* became of the stages.
Complete(j) ==
    /\ status[j] = "running" /\ Live(j) \cup Pending(j) = {}
    /\ \/ /\ \A s \in Stage : stages[j][s] # "failed"
          /\ Change(j, "succeeded", {}, "none")
       \/ /\ \E s \in Stage : stages[j][s] \in {"failed", "skipped"}
          /\ Change(j, "partial_failed", {}, "none")

\* A failure settles the stage in progress; the rest is left or skipped.
Fail(j) ==
    /\ status[j] = "running"
    /\ status' = [status EXCEPT ![j] = "failed"]
    /\ \E rest \in {"pending", "skipped"} :
          stages' = [stages EXCEPT ![j] =
              [s \in Stage |-> IF s \in Live(j) THEN "failed"
                               ELSE IF s \in Pending(j) THEN rest
                               ELSE stages[j][s]]]

CompleteCancel(j) ==
    /\ status[j] = "cancelling"
    /\ status' = [status EXCEPT ![j] = "cancelled"]
    /\ \E last \in {"failed", "cancelled"} :
          stages' = [stages EXCEPT ![j] =
              [s \in Stage |-> IF s \in Live(j) THEN last
                               ELSE IF s \in Pending(j) THEN "cancelled"
                               ELSE stages[j][s]]]

Interrupt(j) ==
    /\ status[j] = "waiting_decision"
    /\ Change(j, "interrupted", Live(j), "failed")

\* After an outage every job that was in progress is interrupted.
Recover ==
    /\ status' = [j \in Job |-> IF status[j] \in ActiveJobStatus
                                THEN "interrupted" ELSE status[j]]
    /\ stages' = [j \in Job |-> [s \in Stage |->
          IF s \in Live(j) THEN "failed" ELSE stages[j][s]]]

Next ==
    \/ \E j \in Job :
          \/ Submit(j) \/ ClaimIt(j) \/ Begin(j) \/ End(j) \/ SkipPending(j)
          \/ Pause(j) \/ Resume(j) \/ AskToCancel(j) \/ Complete(j)
          \/ Fail(j) \/ CompleteCancel(j) \/ Interrupt(j)
    \/ Recover

Spec == Init /\ [][Next]_vars

\* Statuses only change the way models/pipeline_states.py allows.
Tabled ==
    \A j \in Job : status[j] # "absent" =>
        /\ status'[j] # status[j] =>
              <<status[j], status'[j]>> \in JOB_STATUS_TRANSITIONS
        /\ \A s \in Stage : stages'[j][s] # stages[j][s] =>
              <<stages[j][s], stages'[j][s]>> \in STAGE_STATUS_TRANSITIONS

FollowsTables == [][Tabled]_vars
=============================================================================
