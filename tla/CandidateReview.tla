--------------------------- MODULE CandidateReview ---------------------------
(***************************************************************************)
(* One candidate of a campaign: the pipeline_job_users row that AI and     *)
(* people write, and the audit rows people leave.  CanX is the WHERE       *)
(* clause of an UPDATE (with the checks before it), X the row it writes.   *)
(* The module is constant-level; the stages keep the rows in a variable.   *)
(*                                                                         *)
(* The row has two status columns: qualification_status, and the older     *)
(* status, which other code still writes alone.  SyncTrigger is the        *)
(* database trigger that keeps the two in step.                            *)
(***************************************************************************)
EXTENDS Naturals

QualificationStatus ==
    {"manual_review", "need_enrichment", "qualified", "rejected"}

\* What an AI may write; the other two are verdicts of people.
AiPending == {"manual_review", "need_enrichment"}
Verdict == {"qualified", "rejected"}

UserStatus == {"pending", "qualified", "rejected", "contacted"}

\* score names the assessment whose scores the row shows, 0 is none.
Candidate == [qualification : QualificationStatus,
              status : UserStatus,
              version : Nat,
              score : Nat]

\* A row as the collection leaves it.
NewCandidate == [qualification |-> "manual_review", status |-> "pending",
                 version |-> 0, score |-> 0]

-----------------------------------------------------------------------------
(* The two status columns                                                  *)

LegacyStatus(q) == IF q \in Verdict THEN q ELSE "pending"

QualificationOf(status) ==
    CASE status \in {"qualified", "contacted"} -> "qualified"
      [] status = "rejected" -> "rejected"
      [] OTHER -> "manual_review"

StatusFor(q, status) ==
    IF q = "qualified" /\ status = "contacted" THEN status
                                               ELSE LegacyStatus(q)

\* Seeded fault: the trigger forgets that a contacted user is qualified.
SyncWithoutContacted(before, after) ==
    IF before.qualification # after.qualification
    THEN [after EXCEPT !.status = StatusFor(after.qualification, @)]
    ELSE IF before.status # after.status
         THEN [after EXCEPT !.qualification =
                  IF after.status \in Verdict THEN after.status
                                              ELSE "manual_review"]
         ELSE after

\* AFTER UPDATE: a new qualification decides the status, and a status
\* written alone decides the qualification.
SyncTrigger(before, after) ==
    IF before.qualification # after.qualification
    THEN [after EXCEPT !.status = StatusFor(after.qualification, @)]
    ELSE IF before.status # after.status
         THEN [after EXCEPT !.qualification = QualificationOf(after.status)]
         ELSE after

-----------------------------------------------------------------------------
(* People                                                                  *)

ReviewAction == {"approve", "reject", "request_enrichment",
                 "complete_enrichment"}

TargetOf(action) ==
    CASE action = "approve" -> "qualified"
      [] action = "reject" -> "rejected"
      [] action = "request_enrichment" -> "need_enrichment"
      [] action = "complete_enrichment" -> "manual_review"

\* Seeded fault: the table lets a verdict be taken back.
VerdictsReversible(q) == QualificationStatus \ {q}

QualificationTransitions(q) ==
    IF q \in Verdict THEN {} ELSE QualificationStatus \ {q}

CanTransition(c, action, version) ==
    /\ version = c.version
    /\ TargetOf(action) \in QualificationTransitions(c.qualification)

TransitionCandidate(c, action) ==
    SyncTrigger(c, [c EXCEPT !.qualification = TargetOf(action),
                             !.status = LegacyStatus(TargetOf(action)),
                             !.version = @ + 1])

CanRelabel(c, version) == version = c.version

UpdateLabels(c) == [c EXCEPT !.version = @ + 1]

-----------------------------------------------------------------------------
(* AI, from what it read of the candidate before it asked the model        *)

\* Seeded fault: only the status the AI started from is compared.
CanUpdateByStatus(c, version, starting) ==
    c.qualification = starting /\ c.qualification \in AiPending

CanUpdateAi(c, version, starting) ==
    /\ c.version = version
    /\ c.qualification = starting
    /\ c.qualification \in AiPending

UpdateAiQualification(c, target) ==
    SyncTrigger(c, [c EXCEPT !.qualification = target,
                             !.status = LegacyStatus(target)])

-----------------------------------------------------------------------------
(* Outreach, which knows only the older column                             *)

UpdateJobUser(c, status) == SyncTrigger(c, [c EXCEPT !.status = status])
=============================================================================
