---------------------- MODULE CandidateFilterProperties ----------------------
(***************************************************************************)
(* Who decides about a candidate, and what a slow model may still do.      *)
(***************************************************************************)
EXTENDS CandidateFilter

(* qualified and rejected are written by people only: the last decision     *)
(* among the audit rows of such a candidate is that verdict, whatever the   *)
(* AI suggested and whatever came after (update_ai_qualification,           *)
(* transition_candidate).                                                   *)
VerdictsArePeoples ==
    \A u \in User :
        cand[u].qualification \in Verdict =>
            \E i \in DOMAIN audits[u] :
                /\ audits[u][i].action # "update_labels"
                /\ audits[u][i].result = cand[u].qualification
                /\ \A k \in DOMAIN audits[u] :
                       k > i => audits[u][k].action = "update_labels"

(* An AI moves a candidate only on what it read after the last review: a    *)
(* reviewer who asked for enrichment and completed it, or only changed the  *)
(* labels, while the model was thinking is not overruled by its answer,     *)
(* although the row looks as it did before (update_ai_qualification).       *)
PeopleHavePriority ==
    [][\A u \in User :
          cand'[u].qualification # cand[u].qualification =>
              \/ audits'[u] # audits[u]
              \/ seen[u] = Len(audits[u])]_vars

(* The scores a candidate shows are those of the last assessment that was   *)
(* applied; an assessment that came too late is stored and leaves no trace  *)
(* on the row (process_candidate).                                          *)
ScoresAreApplied == \A u \in User : cand[u].score = applied[u]

(* The audit rows tell the whole story of the reviews: there is one for     *)
(* every version, none starts from a verdict except a relabelling, and      *)
(* between two of them only an AI moved the row, from one pending status    *)
(* to another.                                                              *)
AuditsExplain ==
    \A u \in User :
        LET trail == audits[u]
        IN  /\ Len(trail) = cand[u].version
            /\ \A i \in 1..(Len(trail) - 1) :
                   \/ trail[i + 1].before = trail[i].result
                   \/ {trail[i].result, trail[i + 1].before} \subseteq
                          AiPending
            /\ \A i \in DOMAIN trail :
                   trail[i].before \in Verdict =>
                       trail[i].action = "update_labels"

(* The stage ends: every task gets through the semaphore and every page     *)
(* moves the cursor on, whatever the reviewers do in the meantime.          *)
StageEnds == stage = "gather" ~> stage \in {"done", "failed"}
=============================================================================
