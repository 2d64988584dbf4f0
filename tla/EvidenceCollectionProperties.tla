--------------------- MODULE EvidenceCollectionProperties ---------------------
(***************************************************************************)
(* What the collect stage may store.                                       *)
(***************************************************************************)
EXTENDS EvidenceCollection

(* A batch of keywords none of which failed is complete, within the budget  *)
(* and adds up, however the keywords shared pages, calls, time and the      *)
(* tracker: it is refused at most because pages merely visited, the authors *)
(* of a keyword together, or comments without a video count for more than   *)
(* the tracker counted (_collect_acquisition, _validate_acquisition_batch). *)
OwnBatchIsAccepted ==
    at = "batch" /\ failed = {} =>
        Complaints \subseteq {"explored", "all_authors", "comments"}

(* Nothing that a failed keyword found is stored: either the batch is       *)
(* refused as a whole, or the failure left no evidence and no use behind    *)
(* (_collect_acquisition, _run_acquisition_collect).                        *)
FailedLeavesNothing ==
    \A e \in stored.evidence : e.keyword \notin failed

(* A user some of whose evidence the agent had to leave out for a limit is  *)
(* never stored as a complete candidate because of the rest of what the     *)
(* agent found for the keyword (truncation_reasons_by_user,                 *)
(* Stage01CandidateAgent.persist).                                          *)
CutIsMarked ==
    \A c \in cut, e \in stored.evidence :
        c = <<e.keyword, e.sighting.user>> /\ e.sighting.source # "direct_user"
            => stored.status[e.sighting.user] = "needs_more_evidence"
=============================================================================
