---------------------- MODULE CampaignOutreachProperties ----------------------
(***************************************************************************)
(* What a campaign promises about the people it writes to.                 *)
(***************************************************************************)
EXTENDS CampaignOutreach

(* A channel is called at most once for a candidate, whatever became of the *)
(* call: not again when it failed or its outcome is unknown, not when the   *)
(* stage is retried, and never without its message row                      *)
(* (reserve_message, _execute_reserved_message).                            *)
OneCallPerChannel ==
    \A u \in User, c \in Channel :
        /\ calls[u][c] <= 1
        /\ calls[u][c] = 1 => message[u][c].status # "none"

(* What is sent was approved by somebody: the message of a candidate holds  *)
(* the text for the voice of a strategy that a review approved, in the      *)
(* version that was approved, and the candidate was qualified by a person   *)
(* and still is (_run_campaign_outreach, StrategyReviewService).            *)
SentWasApproved ==
    \A u \in User, c \in Channel :
        LET m == message[u][c]
        IN  m.status # "none" =>
                /\ cand[u].qualification = "qualified"
                /\ \E s \in approved[u] : /\ s.version = m.version
                                          /\ m.content = SentText(s, c)

(* A reviewer approves what the page showed: whatever the strategy stage or *)
(* another reviewer wrote meanwhile makes the approval a conflict           *)
(* (StrategyReviewStore._review).                                           *)
ApprovedAsSeen ==
    [][\A u \in User :
          approved'[u] # approved[u] /\ pc' = pc =>
              /\ strat[u] = screen[u]
              /\ strat'[u].text = screen[u].text]_vars

(* The private message follows a comment that went through, and a candidate *)
(* is contacted only by such a comment and stays qualified; the commits of  *)
(* the send, of the contact and of the next reservation may be apart        *)
(* (update_job_user and its trigger).                                       *)
DmFollowsComment ==
    \A u \in User :
        /\ message[u]["dm"].status # "none" =>
               cand[u].status = "contacted"
        /\ cand[u].status = "contacted" =>
               /\ cand[u].qualification = "qualified"
               /\ message[u]["comment"].status = "sent"

(* A run that fails or is stopped leaves at most the one message it was     *)
(* sending in the state sending; every other send is settled, whatever the  *)
(* channel did (finish_message).                                            *)
SendsAreSettled ==
    Cardinality({p \in User \X Channel :
                    message[p[1]][p[2]].status = "sending"}) <= retries + 1

(* docs/plans/2026-08-13-stage03-strategy-review-design.md: when the        *)
(* qualification, the platform or the templates of an approved strategy     *)
(* change after the approval, it is skipped before the send.  The comment   *)
(* is the first send of a row: the strategy can only have changed since the *)
(* page was read while a row before it was sent (_run_campaign_outreach).   *)
ChangedIsSkipped ==
    [][\A u \in User :
          calls'[u]["comment"] # calls[u]["comment"] =>
              strat[u].voice = snap[u].voice
              /\ strat[u].text = snap[u].text]_vars
=============================================================================
