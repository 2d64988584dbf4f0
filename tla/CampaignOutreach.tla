--------------------------- MODULE CampaignOutreach ---------------------------
(***************************************************************************)
(* Stages 03 and 04 of a campaign.  The strategy stage writes a strategy   *)
(* for every qualified candidate, the gate before the outreach stage asks  *)
(* about the drafts, and the outreach stage reads the approved strategies  *)
(* page by page, reserves a message for each send and calls the channels.  *)
(* People review candidates and strategies through the API meanwhile.      *)
(*                                                                         *)
(* Everything runs on one event loop.  The API acts where the stages await *)
(* (Yielding); a crash or a cancellation may come between any two commits. *)
(***************************************************************************)
EXTENDS CandidateReview, StrategyReview, FiniteSets

LOCAL INSTANCE FiniteSetsExt

CONSTANTS
    NumUsers,       \* the candidates of the job are 1..NumUsers
    PageSize,       \* how many rows one page reads
    CommentLimit,   \* comment_limit of the outreach stage
    DmLimit,        \* dm_limit of the outreach stage
    MaxVersion,     \* bound: people do not change strategies beyond it
    MaxRetries      \* how often a stage is run again; the policy allows 1

ASSUME OutreachAssumption ==
    /\ {NumUsers, PageSize} \subseteq Nat \ {0}
    /\ {CommentLimit, DmLimit, MaxVersion, MaxRetries} \subseteq Nat

User == 1..NumUsers

VARIABLES
    cand,       \* the database: pipeline_job_users
    strat,      \* the database: strategies
    message,    \* the database: messages, one per candidate and channel
    screen,     \* the strategy the reviewer's page shows of each candidate
    pc,         \* the runner: where it is
    stage,      \* the runner: the stage it is in, 3 or 4
    cursor,     \* the runner: after_user_id or after_strategy_id
    todo,       \* the runner: users of the page that are still to come
    snap,       \* the runner: the strategy each row of the page shows
    contacted,  \* the runner: rows whose user_status is contacted
    sending,    \* the runner: the channel it calls
    sent,       \* the runner: successes of this run, per channel
    retries,    \* the runner: runs after a failure
    calls,      \* the platform: how often a channel was called for a user
    approved    \* history: the strategies that a review approved

store == <<cand, strat, message>>
local == <<cursor, todo, snap, contacted, sending, sent>>
runner == <<pc, stage, local, retries>>
vars == <<store, screen, runner, calls, approved>>

MessageStatus == {"none", "sending", "sent", "failed", "uncertain"}

\* version is not a column: the strategy's version behind the content.
Message == [status : MessageStatus, content : Text, version : Nat]

NoMessage == [status |-> "none", content |-> Blank, version |-> 0]

AwaitingPc == {"idle", "agent", "gate", "decide", "review", "calling",
               "publish", "failed"}
EndedPc == {"done", "stopped"}
PcState == AwaitingPc \cup EndedPc \cup
           {"strategy", "outreach", "comment", "call", "contact",
            "dm"}

OutreachTypeOK ==
    /\ cand \in [User -> Candidate]
    /\ strat \in [User -> Strategy]
    /\ message \in [User -> [Channel -> Message]]
    /\ screen \in [User -> Strategy]
    /\ pc \in PcState
    /\ stage \in 3..4
    /\ cursor \in Nat
    /\ todo \in SUBSET User
    /\ snap \in [User -> Strategy]
    /\ contacted \in SUBSET User
    /\ sending \in Channel
    /\ sent \in [Channel -> Nat]
    /\ retries \in 0..MaxRetries
    /\ calls \in [User -> [Channel -> Nat]]
    /\ approved \in [User -> SUBSET Strategy]

Init ==
    /\ cand = [u \in User |-> NewCandidate]
    /\ strat = [u \in User |-> NoStrategy]
    /\ message = [u \in User |-> [c \in Channel |-> NoMessage]]
    /\ screen = [u \in User |-> NoStrategy]
    /\ pc = "idle"
    /\ stage = 3
    /\ cursor = 0
    /\ todo = {}
    /\ snap = [u \in User |-> NoStrategy]
    /\ contacted = {}
    /\ sending = "comment"
    /\ sent = [c \in Channel |-> 0]
    /\ retries = 0
    /\ calls = [u \in User |-> [c \in Channel |-> 0]]
    /\ approved = [u \in User |-> {}]

-----------------------------------------------------------------------------
Qualified == {u \in User : cand[u].qualification = "qualified"}

\* The first PageSize members of S in the order of key.
FirstPage(S, key(_)) ==
    {u \in S : Cardinality({w \in S : key(w) < key(u)}) < PageSize}

\* The last member of a page, and the first.
LastOf(S, key(_)) == CHOOSE u \in S : \A w \in S : key(w) <= key(u)
IsFirst(u, S, key(_)) == u \in S /\ \A w \in S : key(u) <= key(w)

UserId(u) == u
StrategyId(u) == strat[u].id
SnapId(u) == snap[u].id

KeepHistory == UNCHANGED <<screen, calls, approved>>

\* The local variables of a stage end with it.
LocalsEnd ==
    /\ cursor' = 0 /\ todo' = {}
    /\ snap' = [u \in User |-> NoStrategy] /\ contacted' = {}
    /\ sending' = "comment" /\ sent' = [c \in Channel |-> 0]

-----------------------------------------------------------------------------
(* Stage 03                                                                *)

StrategyStarts ==
    /\ pc = "idle" /\ stage = 3
    /\ pc' = "strategy"
    /\ UNCHANGED <<store, stage, local, retries>>
    /\ KeepHistory

\* The candidates of the next page of the strategy stage.
QualifiedPage ==
    FirstPage({u \in Qualified : u > cursor}, UserId)

ReadQualifiedPage ==
    /\ pc = "strategy"
    /\ IF QualifiedPage = {}
       THEN /\ pc' = "gate" /\ stage' = 4 /\ retries' = 0
            /\ LocalsEnd
       ELSE /\ pc' = "agent" /\ todo' = QualifiedPage
            /\ cursor' = LastOf(QualifiedPage, UserId)
            /\ UNCHANGED <<stage, retries, snap, contacted, sending, sent>>
    /\ UNCHANGED store
    /\ KeepHistory

AgentDone(u) ==
    /\ pc = "agent" /\ IsFirst(u, todo, UserId)
    /\ todo' = todo \ {u}
    /\ pc' = IF todo = {u} THEN "strategy" ELSE "agent"
    /\ UNCHANGED <<cand, message, stage, cursor, snap, contacted, sending,
                   sent, retries>>
    /\ KeepHistory

NextId == Cardinality({u \in User : strat[u].id # 0}) + 1

AgentSuggests(u, v) ==
    /\ AgentDone(u)
    /\ strat' = [strat EXCEPT ![u] = AddStrategy(@, NextId, v)]

AgentFails(u) == AgentDone(u) /\ UNCHANGED strat

-----------------------------------------------------------------------------
(* The gate between the stages                                             *)

Drafts == {u \in Qualified : strat[u].id # 0 /\ strat[u].status = "draft"}

Gate ==
    /\ pc = "gate"
    /\ pc' = IF Drafts = {} THEN "outreach" ELSE "decide"
    /\ UNCHANGED <<store, stage, local, retries>>
    /\ KeepHistory

OpenWorkbench ==
    /\ pc = "decide"
    /\ pc' = "review"
    /\ UNCHANGED <<store, stage, local, retries>>
    /\ KeepHistory

WorkbenchCloses ==
    /\ pc = "review"
    /\ pc' = "gate"
    /\ UNCHANGED <<store, stage, local, retries>>
    /\ KeepHistory

\* The runner reads the drafts and approves them without an await.
ApproveAll ==
    /\ pc = "decide"
    /\ pc' = "outreach"
    /\ strat' = [u \in User |->
                    IF u \in Drafts THEN ReviewStrategy(strat[u], "approved")
                                    ELSE strat[u]]
    /\ approved' = [u \in User |->
                    IF u \in Drafts THEN approved[u] \cup {strat'[u]}
                                    ELSE approved[u]]
    /\ UNCHANGED <<cand, message, stage, local, retries, screen, calls>>

\* skip_outreach, the default, and cancel_job.
NoOutreach ==
    /\ pc = "decide"
    /\ pc' = "done"
    /\ UNCHANGED <<store, stage, local, retries>>
    /\ KeepHistory

-----------------------------------------------------------------------------
(* Stage 04                                                                *)

\* Seeded fault: the page reads drafts too.
NotRejected ==
    {u \in Qualified : strat[u].id > cursor /\ strat[u].status # "rejected"}

Sendable ==
    {u \in Qualified : strat[u].id > cursor /\ strat[u].status = "approved"}

NextCursor(page) == strat[LastOf(page, StrategyId)].id

LimitsReached == sent["comment"] >= CommentLimit /\ sent["dm"] >= DmLimit

ReadOutreachPage ==
    /\ pc = "outreach"
    /\ LET page == FirstPage(Sendable, StrategyId)
       IN  IF LimitsReached \/ page = {}
           THEN pc' = "done" /\ LocalsEnd
           ELSE /\ pc' = "comment"
                /\ todo' = page
                /\ cursor' = NextCursor(page)
                /\ snap' = [u \in User |-> IF u \in page THEN strat[u]
                                                         ELSE NoStrategy]
                /\ contacted' = {u \in page : cand[u].status = "contacted"}
                /\ UNCHANGED <<sending, sent>>
    /\ UNCHANGED <<store, stage, retries>>
    /\ KeepHistory

\* The text that is sent: the neutral text, whatever the template says.
SentText(s, c) == Neutral(s.voice)[c]

\* Seeded fault: a message that was not delivered is reserved again.
CanReserveAgain(m) == m.status \in {"none", "failed", "uncertain"}

CanReserve(m) == m.status = "none"

\* A channel is called for a row when nothing speaks against it.
WantsComment == sent["comment"] < CommentLimit
WantsDm(u) == u \in contacted /\ sent["dm"] < DmLimit

Reserve(u, c) ==
    /\ CanReserve(message[u][c])
    /\ message' = [message EXCEPT ![u][c] =
                      [status |-> "sending", version |-> snap[u].version,
                       content |-> SentText(snap[u], c)]]
    /\ sending' = c
    /\ pc' = "call"
    /\ UNCHANGED <<cand, strat, stage, cursor, todo, snap, contacted, sent,
                   retries>>
    /\ KeepHistory

\* The row goes on without this channel; after the dm the next row follows.
Advance(u, c) ==
    IF c = "comment"
    THEN pc' = "dm" /\ UNCHANGED todo
    ELSE /\ todo' = todo \ {u}
         /\ pc' = IF todo = {u} THEN "outreach" ELSE "comment"

Pass(u, c) ==
    /\ Advance(u, c)
    /\ UNCHANGED <<store, stage, cursor, snap, contacted, sending, sent,
                   retries>>
    /\ KeepHistory

Current(u) == IsFirst(u, todo, SnapId)

Comment(u) ==
    /\ pc = "comment" /\ Current(u)
    /\ IF WantsComment /\ CanReserve(message[u]["comment"])
       THEN Reserve(u, "comment") ELSE Pass(u, "comment")

\* Seeded fault: the private message does not wait for the comment.
WantsDmAnyway(u) == sent["dm"] < DmLimit

Dm(u) ==
    /\ pc = "dm" /\ Current(u)
    /\ IF WantsDm(u) /\ CanReserve(message[u]["dm"])
       THEN Reserve(u, "dm") ELSE Pass(u, "dm")

CallChannel(u) ==
    /\ pc = "call" /\ Current(u)
    /\ pc' = "calling"
    /\ calls' = [calls EXCEPT ![u][sending] = @ + 1]
    /\ UNCHANGED <<store, stage, local, retries, screen, approved>>

\* finish_message settles a message that is being sent.
Finish(u, status) ==
    message' = [message EXCEPT ![u][sending].status =
                   IF @ = "sending" THEN status ELSE @]

ChannelSucceeds(u) ==
    /\ pc = "calling" /\ Current(u)
    /\ Finish(u, "sent")
    /\ IF sending = "comment"
       THEN pc' = "contact" /\ UNCHANGED <<todo, sent>>
       ELSE Advance(u, "dm") /\ sent' = [sent EXCEPT !["dm"] = @ + 1]
    /\ UNCHANGED <<cand, strat, stage, cursor, snap, contacted, sending,
                   retries>>
    /\ KeepHistory

\* Seeded fault: a channel that raised leaves its message as it is.
ChannelFailsUnsettled(u, status) ==
    /\ pc = "calling" /\ Current(u)
    /\ IF status = "failed" THEN Finish(u, status) ELSE UNCHANGED message
    /\ Advance(u, sending)
    /\ UNCHANGED <<cand, strat, stage, cursor, snap, contacted, sending,
                   sent, retries>>
    /\ KeepHistory

\* The channel returned false, or raised.
ChannelFails(u, status) ==
    /\ pc = "calling" /\ Current(u)
    /\ Finish(u, status)
    /\ Advance(u, sending)
    /\ UNCHANGED <<cand, strat, stage, cursor, snap, contacted, sending,
                   sent, retries>>
    /\ KeepHistory

MarkContacted(u) ==
    /\ pc = "contact" /\ Current(u)
    /\ cand' = [cand EXCEPT ![u] = UpdateJobUser(@, "contacted")]
    /\ contacted' = contacted \cup {u}
    /\ sent' = [sent EXCEPT !["comment"] = @ + 1]
    /\ pc' = "publish"
    /\ UNCHANGED <<strat, message, stage, cursor, todo, snap, sending,
                   retries>>
    /\ KeepHistory

Published ==
    /\ pc = "publish"
    /\ pc' = "dm"
    /\ UNCHANGED <<store, stage, local, retries>>
    /\ KeepHistory

-----------------------------------------------------------------------------
(* Failures                                                                *)

\* Exceptions of agents and channels are caught; those of the stage's own
\* transactions end it, wherever it has got to.
StageFails ==
    /\ pc \in {"strategy", "outreach", "comment", "dm", "calling",
              "contact"}
    /\ pc' = "failed"
    /\ LocalsEnd
    /\ UNCHANGED <<store, stage, retries>>
    /\ KeepHistory

\* retry_once: the runner runs the stage again, from its first page.
RetryStage ==
    /\ pc = "failed" /\ retries < MaxRetries
    /\ pc' = IF stage = 3 THEN "idle" ELSE "outreach"
    /\ retries' = retries + 1
    /\ UNCHANGED <<store, stage, local>>
    /\ KeepHistory

\* skip_stage, the default when there is no retry left, and an error that
\* nobody is asked about: the job goes on with the next stage.
SkipStage ==
    /\ pc = "failed"
    /\ pc' = IF stage = 3 THEN "gate" ELSE "done"
    /\ stage' = 4
    /\ retries' = IF stage = 3 THEN 0 ELSE retries
    /\ UNCHANGED <<store, local>>
    /\ KeepHistory

\* stop_job; or the process ends, or the runner's task is cancelled.
Stop ==
    /\ pc \notin EndedPc
    /\ pc' = "stopped"
    /\ LocalsEnd
    /\ UNCHANGED <<store, stage, retries>>
    /\ KeepHistory

-----------------------------------------------------------------------------
(* The API                                                                 *)

Yielding == pc \in AwaitingPc \cup EndedPc

KeepRunner == UNCHANGED <<message, runner, calls>>

\* The reviewer's page is current: CandidateFilter is about pages that are
\* not.  Candidates that stay pending concern no strategy.
ReviewCandidate(u, action) ==
    /\ Yielding
    /\ CanTransition(cand[u], action, cand[u].version)
    /\ cand' = [cand EXCEPT ![u] = TransitionCandidate(@, action)]
    /\ UNCHANGED <<strat, screen, approved>> /\ KeepRunner

OpenStrategy(u) ==
    /\ Yielding
    /\ u \in Qualified /\ strat[u].id # 0 /\ screen[u] # strat[u]
    /\ screen' = [screen EXCEPT ![u] = strat[u]]
    /\ UNCHANGED <<cand, strat, approved>> /\ KeepRunner

Versions == MapThenSumSet(LAMBDA u : strat[u].version, User)

\* StrategyReviewService._scope, and the bound.  The version comes from a
\* page that has shown the strategy.
Reviewable(u) ==
    /\ Yielding
    /\ u \in Qualified /\ screen[u].id # 0
    /\ Versions < MaxVersion

Edits(u, e) ==
    /\ Reviewable(u) /\ CanEdit(strat[u], screen[u].version)
    /\ strat' = [strat EXCEPT ![u] = EditStrategy(@, e)]
    /\ UNCHANGED <<cand, screen, approved>> /\ KeepRunner

Approves(u) ==
    /\ Reviewable(u) /\ CanReview(strat[u], screen[u].version)
    /\ strat' = [strat EXCEPT ![u] = ReviewStrategy(@, "approved")]
    /\ approved' = [approved EXCEPT ![u] = @ \cup {strat'[u]}]
    /\ UNCHANGED <<cand, screen>> /\ KeepRunner

Rejects(u) ==
    /\ Reviewable(u) /\ CanReview(strat[u], screen[u].version)
    /\ strat' = [strat EXCEPT ![u] = ReviewStrategy(@, "rejected")]
    /\ UNCHANGED <<cand, screen, approved>> /\ KeepRunner

-----------------------------------------------------------------------------
StrategyStep ==
    \/ StrategyStarts \/ ReadQualifiedPage
    \/ \E u \in User : AgentFails(u) \/ \E v \in Voice : AgentSuggests(u, v)

GateStep ==
    Gate \/ OpenWorkbench \/ WorkbenchCloses \/ ApproveAll \/ NoOutreach

OutreachStep ==
    \/ ReadOutreachPage \/ Published
    \/ \E u \in User :
           \/ Comment(u) \/ Dm(u) \/ CallChannel(u) \/ ChannelSucceeds(u)
           \/ \E status \in {"failed", "uncertain"} : ChannelFails(u, status)
           \/ MarkContacted(u)

ApiStep(u) ==
    \/ \E action \in {"approve", "reject"} : ReviewCandidate(u, action)
    \/ OpenStrategy(u) \/ Approves(u) \/ Rejects(u)
    \/ \E e \in Edit : Edits(u, e)

Next ==
    \/ StrategyStep \/ GateStep \/ OutreachStep
    \/ StageFails \/ RetryStage \/ SkipStage \/ Stop
    \/ \E u \in User : ApiStep(u)

Spec == Init /\ [][Next]_vars
=============================================================================
