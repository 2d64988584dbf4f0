# Formal model of the acquisition pipeline

TLA+ specifications of the Python service in `tiktok_bot_core/` and
`tiktok_bot_api/`, TLC instances that model-check them, and TLAPS proofs about
them.  File names below are relative to `src/`.

## 1. The system

One FastAPI process runs acquisition *jobs*.  A job is a list of *stages*
(`collect`, `filter`, `strategy`, `outreach`, `report`, `iterate`) executed for
one social account through one browser session.  All durable state is in SQLite;
every `with database.session()` block is one transaction.  Everything else (leases,
open browsers, runner coroutines, waiters) is memory of the process and is lost
with it.

| Part | Code | State it keeps | Operations | Hard behaviour |
|---|---|---|---|---|
| Status tables | `models/pipeline_states.py` | none | transition tables | every writer must stay inside them |
| Job store | `storage/pipeline_job_store.py` | job and stage rows | create, claim, status CAS, start/finish stage, pause/resume/interrupt for a decision, cancel, recover | two-row swaps that must not tear |
| Checkpoints | `storage/pipeline_live_store.py` | decision checkpoints, event log | create, resolve, cancel | one pending checkpoint per job |
| Decision policy | `services/pipeline_decision_policy.py` | none | which question to ask before, after and on failure of a stage | retry offered once |
| Decision gate | `services/pipeline_decisions.py` | waiters | ask, answer, expire, cancel, clean up | answer vs deadline vs cancel vs shutdown |
| Runner | `services/pipeline_jobs.py` `PipelineJobRunner` | locals of `run_job`, quarantined resources | run stages, act on answers, manual review, release | cancellation at every await, failing release |
| Dispatcher, runtime | same file | snapshot of the queue, tasks | poll, lease, claim, start, stop | stale snapshot, crash between claim and run |
| Job service | same file | none | create, cancel, retry | retry after partial failure |
| Concurrency manager | `services/pipeline_concurrency.py` | active accounts, slots per platform, quarantine | acquire, release, quarantine | a slot lost or returned twice |
| Account lease manager | `services/account_leases.py` | one lease per account key | acquire, release | only logins use it |
| Interactive login | `services/interactive_login.py` | managed login sessions | start, verify, cancel, expire, close | timeout, verification, cancellation and cleanup |
| Stage service | `services/pipeline.py` | paging cursors, pages and counters of the stages | filter, strategy, outreach | agents that answer late; message reserved, sent, then recorded |
| Candidates | `storage/acquisition_store.py`, `storage/pipeline_job_store.py`, trigger in `storage/database.py` | `pipeline_job_users` with two status columns, audits, assessments | review, relabel, AI write, contact | AI write vs human write; two columns that must agree |
| Strategy review | `services/strategy_review.py`, `storage/strategy_review_store.py` | strategies with status and version | edit, approve, reject, batch | approval of a text that has changed |
| Messages | `storage/sqlite_store.py` | one message per job, candidate and channel | reserve, finish | sent twice, or sent and not recorded |
| Outreach queue | `services/outreach_queue.py` and its store; no runner or endpoint uses it yet | queue items | prepare, authorize, claim, finalize | authorization that went stale |
| Campaigns | `services/acquisition_jobs.py` | campaigns, keywords | create | - |
| Collector | `plugins/collectors/keyword_collector.py`, `services/browse_agent.py`, `services/acquisition_agents.py`, `services/pipeline.py` | budget tracker, figures of keywords, the batch | search a keyword, merge, validate, store | several budgets shared by keywords that may fail, time out or be cut |
| Scheduler | `services/pipeline_scheduler.py` | schedules | fire due, edit | missed runs, edit during firing |
| LLM router, clients | `llm/` | circuits, client slots, telemetry queue | call, probe, replace client, prune, close | late result of an old generation; a client replaced under a call |
| Live events | `services/pipeline_live_events.py`, `services/browse_agent.py`, `tiktok_bot_api/pipeline_live.py`, `tiktok_bot_console/` | event log, queues of browse steps | record, stream, poll | records written by late threads; a stream that breaks between two events |
| API, read models, console | `tiktok_bot_api/main.py`, `services/business_read_model.py`, `tiktok_bot_console/` | none | validation, serialization, presentation | - |

How they interact: an API request writes job rows directly (create, cancel,
answer, retry).  The dispatcher polls the rows, leases an account from the
concurrency manager, claims the job and starts a runner task.  The runner calls
the stage service, asks the decision gate, and shares the rows with API requests
and the account with the dispatcher.  Answers reach a waiting runner through the
checkpoint row.  What the properties are about is in each case a race between
two of these, or a failure between two of their steps; `PROJECT.json` lists every
such hazard at its line.

## 2. Modules

| Module | Models | Kind |
|---|---|---|
| `PipelineStates` | status sets and transition tables | constant |
| `Accounts` | accounts, their platforms and the limits | constant |
| `PipelineJobStore` | what one store transaction does to the rows of a job: `CanX` is the WHERE clause of a compare-and-swap, `X` the row it writes | constant |
| `PipelineDecisions` | the plans of the policy and the gate's transactions, composed of the store's | constant |
| `ConcurrencyManager` | the manager's three variables, one action per method | component |
| `PipelineJobs` | runner, dispatcher, gate, requests, process; conjoins the manager's actions with its own | state machine |
| `PipelineJobsProperties` | the properties, and the refinement mapping | properties |
| `JobContract` | what a client may rely on: statuses of jobs and stages only | abstract specification |
| `AccountLeases` | the lease manager of the logins, one action per method | component |
| `InteractiveLogin` | login sessions and the shutdown of their service; conjoins the lease manager's actions | state machine |
| `InteractiveLoginProperties` | its properties | properties |
| `CandidateReview` | what one write of an AI, a person or the outreach does to a candidate row, with the database trigger | constant |
| `CandidateFilter`, `CandidateFilterProperties` | the filter stage with its tasks, and reviewers | state machine, properties |
| `StrategyReview` | what one write does to a strategy row | constant |
| `CampaignOutreach`, `CampaignOutreachProperties` | strategy stage, gate, outreach stage and reviewers, on candidate, strategy and message rows | state machine, properties |
| `OutreachLedger` | what the outreach queue promises of each item that may be sent | abstract specification |
| `OutreachQueue`, `OutreachQueueProperties` | prepare, authorize, skip, cancel, the executors' claims and reports, and the reviewers of the strategies; refinement mapping to the ledger | state machine, properties |
| `EvidenceBudget` | `ExplorationBudgetTracker`: what one observation consumes, reaches or is refused for | constant |
| `EvidenceCollection`, `EvidenceCollectionProperties` | the collect stage: collector, browse agent, plain search, batch | state machine, properties |
| `LLMRouter`, `LLMRouterProperties` | routing, circuits, client slots, pruning, telemetry and close | state machine, properties |
| `LiveEvents`, `LiveEventsProperties` | recording of job, decision and browse events; the stream and the polls of a page | state machine, properties |
| `MCPipelineJobs`, `MCInteractiveLogin`, `MCCampaignOutreach`, `MCOutreachQueue`, `MCLLMRouter`, `MCEvidenceCollection` | finite constants | model checking |
| `PipelineJobsProofs` | lemmas about the store, the inductive invariants, the theorems about jobs, the refinement of `JobContract` | proofs |
| `InteractiveLoginProofs` | the same about logins | proofs |
| `CandidateFilterProofs` | the writes of a candidate row, and the filter stage | proofs |
| `CampaignOutreachProofs` | the strategy and outreach stages | proofs |
| `OutreachQueueProofs` | the outreach queue and its refinement of the ledger | proofs |
| `LLMRouterProofs` | circuits and clients of the router | proofs |
| `LiveEventsProofs` | what is recorded of a job, and what its page is given | proofs |
| `EvidenceCollectionProofs` | sums over the keywords, and the collect stage | proofs |

### State and code

`row[j]` is the job row with its stage rows and its latest checkpoint (earlier
checkpoints are terminal and no code writes them again).  `pc[j]` is where the
coroutine `run_job(j)` is, `run[j]` its local variables (`stage`, `retry_count`,
`error_code`, `stage_status`, `failed_stages`, `skip_remaining`), `lease[j]` and
`browser[j]` its `owned_lease` and `browser_session`, `stuck` the keys of
`_quarantined_resources`.  `disp` is the frame of `dispatch_once`.  `answer[j]`
is an API request between `resolve`'s read and its write.  `due` are the jobs
whose pending checkpoint's deadline has passed: time itself is not counted, a
deadline may pass at any moment after the question was asked.

`login[s]` is the `_ManagedLoginSession` of one token.  `start`, `op`, `cleanup`
and `timer` say where the coroutines of `start`, `_run_verify`,
`_cleanup_resources` and `_expire_when_due` are; `reaper` and `maintain` that a
task of `_reap_open_result` or `_cleanup_terminal_after_operation` exists;
`commit` is the account update.  `open` is the browser as it is in the world,
`browser` whether the session knows of it: the two differ exactly when a browser
may be forgotten.  `due` says that `expires_at` has passed.  `closer` is where
`_run_close` is, `incomplete` its local variable.  Each wait of `_run_close` is
bounded by a timeout, so none of its steps waits for what it asked for.

`task[u]` of `CandidateFilter` is the coroutine `process_candidate` of candidate
`u` with what its page read (version, status, scores); `after` is
`after_user_id`; `screen[u]` is the review version of the page a reviewer looks
at.  `pc` and `stage` of `CampaignOutreach` are the runner inside
`_run_campaign_strategy`, the loop around `before_stage("outreach")` and
`_run_campaign_outreach`; `cursor`, `todo`, `snap`, `contacted` and `sent` are the
local variables of the stage: the last id, the rows of the page, the columns read
with them, `user_status` and the two counters.  `sending` is the channel of the
reserved message.  `calls` and `approved` are history: what the platform was asked
to do and what a review approved.

`strat`, `item` and `job` of `OutreachQueue` are rows.  A claim of an executor has two
halves, as in `claim_next`: `picked` is the id it has read, `work` the row its
compare-and-swap gave it; reports may be repeated.  `approved`, `granted` and `handed`
are history: what reviews approved, operators authorized and executors were given.

`req[r]` of `LLMRouter` is a request with the configurations it read (`read`), the
positions of the route that are left to try (`rest`; a provider that the route names
twice is kept where it comes first), the attempts and the lease of the circuit and
client it uses.  The
code numbers the generations of a circuit; a number only ever tells whether a lease
is still of the current one, so the model keeps that with the lease (`current`).
`slots` are the clients of a provider, `active` the one for new calls; a slot whose
client was closed may be used again, and does not remember that.

`events` of `LiveEvents` is the log of one job, and the position of an event its
sequence number.  `queue` belongs to the running `_OrderedBrowseTelemetry`; `thread`
has the record that each run has in a worker thread, also after the run gave up
waiting for it.  `stream` is the page the generator is sending, `client` and `got`
belong to the console.

`at` of `EvidenceCollection` is where the stage is, `agent` the locals of
`BrowseAgent._run` for one keyword, `budget` and `totals` those of the collector,
`merged` the candidates of all keywords, `metrics` the figures of each keyword.  The
clock counts ticks; one tick past `MaxTime` stands for all later times.  An observation
carries the number that the tracker gave it when it was accepted, in place of its position
in the lists of the code, so what was found is a set and no two observations are confused.
`failed` and `cut` are history: keywords whose search raised, and users of refused
observations.

### Atomicity

An action is one database transaction or one external await with the code up to
the next one.  asyncio would allow coarser steps (no switch without an await);
the finer grain also covers API handlers that run in worker threads and a second
writer of the database, so what holds here holds for the event loop.  `Killed` is the
`CancelledError` a runner receives at an await when the runtime stops; a crash
may happen anywhere.  After a crash browsers are assumed to be gone with the
process that drove them.

In `InteractiveLogin` an action is the code between two awaits: no critical
section of `managed.lock`, of `_lifecycle_lock` or of the lease manager contains
an await, so none is ever contended.  A start request is cancelled only by the shutdown.

In `CandidateFilter` and `CampaignOutreach` too: the API handlers are coroutines
with synchronous transactions on the loop of the runner, so they act where a
stage awaits (`Yielding`) and nowhere else.  The runner's steps are finer where a
crash, a cancellation or a failing commit can come between two transactions.  An
`approve_batch` of the API is a sequence of approvals.

In `OutreachQueue` reviews, prepare, authorize, skip and cancel are synchronous
functions of one process; executors may be anywhere, so they interleave between the two
halves of a claim.  In `LLMRouter` and `LiveEvents` a step goes from one await that
really suspends to the next; database work in threads has its own steps, and a
thread goes on after the coroutine that waited for it was cancelled.  In
`EvidenceCollection` every wait may take time, fail or be cancelled.

### Data that is abstracted

The business counts a policy reads become a choice among the plans it may return;
the error code of a failed stage is one of "retryable", "blocked", "other";
the work of a stage succeeds, reports an error or raises.  Account mode and queue
order become a choice of the next queued job and candidate account.  Telemetry
writes are left out: they are caught and change no row of the model.

The scores of a candidate are the number of the assessment they come from.  A
*voice* stands for persona and strategy type, and for the neutral text the project
owns for it; `Neutral` is `render_safe_campaign_strategy`.  A template is such a text,
a text of a person, or empty; texts that the contract refuses are not
enumerated because every writer refuses them.  The version behind a message is
recorded although the table has no such column.

What the language model decides is a choice among the actions it may ask for, and what
it claims to see a choice among a few sightings: comments of which it names the video
only by the page's address, and videos of a profile.  An answer of a provider is a
success, a failure worth another try, a final failure or a cancellation.  An event is
its type with the run and the step it tells of.

## 3. Runs

| Run | Instance | Question |
|---|---|---|
| `one_job` | 1 job, 1 account, 2 stages (collect, outreach), all faults, reviews below the third checkpoint, fair | Do job, stages, question, runner and browser stay together through decisions, cancellation, failures, shutdown, crash and restart, implement `JobContract`, and complete? |
| `two_jobs` | 2 jobs, 2 accounts, limit 1, 2 stages (collect, filter), crashes and browsers that cannot be closed, reviews below the third checkpoint, symmetric | One browser per account? Are the manager's books right? Does a retry cover everything an interruption left undone? |
| `login` | 2 login sessions for one account, every fault, shutdown, fair | Do browser, lease, account update and the end of a session stay together, does every session end unless its browser cannot be closed or its operation and its cleanup wait for each other, and is a closed service quiet? |
| `filter` | 2 candidates in one page, one agent at a time, 2 reviews, the stage is run again once, fair | Who decides when reviewers and late agents race? Do the audit rows explain the candidate, and does the stage end? |
| `outreach` | 2 candidates in one page, limits of 1, both stages are run again once, `MaxVersion` 2 | Is what is sent what was approved, to nobody twice, comment first, and accounted for? |
| `queue` | 1 candidate with two channels, 2 executors, `MaxVersion` 3, symmetric | Do executors get what was approved and authorized, once? Does the queue implement `OutreachLedger`? |
| `router` | 1 provider, 2 requests, threshold 2, 2 attempts, 2 configurations, 2 slots, fair | Is every probe answered, does no late report count, and are clients closed after their calls, and in the end? |
| `live` | 2 runs of 2 steps that end or are cancelled, one decision, queue of 2, pages of 2, limit of 1 frequent event, fair | Does the page get every event once and in order, and learn of the end? Are runs and decisions told truly? |
| `collect` | 2 keywords, users, videos and comments; 3 observations, 3 pages, 3 or 4 calls, 2 steps | Does what the keywords used add up to a batch that is accepted? What is stored of keywords that failed, and of users some of whose evidence was kept and other refused? |
| `login_commit` | 1 session | violated, see Findings |
| `login_late_browser` | 1 session, shutdown | violated, see Findings |
| `outreach_stale` | as `outreach`, `MaxVersion` 3, limit of 2 comments, no stage is run again | violated, see Findings |

The runs that pass have between 100,000 and 2.1 million states.  Deadlock is checked in
`one_job` and `two_jobs`, where the service never stops; in the others the sessions,
stages, queues and logs may be through, and nothing is left to do.

`Faults` of `PipelineJobs` says which failures the environment shows; `MaxCheckpoints` stops
a person from opening yet another review (a review ends in the same question again,
so the number of checkpoints of a job is unbounded in the code; after the second one
nothing new happens).  Collect asks after its work and outreach before it; the question
of filter differs from that of collect in its options only, and stages without a
question behave like these when nothing is asked (a third stage was checked too,
without fairness: 1.5 million states).

In `two_jobs` both stages ask, so either job may give its account back for a manual
review; the limit of one is then free for the other job, and with two accounts the
reviewed job may find its own account taken, quarantined, or free under a full limit.
Two runners are alive at once, the dispatcher's snapshot goes stale between them, and
a quarantined account may come free late.  A job may also be the retry of the other,
of which a crash left both stages undone, or one failed and one that never
began.  Shutdowns and stages that fail by themselves are left to `one_job`: here a
crash fails them.  (With shutdowns too it was checked once: 4.3 million states.)  Three
jobs on three accounts with a limit of two were checked with a single stage that asks
nothing; they show nothing else of the manager's books, which are proved for any
number.

Two sessions that share one key are enough for the lease manager, whose guards look at
one key at a time; sessions for different keys share nothing but the shutdown.

Pages of 100 rows become one of two, which holds what a page is about: a row that
waits, with what was read of it, while the row before it is worked on.  (Pages of one
row, and three candidates in pages of two, were checked as well; they take longer
and show nothing else.)  `MaxReviews` bounds the reviews of all candidates together;
two are the least that ask for enrichment and complete it behind an agent's back.
`MaxVersion` stops people, not stages, from changing strategies any further; in the
stages it bounds the versions of both strategies together.  Two are the least that edit
one and approve it, or approve both.  Three are the least that approve both rows of a
page and edit the second while the first is sent, as `outreach_stale` does; `outreach`
was checked with three once (5.1 million states), and `OnlyApproved` is proved for any
number.  In the queue three let a strategy be approved again after its outreach was
authorized.  One voice and no text of people are enough in the stages: an edit can
still empty a template, and what is sent depends on the voice alone.  `MaxRetries` is
1 in the code too.

Providers share nothing but the order of the chain, so the circuits and clients of one
show what two requests can do to each other; going on to the next provider is modelled,
but the instance has one.  A threshold of two tells one failure from the one that opens
the circuit; two configurations and slots make one replacement under a call.  Two runs
of the browse agent are the least of which the first can be late.  In `collect`
the limits of one (per keyword, video and author) are met by every second sighting and
the total limit by the third observation; the pages, calls and steps let the agent come
back from a keyword by every reason the code has.

### Properties

About rows that several transactions of several actors write: `DecisionAligned`,
`TerminalQuiescent`.  `NoOrphan`, `WorkOwnsBrowser` and `AnswerObeyed` tie the rows to the
runner; `NoWorkAfterCancel` says what a runner that is behind may not do any more;
`ImplementsContract` that clients see stages in order, honest ends and allowed
transitions only; `OneBrowserPerAccount` and `LeaseAccounting` are about leases,
quarantine and limits, `RetryCovers` about a retry.  `CancelCompletes`,
`TimedDecisionSettles` and `AccountReturned` are about what must happen in the end.
Each property is stated with its meaning in its `...Properties` module.  The operators
commented "Seeded fault" are mutated forms of the definition next to them; the model
never uses them, each breaks the property it is listed for.

`LeaseCoversBrowser`, `CommitStartsLive` and `EndStands` relate the session to
the browser, the lease and the account update while a verification, a timeout, a
cancellation, a late browser and a failing close race each other;
`ClosedIsQuiet` says what a successful `aclose()` means, and `SessionEnds` that
the timeout and the maintenance are enough to return an account whatever the
person does, but for two cases: a browser that cannot be closed, and an operation and
a cleanup that wait for each other (`MutualWait`).

`PeopleHavePriority` is the rule that an AI never overrules a review it has not
seen, also when the row looks as before (the ABA case of `complete_enrichment`),
and `VerdictsArePeoples` and `AuditsExplain` relate the candidate row
to the audits.  `SentWasApproved`, `ApprovedAsSeen` and
`DmFollowsComment` follow one text from suggestion over review to the platform;
`OneCallPerChannel` and `SendsAreSettled` are about stages that fail
between reservation, call and record.

`HandedWasGranted` follows one text from review over prepare and authorize to an
executor, across edits between any two of them; `ImplementsLedger` adds that an item
is handed out and settled once.

`ProbesAreAnswered` excludes a circuit that waits for ever for a probe that was
cancelled, `OnlyProbesClose` one that is closed by an answer from before it
opened.  `ClientsOutliveCalls` and `ReplacedClientsClose` are the two sides of the
client slots: never too early, and in the end.

`NothingIsMissed` and `EndIsLearned` are about the hand-over from stream to polls;
`RunsAreTold` about records that are merged, dropped, limited or late (a run that is
cancelled makes no last record, and its steps are written all the same), and
`DecisionIsTold` about records that fail and are asked for again.

`OwnBatchIsAccepted` says that the collector's bookkeeping passes the service's own
validation, but for the cases its comment names; `FailedLeavesNothing` that evidence of a
failed keyword is not stored; `CutIsMarked` that a limit the agent met follows the
user into the candidate row, if the agent kept other evidence of the user for that
keyword (what happens otherwise is under Findings).

### Findings

- `CommitDecides` (run `login_commit`).  `verify()` expires a due session without
  looking at `commit_task`, unlike `status()` and `_expire_when_due`.  A second
  verify request after the deadline and during the account update expires the
  session, closes its browser and releases its lease; when the update succeeds
  the first request fails with `InvalidLoginTransition`.  `docs/wiki/10` (lines
  68 to 72) and `docs/wiki/11` (186 to 188) rule this out.
- `CloseLeavesNoBrowser` (run `login_late_browser`).  During the grace period of
  `_cancel_open_or_reap` there is no reaper yet.  `_run_close` takes such a session
  for one without a browser: it marks the browser cleaned up and releases the
  lease, and the browser that opens afterwards is never closed; the next
  `aclose()` reports success.  It happens when the provider does not obey the
  cancellation of `open_interactive_login` at once, with a single `aclose()` too,
  since its wait for the start requests ends before their equally long grace
  period.  `docs/wiki/11` (lines 182 to 183 and 190 to 192) rules this out; the
  test of the reaper closes the service only after the grace period.

These two were reproduced with the service itself and a fake provider.

- `ChangedIsSkipped` (run `outreach_stale`).  The outreach stage reads a page of up
  to 100 approved strategies in one query and sends all of them from that
  snapshot.  A strategy that is edited while an earlier row is being sent is a
  draft again and is sent all the same, in the version that was approved before
  (`SentWasApproved` holds).  The run shows it of the first send of the second row: its
  comment.  `docs/plans/2026-08-13-stage03-strategy-review-design.md`
  (line 76) says that such a strategy is skipped before it is sent.

Some more behaviour is not what a reader of the code may expect; the
model shows it, and the properties are stated around it.

- A provider may answer the cancellation of `verify_interactive_login` or
  `persist_interactive_login` with another error than `CancelledError`.  Then
  `_run_verify` calls `_fail_and_cleanup`, which waits for the cleanup task
  (`interactive_login.py:1354`), and the cleanup task waits for the operation that it
  has cancelled once and does not cancel again (lines 1373 to 1377).  Both wait for
  ever, and the account stays leased until the process ends; closing the service does
  not end it either, it only reports that the cleanup is incomplete.  `docs/wiki/10`
  (line 257) says that a cancellation, timeout or shutdown cancels the operation, closes
  the browser and releases the lease.  `SessionEnds` names the case (`MutualWait`).

- A keyword whose search failed gets figures of zero when a limit explains it, and
  after the last planned keyword `max_keywords` always does; so a batch in which
  searches failed, even all of them, may be stored as a success.  The comment at
  `keyword_collector.py:352` speaks of keywords that were not searched.
- A run of the agent that ends a moment after the deadline is refused as a whole
  (`keyword_collector.py:213`): its evidence and what it used are lost.
- The reasons why evidence of a user was refused are dropped when nothing else of him
  was accepted for the keyword (`acquisition_agents.py:1071-1085`).  The plain search or
  another keyword may then store him as a complete candidate, although
  `docs/wiki/05-Pipeline.md` (lines 368 to 369) says that candidates that were
  actually truncated become `needs_more_evidence`.
- A batch the tracker allowed may be refused by the validation, because it counts
  videos that were merely visited, the videos of all authors of a keyword together, and
  comments without a video id.

### Fairness

`Fairness` assumes that asyncio keeps running every runner that can move and the
dispatcher, that clocks advance past deadlines, that an answer whose request began
is committed, that an exiting process exits and a stopped service is started
again.  It does not assume that a person answers, that a browser is confirmed
closed, or that faults stop; the manual review has no deadline, so no property
says that it ends.

For logins it assumes that asyncio runs every task, that a provider's open, verify,
persist, close and the account update return in the end, and that time passes
deadlines.  A provider may answer the cancellation of its operation with a result, with
an error, or by giving up; it returns in any case.  `SessionEnds` excepts browsers that
cannot be closed (after a failed close the lease is kept until somebody cancels the
session again) and the mutual wait of the findings, which no fairness ends.

`CandidateFilter` assumes that the loop runs the stage and its tasks and that every agent
answers or times out.  Nobody has to review anything: a stage that has begun ends by
itself.  `LLMRouter` assumes that calls return (they have a timeout) and that the tasks
that close clients run and come to an end.  `LiveEvents` assumes that a page opens its
stream and that generator and polls go on; nobody has to record anything.  The other
specifications have no fairness.

## 4. Proofs

Each inductive invariant below was first checked by TLC on the instance of a run.

The jobs are proved in two layers.  `JobInv` of `PipelineJobsProofs` is typing,
`RowOK` for every row (the
alignment of job, current stage and checkpoint: exactly one stage is live and it is the current one
while a question is open, no stage is live in a job nobody works for), the
relation between `pc` and the row (`InStagePC`: a runner inside a stage that is not
being cancelled owns the running stage; a runner that has no stage in progress is
at one of `NoLivePC`), and that the dispatcher only leases what it considers.
`DecisionAligned` is not inductive by itself: that a waiter's stage is the stage
its checkpoint names follows only from where the runner is.  This layer gives
`TypeCorrect`, `DecisionsAlign` and `TerminalJobsRest`.

The other properties speak of what a runner remembers and holds, and need to know
that at each place of the code.  `ServiceInv` says it for every job, in five parts:

- `StatusAt`: the statuses the job may have while its runner is there, and that a
  job whose runner is gone waits, has ended, or was left by a crash;
- `StagesAt`: what is before the current stage is done or skipped, what is after it
  has not begun (`InOrder`), so that no stage can be forgotten;
- `LocalsAt`: `failed` is set exactly when a stage failed, and which outcome is at hand;
- `QuestionOK`: the answer of a checkpoint is one that the policy offered for a
  question of that kind, a timeout chooses the default, and a request that is about
  to answer chose from the options of the question it read;
- `HoldsAt`: which lease and browser the runner has.

`ServiceInv` is proved to be kept one action at a time, by lemmas that move a runner
from one place to the next (`Settles`, `Fits`).  To it are added:

- `BooksInv`: leases are held once, by a runner or by the dispatcher on its way to
  one (`LeasesOK`), and the counter of a platform is the number of its accounts in use
  (`SlotsOK`).  It gives `LeasesAreAccounted` and, with `HoldsAt`,
  `AccountsHaveOneBrowser` and `WorkHasItsBrowser`; `NoJobIsOrphaned` and
  `AnswersAreObeyed` follow from `ServiceInv` alone;
- `NothingAfterCancel`: a row that is stopped (`Stopped`) keeps its attempts and its
  checkpoint (`Kept`), so in no later step does a stage begin or a question get asked;
- `HistoryInv`: what a retry was created with, compared with the job it retries.  A
  job can be retried after it ended only, and then its stages never change again
  (`EndedStep`), which gives `RetriesCover`;
- `ServiceImplementsContract`: the actions of the service change a row in one of the
  ways that `Allowed` lists; each of them is a step of `JobContract`
  (`AllowedIsContract`), and what changes no status is a stutter.

For logins the invariant is `LoginInv` of `InteractiveLoginProofs`.  A lease is
kept because a session that is not released holds it (`HoldsLease`) and because a
released session has no browser any more; that needs to know who is responsible
for a browser that is still opening (`BrowserOK`: the start request or the
reaper, and no cleanup before they are done).  This last part fails when the
service is shut down, which is the second finding, so `LeaseCoversBrowser` speaks
of an open service.  `OperationOK` ties the status to the verify operation
(a session is verifying only while an operation works on it, an operation that
has not reached the account update has started none), from which
`CommitsStartLive` and `EndsStand` follow, with shutdowns.  `Marked` says that
whatever the closing service cleans up has ended.  A step of one session
satisfies `Follows`, a step of the closing service `Closes` for every session;
`LoginInvStep` and the action properties follow from these two.  `QuietInv`, for
`ClosedStaysQuiet`, adds that a cleanup beyond its operation has stopped it and the
timeout (`Tidy`), that whoever holds a lease still owes it (`LeaseOwed`), and that under
a closed service every session is released, without an account update under way.

For the filter stage it is `FilterInv` of `CandidateFilterProofs`.  The AI's write
compares the version of the row; that this protects reviews follows because the
version counts the audit rows and a task carries the number there were when its
page was read.  That an AI never leaves the pending statuses needs the two status
columns to agree (`Agree`): otherwise the database trigger would derive a
qualification of its own from the older column.  `Transitioned`, `Relabelled`
and `WrittenByAi` show of each write what it does to both columns, trigger included.

For the outreach it is `OutreachInv` of `CampaignOutreachProofs`.  The stage sends
from a snapshot, so the invariant says what still holds of a row of the page while
reviewers act (`PageOK`: the strategy it shows was approved once, the candidate
stays qualified, because a verdict is final).  `CallOK` ties the message of the
row the runner is at to the place in the send, which is what makes a second call
impossible; `IdsOK` tells the rows of a page apart.  `StrategyOK` says that
versions identify contents, from which `ApprovedAsSeen` follows.  `SettledInv`
counts the messages that are being sent: one at most for each run of the stage that
failed before, and one more where the present run is about to learn the answer or has
ended (`Allowance`).

For the queue it is `QueueInv` of `OutreachQueueProofs`: a row that is ready still says
what was authorized, and a row that exists what was approved, because whoever freezes
it anew also takes the authorization back (`ItemOK`); and an approved strategy is
on record (`StrategyOK`).  `Moves` names the six things that can happen to a row.  Every
action moves every row by one of them (`QueueInvStep`), from which the invariant follows
and, as each is a step of the ledger (`MovesAreLedgerSteps`), the refinement
`QueueImplementsLedger`.

For the router it is `RouterInv` of `LLMRouterProofs`.  A lease that is current says
what its circuit is, half open for a probe and closed for any other call
(`CircuitOK`); so a report either finds the state that it was made for, or it is of an
older generation and does not count.  That is `LateAnswersCloseNothing`, and, because a
probe keeps its lease until it has reported, `EveryProbeIsAnswered`.  The client of
a call is open or waits for it (`LeaseOK`), and the client that new calls get is open
while its provider is (`ClientOK`), whoever replaced, pruned or closed meanwhile.  That
only deleted providers are pruned needs that routes and caches name providers that
have existed (`KnownOK`): what is gone from the database was deleted.

For the live events it is `LiveInv` of `LiveEventsProofs`.  A record of a browse step
goes from the queue of its run over a thread into the database, and a run may begin
while a thread of an earlier one is still to write.  `QueueOK` and `ThreadOK` say that what
is further on its way is of an earlier step of the same run, from which the order of
`RunsAreToldInOrder` follows, and `AgentOK` that a running browse agent leaves a place in
its queue for the last record.  The limit is no invariant by itself, because a thread
counts first and writes later: `FrequentOK` counts the threads that have found room
(`Checked`) with the events, and there is at most one of them for each run.  The page has
the events `1..n` for some `n`, and an open stream goes on where these end (`ReaderAt`);
that a stream only ends behind the event of the job's end needs that none is recorded of
a job that runs (`ReaderInv`), which gives `NoEventIsMissed`.  `DecisionInv` adds to
`DecisionIsTold` that nothing is told of a decision that is not open yet.  Every proof
rests on `Grows`: events are only added, and the end of the job at most once.

For the collect stage it is `CollectInv` of `EvidenceCollectionProofs`.  What was found
counts in the tracker (`Noted`, `FoundOK`), so its limits (`TrackerOK`) bound the batch.
What is left and what was used of the budget add up (`BudgetOK`, `TimeOK`), and the totals
are the sums of the keywords' figures but for the result that was taken last and not
reported yet (`Taken`, `SumsOK`).  That makes every complaint but the three that
`OwnBatchIsAccepted` names impossible when no keyword failed.  A keyword may fail after its
evidence was merged; evidence costs the agent at least one call, and the calls of a keyword
that failed are in the totals and in no figures.  So `SumsOK` says that the totals are then
greater by one call at least (`Tainted`), the batch is inconsistent and is refused: that is
`FailuresAreNotStored`.  Before that the evidence dies with the agent's result; and
a plain search that fails when its page is counted already (`CountsPage`) only adds to what
no figures tell of.  For `CutUsersAreMarked`, `CutOK` follows the reason of a refusal from
the agent through the merge to users of whom other evidence was kept; and `ToldOK` says
that each keyword is reported, failed, or explained when the batch is closed.

The sums are folds of the community modules, which are defined by `CHOOSE` over a recursive
function.  No induction theorem with a predicate for a parameter is needed for them:
`FoldExists` shows that the function exists, by the least size of a set for which it would
not (`LeastExists`), and `SubsetInduction` is induction with a set in place of the
predicate.  `SumChanged` and `SumOfParts` say what the proof needs to know of a sum, and
`SearchedOK` what the plain search keeps of the tracker and adds to what was found.

`ContractFollowsTables` shows of the abstract specification alone that it allows no
transition that the tables of `PipelineStates` forbid; `ScoresFollow` that the scores of
a candidate are those of the last assessment that was applied.

The constants' assumptions (`AccountAssumption`, `StageAssumption`,
`JobAssumption`, `HolderAssumption`, `LoginAssumption`, `FilterAssumption`,
`TextAssumption`, `OutreachAssumption`, `QueueAssumption`, `RouterAssumption`,
`LiveAssumption`, `BudgetAssumption`, `CollectionAssumption`) are all that is assumed.
They say of what kind the parameters are (bounds are natural numbers, sets that are
counted are finite) and that values which stand for nothing or for something special are
not members of the sets they are told from.

Only model-checked: the liveness properties, which are out of reach of the prover.
Every invariant and every action property of a run that passes is a theorem.

## 5. Not modelled

- The scheduler: one row per schedule, and a loop that creates jobs as the API does; its
  own race is among the hazards.
- Stages without a campaign, `report` and `iterate`: one call each, seen from the
  runner; a collect stage that is run again over what it stored; the DOM fallback of the
  collector.
- Authentication of social accounts, browser providers, channels: I/O, modelled by
  what a runner or a login sees of it.
- Validation and serialization of requests, read models, settings, migrations,
  extensions, the in-process event bus, console and CLI: no control of their own.
- Prompts, parsing of pages and scoring: data.

## 6. Plan

1. `Scheduler`: firing of due schedules, edits during a tick, missed runs.
2. The collect stage run again, with the figures and statuses of the first run, and its
   proof extended to that.
