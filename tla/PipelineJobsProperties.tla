----------------------- MODULE PipelineJobsProperties -----------------------
(***************************************************************************)
(* What the pipeline service promises, stated over PipelineJobs.           *)
(***************************************************************************)
EXTENDS PipelineJobs

JobTerminal(j) == row[j].status \in TERMINAL_JOB_STATUSES

\* A job waits exactly when its current stage waits, and exactly then one
\* question is pending, about that stage: the two-row swaps of the store, the
\* gate's transactions, cancellation and recovery never tear them apart.
DecisionAligned ==
    \A j \in Job :
        LET r == row[j]
        IN  /\ r.status = "waiting_decision" <=> r.ckpt.status = "pending"
            /\ \A s \in Stage :
                  r.stages[s] = "waiting_decision" <=>
                      /\ r.ckpt.status = "pending"
                      /\ r.ckpt.stage = s /\ r.current = s

\* A job that is not being worked for has no stage in progress, whichever of
\* the runner, a cancellation, an answer and a restart ended it.
TerminalQuiescent ==
    \A j \in Job :
        row[j].status \notin ActiveJobStatus => LiveStages(row[j]) = {}

\* While the service is up, a job that is being worked for has a runner: no
\* order of failures, cancellations and restarts leaves one behind that nobody
\* will ever finish.
NoOrphan ==
    up = "up" =>
        \A j \in Job : row[j].status \in ActiveJobStatus => pc[j] # "idle"

\* A browser session that is open, or was never confirmed closed.
Controllers(a) ==
    {j \in Job : browser[j] = a} \cup (IF a \in stuck THEN {NoJob} ELSE {})

\* At most one browser session controls an account, through manual reviews,
\* failed releases, quarantine and its recovery, and concurrent dispatch; and
\* whoever has an open session holds the account's lease.
OneBrowserPerAccount ==
    \A a \in Account :
        /\ Cardinality(Controllers(a)) <= 1
        /\ \A j \in Job : browser[j] = a => lease[j] = a

\* The manager's books agree with the leases that are out there: no lease is
\* lost or counted twice, a platform stays within its limit, and a session
\* that was not confirmed closed keeps its account out of use.
LeaseAccounting ==
    LET held == {lease[j] : j \in Job} \ {NoAccount}
        pending == IF disp.pc = "leased" THEN {disp.account} ELSE {}
    IN  /\ activeAccounts = held \cup pending /\ held \cap pending = {}
        /\ \A i, j \in Job :
              lease[i] = lease[j] /\ i # j => lease[i] = NoAccount
        /\ \A p \in Platform :
              /\ activeByPlatform[p] =
                    Cardinality(activeAccounts \cap AccountsOf(p))
              /\ activeByPlatform[p] <= Limit[p]
        /\ quarantinedAccounts = stuck /\ stuck \cap activeAccounts = {}

\* Stage work only runs inside a job and stage that say so, with the browser of
\* the job's account open: also after a manual review gave both back.
WorkOwnsBrowser ==
    \A j \in Job : pc[j] = "running" =>
        /\ row[j].status \in {"running", "cancelling"}
        /\ row[j].stages[run[j].stage] = "running"
        /\ browser[j] = row[j].account /\ browser[j] # NoAccount

\* The runner acts on the answer that was recorded, whoever's write came
\* first, and an expired question was answered with its default.
AnswerObeyed ==
    \A j \in Job :
        /\ pc[j] = "answered" =>
              /\ row[j].ckpt.status \in {"resolved", "expired"}
              /\ run[j].option = row[j].ckpt.resolution
              /\ run[j].option \in row[j].ckpt.options
        /\ row[j].ckpt.status = "expired" =>
              j \in due /\ row[j].ckpt.resolution = row[j].ckpt.default

\* A retry runs every stage its original did not complete.
RetryCovers ==
    \A k \in Job : retryOf[k] # NoJob =>
        \A s \in StagesOf(row[retryOf[k]]) :
            row[retryOf[k]].stages[s] \notin {"succeeded", "skipped"}
                => s \in StagesOf(row[k])

-----------------------------------------------------------------------------

\* Once a job is being cancelled or has ended, no stage of it begins and no
\* question of it is asked, although its runner is still on its way.
NoWorkAfterCancel ==
    [][\A j \in Job :
          row[j].status \in {"cancelling"} \cup TERMINAL_JOB_STATUSES =>
             /\ row'[j].attempt = row[j].attempt
             /\ row'[j].ckpt = row[j].ckpt]_vars

-----------------------------------------------------------------------------

\* The whole service, with its crashes, retries of stages and races between
\* requests, timeouts and runners, only shows a client what the contract allows.
Contract == INSTANCE JobContract WITH
                status <- [j \in Job |-> row[j].status],
                stages <- [j \in Job |-> row[j].stages]

ImplementsContract == Contract!Spec

-----------------------------------------------------------------------------

\* A cancellation is carried out, wherever the runner is.
CancelCompletes ==
    \A j \in Job : row[j].status = "cancelling" ~>
                       row[j].status \in {"cancelled", "interrupted"}

\* A question with a deadline does not stay open when nobody answers.
TimedDecisionSettles ==
    \A j \in Job :
        (row[j].ckpt.status = "pending" /\ AutoTimeout(row[j].ckpt.kind))
            ~> row[j].ckpt.status # "pending"

\* A finished job gives its account back, or it ends in quarantine.
AccountReturned ==
    \A j \in Job : JobTerminal(j) ~> lease[j] = NoAccount
=============================================================================
