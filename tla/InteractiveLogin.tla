-------------------------- MODULE InteractiveLogin --------------------------
(***************************************************************************)
(* InteractiveLoginService: login sessions in which a person logs in to a  *)
(* visible browser.  A session is worked on by its start request, its      *)
(* verify operation, its timeout, its cleanup, the reaper of a browser     *)
(* that opens too late, the maintenance after an operation, the requests   *)
(* of the client and the shutdown of the service.                          *)
(*                                                                         *)
(* No critical section of managed.lock contains an await, so an action is  *)
(* the code between two awaits of a provider, a task or a timer.           *)
(***************************************************************************)
EXTENDS AccountLeases

CONSTANTS
    KeyOf,        \* the account key each session is for
    LoginFaults   \* subset of LoginFaultKind: failures of the environment

LoginFaultKind == {"open", "verify", "commit", "close", "shutdown"}

ASSUME LoginAssumption ==
    /\ KeyOf \in [Session -> AccountKey]
    /\ LoginFaults \subseteq LoginFaultKind

VARIABLES
    login,      \* the managed session of each token
    closer,     \* the service: "open", a phase of _run_close, or its result
    incomplete  \* _run_close had to leave something behind

vars == <<login, closer, incomplete, leases>>

TerminalStatus == {"confirmed", "failed", "expired", "cancelled"}

Login == [status : {"none", "launching", "waiting_user", "verifying"}
                       \cup TerminalStatus,
          start : {"none", "opening", "grace_expired", "grace_cancelled",
                   "aborting", "cleanup", "done"},
          open : {"none", "pending", "live"},   \* the browser itself
          browser : BOOLEAN,                    \* browser_session is set
          op : {"none", "verify", "persist", "commit", "cleanup"},
          commit : {"none", "running", "done", "failed"},
          cleanup : {"none", "begin", "operation", "browser", "done",
                     "failed"},
          timer : {"none", "sleeping", "done"},
          reaper : BOOLEAN,                     \* a reaper awaits the browser
          maintain : BOOLEAN,                   \* maintenance is scheduled
          released : BOOLEAN,                   \* lease_released
          due : BOOLEAN]                        \* expires_at has passed

NoLogin == [status |-> "none", start |-> "none", open |-> "none",
            browser |-> FALSE, op |-> "none", commit |-> "none",
            cleanup |-> "none", timer |-> "none", reaper |-> FALSE,
            maintain |-> FALSE, released |-> FALSE, due |-> FALSE]

CloserPC == {"open", "requested", "marking", "cleaning", "ending", "closed",
             "incomplete"}

LoginTypeOK ==
    /\ login \in [Session -> Login]
    /\ closer \in CloserPC
    /\ incomplete \in BOOLEAN
    /\ LeasesTypeOK

Init ==
    /\ login = [s \in Session |-> NoLogin]
    /\ closer = "open"
    /\ incomplete = FALSE
    /\ LeasesInit

-----------------------------------------------------------------------------
(* What the handlers do to a session under its lock                        *)

Ended(m) == m.status \in TerminalStatus

\* The first end of a session stands.
MarkTerminal(m, status) ==
    IF Ended(m) THEN m ELSE [m EXCEPT !.status = status]

\* One cleanup task at a time; a failed one is tried again.
EnsureCleanup(m) ==
    IF m.released \/ m.cleanup \notin {"none", "failed"}
    THEN m ELSE [m EXCEPT !.cleanup = "begin"]

\* The verify operation is over, its done callback schedules maintenance.
EndOperation(m) == [m EXCEPT !.op = "none", !.maintain = TRUE]

\* The operation ends by itself once the cleanup it asked for has ended.
FailOperation(m) ==
    EnsureCleanup(MarkTerminal([m EXCEPT !.op = "cleanup"], "failed"))

\* From here on the account update decides how the session ends.
CommitPending(m) == m.commit # "none" /\ ~Ended(m)

\* A client knows the token once start has returned it.
TokenKnown(m) == m.timer # "none"

Set(s, m) ==
    /\ login' = [login EXCEPT ![s] = m]
    /\ UNCHANGED <<closer, incomplete, leases>>

-----------------------------------------------------------------------------
(* start                                                                   *)

Start(s) ==
    /\ closer = "open" /\ login[s] = NoLogin
    /\ AcquireLease(KeyOf[s], s)
    /\ login' = [login EXCEPT ![s].status = "launching",
                              ![s].start = "opening",
                              ![s].open = "pending"]
    /\ UNCHANGED <<closer, incomplete>>

\* A service that is closing, or the deadline, refuses a browser that opened.
OpenSucceeds(s) ==
    LET m == [login[s] EXCEPT !.open = "live", !.browser = TRUE]
    IN  /\ m.start = "opening"
        /\ Set(s, CASE closer # "open" ->
                           EnsureCleanup([m EXCEPT !.status = "cancelled",
                                                   !.start = "aborting"])
                    [] closer = "open" /\ m.due ->
                           EnsureCleanup([m EXCEPT !.status = "expired",
                                                   !.start = "cleanup"])
                    [] OTHER ->
                           [m EXCEPT !.status = "waiting_user",
                                     !.start = "done",
                                     !.timer = "sleeping"])

OpenFails(s) ==
    LET m == login[s]
    IN  /\ m.start = "opening" /\ "open" \in LoginFaults
        /\ Set(s, EnsureCleanup(MarkTerminal(
               [m EXCEPT !.open = "none", !.start = "cleanup"], "failed")))

\* wait_for gives up; the open task is cancelled and has a grace period.
OpenTimesOut(s) ==
    LET m == login[s]
    IN  /\ m.start = "opening" /\ m.due
        /\ Set(s, [m EXCEPT !.start = "grace_expired"])

\* _cancel_open_or_reap: within the grace period the open task ended without
\* or with a browser; otherwise a reaper waits for it and owns the cleanup.
GraceEnds(s) ==
    LET m == login[s]
        verdict == IF m.start = "grace_expired" THEN "expired" ELSE "cancelled"
        settled == MarkTerminal(m, verdict)
    IN  /\ m.start \in {"grace_expired", "grace_cancelled"}
        /\ \/ Set(s, EnsureCleanup([settled EXCEPT !.open = "none",
                                                   !.start = "cleanup"]))
           \/ Set(s, EnsureCleanup([settled EXCEPT !.open = "live",
                                                   !.browser = TRUE,
                                                   !.start = "cleanup"]))
           \/ Set(s, [settled EXCEPT !.reaper = TRUE, !.start = "done"])

Reap(s) ==
    LET m == [login[s] EXCEPT !.reaper = FALSE]
    IN  /\ login[s].reaper
        /\ \/ Set(s, EnsureCleanup([m EXCEPT !.open = "none"]))
           \/ Set(s, EnsureCleanup([m EXCEPT !.open = "live",
                                             !.browser = TRUE]))

\* An open task that nobody waits for still ends.
UnownedOpenEnds(s) ==
    LET m == login[s]
    IN  /\ m.open = "pending" /\ m.start \in {"cleanup", "done"} /\ ~m.reaper
        /\ \E open \in {"none", "live"} : Set(s, [m EXCEPT !.open = open])

StartReturns(s) ==
    /\ login[s].start \in {"aborting", "cleanup"}
    /\ login[s].cleanup \in {"done", "failed"}
    /\ Set(s, [login[s] EXCEPT !.start = "done"])

\* CancelledError reaches a start request: at the open it begins the grace
\* period, inside the grace period it leaves without a reaper, and a request
\* that was refused by the closing service waits for its cleanup once more.
KillStart(m) ==
    CASE m.start = "opening" -> [m EXCEPT !.start = "grace_cancelled"]
      [] m.start \in {"grace_expired", "grace_cancelled"} ->
             EnsureCleanup(MarkTerminal([m EXCEPT !.start = "cleanup"],
                                        "cancelled"))
      [] m.start = "aborting" -> EnsureCleanup([m EXCEPT !.start = "cleanup"])
      [] m.start = "cleanup" -> [m EXCEPT !.start = "done"]
      [] OTHER -> m

-----------------------------------------------------------------------------
(* Requests and the timeout                                                *)

Due(m) == m.due /\ ~Ended(m)

\* A late verify expires the session; a second one joins the first.
Verify(s) ==
    LET m == login[s]
    IN  /\ TokenKnown(m)
        /\ \/ Due(m) /\ Set(s, EnsureCleanup(MarkTerminal(m, "expired")))
           \/ /\ ~m.due /\ m.status = "waiting_user"
              /\ Set(s, [m EXCEPT !.status = "verifying", !.op = "verify"])

Status(s) ==
    LET m == login[s]
    IN  /\ TokenKnown(m) /\ Due(m) /\ m.commit = "none"
        /\ Set(s, EnsureCleanup(MarkTerminal(m, "expired")))

\* While the account update is pending, cancel waits; when that has ended the
\* session, what it does is this step.  On an ended session it cleans up.
Cancel(s) ==
    LET m == login[s]
    IN  /\ TokenKnown(m) /\ ~CommitPending(m)
        /\ Set(s, EnsureCleanup(MarkTerminal(m, "cancelled")))

DeadlinePasses(s) ==
    /\ login[s].status # "none" /\ ~login[s].due
    /\ Set(s, [login[s] EXCEPT !.due = TRUE])

\* Seeded fault: the session expires, its browser and lease are forgotten.
TimerOnlyExpires(s) ==
    LET m == [login[s] EXCEPT !.timer = "done"]
    IN  /\ login[s].timer = "sleeping" /\ m.due
        /\ Set(s, IF CommitPending(m) THEN m ELSE MarkTerminal(m, "expired"))

\* During the account update the timeout only waits for its end.
TimerFires(s) ==
    LET m == [login[s] EXCEPT !.timer = "done"]
    IN  /\ login[s].timer = "sleeping" /\ m.due
        /\ Set(s, IF CommitPending(m) THEN m
                  ELSE EnsureCleanup(MarkTerminal(m, "expired")))

-----------------------------------------------------------------------------
(* _run_verify                                                             *)

\* Seeded fault: what happened during the verification is not looked at.
VerifyAnswersBlindly(s) ==
    LET m == login[s]
    IN  /\ m.op = "verify"
        /\ \/ Set(s, EndOperation([m EXCEPT !.status = "waiting_user"]))
           \/ Set(s, [m EXCEPT !.op = "persist"])

\* Not logged in yet: the person may go on.  Logged in: save the login state.
VerifyAnswers(s) ==
    LET m == login[s]
    IN  /\ m.op = "verify"
        /\ IF Ended(m) THEN Set(s, EndOperation(m))
           ELSE IF m.due THEN Set(s, EndOperation(MarkTerminal(m, "expired")))
           ELSE \/ Set(s, EndOperation([m EXCEPT !.status = "waiting_user"]))
                \/ Set(s, [m EXCEPT !.op = "persist"])

\* Seeded fault: the account is updated whatever became of the session.
PersistAnswersBlindly(s) ==
    /\ login[s].op = "persist"
    /\ Set(s, [login[s] EXCEPT !.op = "commit", !.commit = "running"])

PersistAnswers(s) ==
    LET m == login[s]
    IN  /\ m.op = "persist"
        /\ Set(s, IF Ended(m) THEN EndOperation(m)
                  ELSE IF m.due THEN EndOperation(MarkTerminal(m, "expired"))
                  ELSE [m EXCEPT !.op = "commit", !.commit = "running"])

ProviderFails(s) ==
    /\ login[s].op \in {"verify", "persist"} /\ "verify" \in LoginFaults
    /\ Set(s, FailOperation(login[s]))

\* A session that is not verifying any more cannot be confirmed: the
\* transition raises and the operation ends.
CommitSucceeds(s) ==
    LET m == [login[s] EXCEPT !.commit = "done"]
    IN  /\ m.op = "commit"
        /\ Set(s, IF m.status = "verifying"
                  THEN EnsureCleanup([m EXCEPT !.status = "confirmed",
                                               !.op = "cleanup"])
                  ELSE EndOperation(m))

CommitFails(s) ==
    /\ login[s].op = "commit" /\ "commit" \in LoginFaults
    /\ Set(s, FailOperation([login[s] EXCEPT !.commit = "failed"]))

OperationReturns(s) ==
    /\ login[s].op = "cleanup" /\ login[s].cleanup \in {"done", "failed"}
    /\ Set(s, EndOperation(login[s]))

Maintain(s) ==
    LET m == [login[s] EXCEPT !.maintain = FALSE]
    IN  /\ login[s].maintain
        /\ Set(s, IF Ended(m) THEN EnsureCleanup(m) ELSE m)

-----------------------------------------------------------------------------
(* _cleanup_resources                                                      *)

\* The timeout is cancelled, next is the browser.
StopTimer(m) ==
    [m EXCEPT !.cleanup = "browser",
              !.timer = IF m.timer = "none" THEN "none" ELSE "done"]

\* CancelledError ends an operation that waits for its own cleanup at once.
CancelOperation(m) == IF m.op = "cleanup" THEN EndOperation(m) ELSE m

CleanupBegins(s) ==
    LET m == login[s]
    IN  /\ m.cleanup = "begin"
        /\ Set(s, IF /\ m.op # "none" /\ m.commit = "none"
                     /\ m.status \in {"cancelled", "expired"}
                  THEN [CancelOperation(m) EXCEPT !.cleanup = "operation"]
                  ELSE StopTimer(m))

\* The provider gives up for the cancellation of the operation.  It may also
\* answer it with a result (VerifyAnswers, PersistAnswers) or with an error
\* (ProviderFails): the operation then waits for the cleanup.
OperationCancelled(s) ==
    LET m == login[s]
    IN  /\ m.cleanup = "operation" /\ m.op \in {"verify", "persist"}
        /\ Set(s, EndOperation(m))

\* The cleanup waits for the operation it cancelled, however that ends.
CleanupGoesOn(s) ==
    /\ login[s].cleanup = "operation" /\ login[s].op = "none"
    /\ Set(s, StopTimer(login[s]))

\* The browser is closed, if there is one, and then the lease goes.
CleanupSucceeds(s) ==
    LET m == login[s]
    IN  /\ m.cleanup = "browser"
        /\ login' = [login EXCEPT ![s] =
               [m EXCEPT !.open = IF m.browser THEN "none" ELSE @,
                         !.browser = FALSE,
                         !.released = TRUE,
                         !.cleanup = "done"]]
        /\ ReleaseLease(KeyOf[s], s)
        /\ UNCHANGED <<closer, incomplete>>

\* Seeded fault: the lease goes although the browser could not be closed.
CleanupFailsReleasing(s) ==
    LET m == login[s]
    IN  /\ m.cleanup = "browser" /\ m.browser /\ "close" \in LoginFaults
        /\ login' = [login EXCEPT ![s] =
               [m EXCEPT !.status = "failed", !.cleanup = "failed"]]
        /\ ReleaseLease(KeyOf[s], s)
        /\ UNCHANGED <<closer, incomplete>>

\* The browser could not be closed: browser and lease are kept.
CleanupFails(s) ==
    LET m == login[s]
    IN  /\ m.cleanup = "browser" /\ m.browser /\ "close" \in LoginFaults
        /\ Set(s, [m EXCEPT !.status = "failed", !.cleanup = "failed"])

-----------------------------------------------------------------------------
(* aclose: each of its waits is bounded, so no phase waits for the last.   *)

CloseService ==
    /\ closer \in {"open", "incomplete"} /\ "shutdown" \in LoginFaults
    /\ closer' = "requested"
    /\ incomplete' = FALSE
    /\ UNCHANGED <<login, leases>>

CloseKillsStarts ==
    /\ closer = "requested"
    /\ closer' = "marking"
    /\ login' = [s \in Session |-> KillStart(login[s])]
    /\ UNCHANGED <<incomplete, leases>>

\* An operation that is updating the account is left to end.
Updating(m) == m.commit # "none" /\ m.op # "none"

StartPending(m) == m.start \notin {"none", "done"}

CloseMarks ==
    /\ closer = "marking"
    /\ closer' = "cleaning"
    /\ login' = [s \in Session |->
           IF login[s].status = "none" \/ Updating(login[s])
           THEN login[s] ELSE MarkTerminal(login[s], "cancelled")]
    /\ incomplete' = \E s \in Session : StartPending(login[s])
    /\ UNCHANGED leases

\* A start request in its grace period has no reaper yet: it is cleaned up.
LeftToOthers(m) == Updating(m) \/ m.reaper

CloseCleans ==
    /\ closer = "cleaning"
    /\ closer' = "ending"
    /\ login' = [s \in Session |->
           IF login[s].status = "none" \/ LeftToOthers(login[s])
           THEN login[s] ELSE EnsureCleanup(login[s])]
    /\ incomplete' = (incomplete \/ \E s \in Session : LeftToOthers(login[s]))
    /\ UNCHANGED leases

\* Seeded fault: a session whose account is still leased is overlooked.
CleanedIgnoringLeases(m) ==
    ~StartPending(m) /\ ~m.reaper /\ ~m.maintain /\ m.commit # "running"

\* _all_resources_cleaned
Cleaned(m) ==
    /\ ~StartPending(m) /\ ~m.reaper /\ ~m.maintain
    /\ m.commit # "running"
    /\ m.status # "none" => m.released

\* A wait for the cleanup of a session may have run out before it ended.
CloseEnds ==
    /\ closer = "ending"
    /\ \/ /\ ~incomplete /\ \A s \in Session : Cleaned(login[s])
          /\ closer' = "closed"
          /\ UNCHANGED incomplete
       \/ /\ incomplete \/ \E s \in Session : login[s].status # "none"
          /\ closer' = "incomplete"
          /\ incomplete' = TRUE
    /\ login' = [s \in Session |->
           [login[s] EXCEPT !.timer = IF @ = "none" THEN @ ELSE "done"]]
    /\ UNCHANGED leases

-----------------------------------------------------------------------------

\* Steps the event loop takes by itself.
SessionStep(s) ==
    \/ OpenSucceeds(s) \/ OpenTimesOut(s) \/ GraceEnds(s) \/ Reap(s)
    \/ UnownedOpenEnds(s) \/ StartReturns(s) \/ TimerFires(s)
    \/ VerifyAnswers(s) \/ PersistAnswers(s) \/ CommitSucceeds(s)
    \/ OperationReturns(s) \/ Maintain(s)
    \/ CleanupBegins(s) \/ OperationCancelled(s) \/ CleanupGoesOn(s)
    \/ CleanupSucceeds(s)

SessionFault(s) ==
    OpenFails(s) \/ ProviderFails(s) \/ CommitFails(s) \/ CleanupFails(s)

SessionRequest(s) == Start(s) \/ Verify(s) \/ Status(s) \/ Cancel(s)

Closing == CloseKillsStarts \/ CloseMarks \/ CloseCleans \/ CloseEnds

Next ==
    \/ \E s \in Session : \/ SessionStep(s) \/ SessionFault(s)
                          \/ SessionRequest(s) \/ DeadlinePasses(s)
    \/ CloseService \/ Closing

Spec == Init /\ [][Next]_vars

\* asyncio runs every task, providers answer, the clock advances.
Fairness ==
    /\ \A s \in Session :
          WF_vars(SessionStep(s)) /\ WF_vars(DeadlinePasses(s))
    /\ WF_vars(Closing)

FairSpec == Spec /\ Fairness
=============================================================================
