---------------------- MODULE InteractiveLoginProperties ----------------------
(***************************************************************************)
(* What the login service promises to the people who log in, and to the    *)
(* rest of the system about the accounts and browsers it holds.            *)
(***************************************************************************)
EXTENDS InteractiveLogin

(* A browser that is opening or open belongs to the session that leases its *)
(* account: neither a failed close, nor a browser that opens after its      *)
(* start request gave up, gives the account to somebody else                *)
(* (_cleanup_resources, _reap_open_result).  It needs a service that is not *)
(* shut down, see CloseLeavesNoBrowser.                                     *)
LeaseCoversBrowser ==
    closer = "open" =>
        \A s \in Session : login[s].open # "none" => leases[KeyOf[s]] = s

(* The account is updated at most once in a session, only from a session    *)
(* that is still verifying, in time and holding its account: cancellations, *)
(* timeouts and failures that came during the verification or the           *)
(* persistence are obeyed (_run_verify).                                    *)
CommitStartsLive ==
    [][\A s \in Session :
          login[s].commit # "running" /\ login'[s].commit = "running" =>
              /\ login[s].commit = "none"
              /\ login[s].status = "verifying" /\ ~login[s].due
              /\ leases[KeyOf[s]] = s]_vars

(* The first end of a session stands, whoever else would end it later; only *)
(* a browser that cannot be closed turns it into a failure                  *)
(* (_mark_terminal_locked, transition, _cleanup_resources).                 *)
EndStands ==
    [][\A s \in Session :
          Ended(login[s]) =>
              \/ login'[s].status = login[s].status
              \/ /\ login'[s].status = "failed"
                 /\ login[s].cleanup = "browser"
                 /\ login'[s].cleanup = "failed"]_vars

(* Once aclose has reported success nothing is left and nothing begins:     *)
(* every session has ended, no account is leased, no account update,        *)
(* timeout or cleanup is under way, and an operation can only return        *)
(* (_run_close, _all_resources_cleaned).                                    *)
ClosedIsQuiet ==
    closer = "closed" =>
        \A s \in Session :
            /\ login[s] # NoLogin => Ended(login[s])
            /\ leases[KeyOf[s]] = NoSession
            /\ login[s].op \in {"none", "cleanup"}
            /\ login[s].commit # "running"
            /\ login[s].timer # "sleeping"
            /\ login[s].cleanup \in {"none", "done"}

(* The provider answered the cancellation of the operation with an error:   *)
(* the operation waits for the cleanup that waits for the operation         *)
(* (_fail_and_cleanup, _cleanup_resources).                                 *)
MutualWait(m) == m.cleanup = "operation" /\ m.op = "cleanup"

(* Every session that was started ends and gives its account back, by a     *)
(* login, a cancellation, a failure or its timeout, whatever the person     *)
(* does.  There are two exceptions: a browser that cannot be closed, which  *)
(* may be tried again, and an operation and a cleanup that wait for each    *)
(* other, for ever (_expire_when_due, _cleanup_terminal_after_operation).   *)
SessionEnds ==
    \A s \in Session :
        login[s].status # "none" ~>
            \/ login[s].released
            \/ login[s].cleanup = "failed" \/ MutualWait(login[s])

(* docs/wiki/10: once the account update has started, a later timeout,      *)
(* cancel or shutdown can only wait for its result and must not disguise    *)
(* the session as expired or cancelled.                                     *)
CommitDecides ==
    \A s \in Session :
        login[s].commit # "none" =>
            login[s].status \notin {"expired", "cancelled"}

(* docs/wiki/11: a start that is cancelled by the shutdown of the service   *)
(* leaves no browser behind that opened too late.                           *)
CloseLeavesNoBrowser ==
    closer = "closed" => \A s \in Session : login[s].open # "live"
=============================================================================
