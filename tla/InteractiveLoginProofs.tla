------------------------ MODULE InteractiveLoginProofs ------------------------
(***************************************************************************)
(* Theorems about the login service, for any sessions, account keys and    *)
(* faults.  LoginInv is the inductive invariant: the fields of one session *)
(* agree with each other (OperationOK, BrowserOK), a session that has not  *)
(* released its lease holds it (HoldsLease), and while the closing service *)
(* cleans up no session is in use (Marked).  QuietInv adds who still owes  *)
(* the lease of a session, which is what a closed service must not leave.  *)
(***************************************************************************)
EXTENDS InteractiveLoginProperties, TLAPS

\* A session that has not been started is untouched.
Started(m) == m.status = "none" => m = NoLogin

\* How far start and the verify operation are, and what they have done.
OperationOK(m) ==
    /\ m.start = "opening" =>
           /\ m.status = "launching" /\ m.cleanup = "none" /\ ~m.released
           /\ m.op = "none" /\ m.commit = "none" /\ m.timer = "none"
    /\ m.reaper => Ended(m) /\ m.start = "done"
    /\ m.start \in {"aborting", "cleanup"} => Ended(m)
    /\ m.released => m.cleanup = "done"
    /\ m.cleanup # "none" => Ended(m)
    /\ m.status = "verifying" => m.op \in {"verify", "persist", "commit"}
    /\ m.status # "verifying" /\ m.op # "none" => Ended(m)
    /\ m.op \in {"verify", "persist"} => m.commit = "none"
    /\ m.commit # "none" => Ended(m) \/ m.status = "verifying"

\* The browser and who is responsible for it, in a service nobody has closed.
BrowserOK(m) ==
    /\ m.start \notin {"grace_cancelled", "aborting"}
    /\ m.open = "pending" <=>
           m.start \in {"opening", "grace_expired"} \/ m.reaper
    /\ m.open = "pending" => m.cleanup = "none" /\ m.timer = "none"
    /\ m.open = "live" <=> m.browser
    /\ m.released => m.open = "none"
    /\ m.op # "none" \/ m.maintain => m.timer # "none"

Marked(m) ==
    \/ m.status = "none" \/ Ended(m)
    \/ m.status = "verifying" /\ m.commit # "none"

HoldsLease(s) ==
    login[s].status # "none" /\ ~login[s].released => leases[KeyOf[s]] = s

LoginInv ==
    /\ LoginTypeOK
    /\ \A s \in Session : Started(login[s]) /\ OperationOK(login[s])
    /\ \A s \in Session : HoldsLease(s)
    /\ closer \notin {"open", "requested"} =>
           \A s \in Session : login[s].start # "opening"
    /\ closer = "cleaning" => \A s \in Session : Marked(login[s])
    /\ closer = "open" => \A s \in Session : BrowserOK(login[s])

-----------------------------------------------------------------------------
\* What every step that works on one session may do to it.
Follows(m, n) ==
    /\ n \in Login /\ OperationOK(n)
    /\ m.status # "none" /\ n.status # "none"
    /\ n.released = m.released
    /\ n.start = "opening" => m.start = "opening"
    /\ Marked(m) => Marked(n)
    /\ closer = "open" /\ BrowserOK(m) => BrowserOK(n)
    /\ Ended(m) /\ n.status # m.status =>
           n.status = "failed" /\ m.cleanup = "browser" /\ n.cleanup = "failed"
    /\ m.commit # "running" /\ n.commit = "running" =>
           m.commit = "none" /\ m.status = "verifying" /\ ~m.due

SetsTo(s) == \E n : Follows(login[s], n) /\ Set(s, n)

LEMMA EnsureCleanupType ==
    ASSUME NEW m \in Login
    PROVE  EnsureCleanup(m) \in Login
  BY DEF EnsureCleanup, Login

LEMMA MarkTerminalFields ==
    ASSUME NEW m \in Login, NEW v \in TerminalStatus
    PROVE  LET e == MarkTerminal(m, v)
           IN  /\ e \in Login /\ Ended(e)
               /\ e.status = IF Ended(m) THEN m.status ELSE v
               /\ e.start = m.start /\ e.open = m.open /\ e.op = m.op
               /\ e.browser = m.browser /\ e.commit = m.commit
               /\ e.cleanup = m.cleanup /\ e.timer = m.timer
               /\ e.reaper = m.reaper /\ e.maintain = m.maintain
               /\ e.released = m.released
  <1>1. CASE Ended(m)
    BY <1>1 DEF MarkTerminal
  <1>2. CASE ~Ended(m)
    BY <1>2 DEF MarkTerminal, Ended, Login, TerminalStatus
  <1> QED BY <1>1, <1>2

LEMMA EndOperationFields ==
    ASSUME NEW m \in Login
    PROVE  LET e == EndOperation(m)
           IN  /\ e \in Login /\ e.op = "none"
               /\ \A f \in DOMAIN NoLogin \ {"op", "maintain"} : e[f] = m[f]
  BY DEF EndOperation, Login, NoLogin

\* The many ways in which a session ends and is cleaned up.
LEMMA EndsFollow ==
    ASSUME NEW m \in Login, NEW k \in Login, NEW status \in TerminalStatus,
           OperationOK(m), m.status # "none",
           k.status = m.status, k.cleanup = m.cleanup,
           k.released = m.released, k.commit = m.commit \/ k.commit = "failed",
           k.op \in {"verify", "persist"} => k.commit = "none",
           k.start # "opening", k.reaper => k.start = "done",
           closer = "open" /\ BrowserOK(m) =>
               BrowserOK(k) /\ k.open # "pending"
    PROVE  Follows(m, EnsureCleanup(MarkTerminal(k, status)))
  <1> DEFINE e == MarkTerminal(k, status)
             n == EnsureCleanup(e)
  <1> USE DEF Login, TerminalStatus
  <1>1. /\ e \in Login /\ Ended(e)
        /\ e.status = IF Ended(k) THEN k.status ELSE status
        /\ \A f \in DOMAIN k \ {"status"} : e[f] = k[f]
    BY DEF MarkTerminal, Ended
  <1>2. /\ n \in Login /\ n.status = e.status /\ n.released = k.released
        /\ n.op = k.op /\ n.commit = k.commit
        /\ n.start = k.start /\ n.reaper = k.reaper
        /\ n.released => n.cleanup = k.cleanup
        /\ n.cleanup \in {k.cleanup, "begin"}
    BY <1>1 DEF EnsureCleanup
  <1>3. Ended(n) /\ OperationOK(n)
    BY <1>1, <1>2 DEF OperationOK, Ended
  <1>4. closer = "open" /\ BrowserOK(m) => BrowserOK(n)
    <2> SUFFICES ASSUME BrowserOK(k), k.open # "pending"
                 PROVE  BrowserOK(n)
      OBVIOUS
    <2> QED BY DEF BrowserOK, EnsureCleanup, MarkTerminal
  <1>5. Ended(m) => n.status = m.status
    BY <1>1, <1>2 DEF Ended
  <1> QED BY <1>2, <1>3, <1>4, <1>5 DEF Follows, Ended, Marked

\* The start request, its browser and the reaper.
LEMMA OpenSteps ==
    ASSUME LoginInv, NEW s \in Session,
           OpenSucceeds(s) \/ OpenFails(s) \/ OpenTimesOut(s)
               \/ StartReturns(s) \/ UnownedOpenEnds(s)
    PROVE  SetsTo(s)
  <1> USE DEF Login, TerminalStatus
  <1> DEFINE m == login[s]
  <1>1. m \in Login /\ OperationOK(m) /\ m.status # "none"
    BY DEF LoginInv, LoginTypeOK, Started, NoLogin, OpenSucceeds, OpenFails,
           OpenTimesOut, StartReturns, UnownedOpenEnds
  <1>2. CASE OpenSucceeds(s)
    <2> DEFINE k == [m EXCEPT !.open = "live", !.browser = TRUE]
               c == [k EXCEPT !.status = "cancelled", !.start = "aborting"]
               e == [k EXCEPT !.status = "expired", !.start = "cleanup"]
               w == [k EXCEPT !.status = "waiting_user", !.start = "done",
                              !.timer = "sleeping"]
    <2>1. /\ m.start = "opening" /\ m.status = "launching"
          /\ m.cleanup = "none" /\ ~m.released
          /\ m.op = "none" /\ m.commit = "none" /\ m.timer = "none"
      BY <1>1, <1>2 DEF OpenSucceeds, OperationOK
    <2>2. closer # "open" => Follows(m, EnsureCleanup(c))
      BY <1>1, <2>1 DEF EnsureCleanup, Follows, OperationOK, Ended, Marked
    <2>3. closer = "open" => Follows(m, EnsureCleanup(e))
      BY <1>1, <2>1 DEF EnsureCleanup, Follows, OperationOK, BrowserOK,
         Ended, Marked
    <2>4. closer = "open" => Follows(m, w)
      BY <1>1, <2>1 DEF Follows, OperationOK, BrowserOK, Ended, Marked
    <2> QED BY <2>2, <2>3, <2>4, <1>2 DEF OpenSucceeds, SetsTo
  <1>3. CASE OpenFails(s)
    <2> DEFINE k == [m EXCEPT !.open = "none", !.start = "cleanup"]
    <2>1. closer = "open" /\ BrowserOK(m) => BrowserOK(k) /\ k.open # "pending"
      BY <1>1, <1>3 DEF OpenFails, BrowserOK, OperationOK
    <2>2. Follows(m, EnsureCleanup(MarkTerminal(k, "failed")))
      BY <1>1, <1>3, <2>1, EndsFollow DEF OpenFails, OperationOK
    <2> QED BY <2>2, <1>3 DEF OpenFails, SetsTo
  <1>4. CASE OpenTimesOut(s)
    <2> DEFINE n == [m EXCEPT !.start = "grace_expired"]
    <2>1. Follows(m, n)
      BY <1>1, <1>4 DEF OpenTimesOut, Follows, OperationOK, BrowserOK,
         Ended, Marked
    <2> QED BY <2>1, <1>4 DEF OpenTimesOut, SetsTo
  <1>5. CASE StartReturns(s)
    <2> DEFINE n == [m EXCEPT !.start = "done"]
    <2>1. Follows(m, n)
      BY <1>1, <1>5 DEF StartReturns, Follows, OperationOK, BrowserOK,
         Ended, Marked
    <2> QED BY <2>1, <1>5 DEF StartReturns, SetsTo
  <1>6. CASE UnownedOpenEnds(s)
    <2>1. PICK open \in {"none", "live"} : Set(s, [m EXCEPT !.open = open])
      BY <1>6 DEF UnownedOpenEnds
    <2> DEFINE n == [m EXCEPT !.open = open]
    <2>2. Follows(m, n)
      BY <1>1, <1>6 DEF UnownedOpenEnds, Follows, OperationOK, BrowserOK,
         Ended, Marked
    <2> QED BY <2>1, <2>2 DEF SetsTo
  <1> QED BY <1>2, <1>3, <1>4, <1>5, <1>6

LEMMA ReaperSteps ==
    ASSUME LoginInv, NEW s \in Session, GraceEnds(s) \/ Reap(s)
    PROVE  SetsTo(s)
  <1> USE DEF Login, TerminalStatus
  <1> DEFINE m == login[s]
  <1>1. m \in Login /\ OperationOK(m) /\ m.status # "none"
    BY DEF LoginInv, LoginTypeOK, Started, NoLogin, GraceEnds, Reap
  <1>2. CASE GraceEnds(s)
    <2>1. PICK v \in {"expired", "cancelled"} :
              LET e == MarkTerminal(m, v)
              IN  \/ Set(s, EnsureCleanup([e EXCEPT !.open = "none",
                                                    !.start = "cleanup"]))
                  \/ Set(s, EnsureCleanup([e EXCEPT !.open = "live",
                                                    !.browser = TRUE,
                                                    !.start = "cleanup"]))
                  \/ Set(s, [e EXCEPT !.reaper = TRUE, !.start = "done"])
      BY <1>2 DEF GraceEnds
    <2> DEFINE k == [m EXCEPT !.open = "none", !.start = "cleanup"]
               l == [m EXCEPT !.open = "live", !.browser = TRUE,
                              !.start = "cleanup"]
               r == [MarkTerminal(m, v) EXCEPT !.reaper = TRUE,
                                               !.start = "done"]
    <2>2. m.start \in {"grace_expired", "grace_cancelled"}
      BY <1>2 DEF GraceEnds
    <2>3. Follows(m, EnsureCleanup(MarkTerminal(k, v)))
      <3>1. closer = "open" /\ BrowserOK(m) =>
                BrowserOK(k) /\ k.open # "pending"
        BY <1>1, <2>2 DEF BrowserOK, OperationOK
      <3>2. /\ k \in Login /\ k.start = "cleanup" /\ ~k.reaper
            /\ k.status = m.status /\ k.cleanup = m.cleanup
            /\ k.released = m.released
            /\ k.commit = m.commit /\ k.op = m.op
        BY <1>1, <2>2 DEF OperationOK
      <3>3. k.op \in {"verify", "persist"} => k.commit = "none"
        BY <1>1, <3>2 DEF OperationOK
      <3> HIDE DEF k, Login
      <3> QED BY <1>1, <3>1, <3>2, <3>3, EndsFollow
    <2>4. Follows(m, EnsureCleanup(MarkTerminal(l, v)))
      <3>1. closer = "open" /\ BrowserOK(m) =>
                BrowserOK(l) /\ l.open # "pending"
        BY <1>1, <2>2 DEF BrowserOK, OperationOK
      <3>2. /\ l \in Login /\ l.start = "cleanup" /\ ~l.reaper
            /\ l.status = m.status /\ l.cleanup = m.cleanup
            /\ l.released = m.released
            /\ l.commit = m.commit /\ l.op = m.op
        BY <1>1, <2>2 DEF OperationOK
      <3>3. l.op \in {"verify", "persist"} => l.commit = "none"
        BY <1>1, <3>2 DEF OperationOK
      <3> HIDE DEF l, Login
      <3> QED BY <1>1, <3>1, <3>2, <3>3, EndsFollow
    <2>5. Follows(m, r)
      <3> DEFINE e == MarkTerminal(m, v)
      <3>1. /\ e \in Login /\ Ended(e) /\ (Ended(m) => e.status = m.status)
            /\ e.start = m.start /\ e.open = m.open /\ e.op = m.op
            /\ e.browser = m.browser /\ e.commit = m.commit
            /\ e.cleanup = m.cleanup /\ e.timer = m.timer
            /\ e.maintain = m.maintain /\ e.released = m.released
        BY <1>1, MarkTerminalFields
      <3> HIDE DEF e
      <3>2. /\ r \in Login /\ r.start = "done" /\ r.reaper
            /\ r.status = e.status /\ r.open = m.open /\ r.op = m.op
            /\ r.browser = m.browser /\ r.commit = m.commit
            /\ r.cleanup = m.cleanup /\ r.timer = m.timer
            /\ r.maintain = m.maintain /\ r.released = m.released
        <4>1. r = [e EXCEPT !.reaper = TRUE, !.start = "done"]
          BY DEF e
        <4> HIDE DEF r
        <4>2. r \in Login
          BY <3>1, <4>1
        <4> QED BY <3>1, <4>1, <4>2
      <3> HIDE DEF r
      <3>4. OperationOK(r)
        BY <1>1, <3>1, <3>2 DEF OperationOK, Ended
      <3>3. BrowserOK(m) => BrowserOK(r)
        BY <1>1, <2>2, <3>1, <3>2 DEF BrowserOK
      <3> QED BY <1>1, <3>1, <3>2, <3>3, <3>4 DEF Follows, Ended, Marked
    <2>6. /\ MarkTerminal(k, v) = [MarkTerminal(m, v) EXCEPT
                                      !.open = "none", !.start = "cleanup"]
          /\ MarkTerminal(l, v) = [MarkTerminal(m, v) EXCEPT
                                      !.open = "live", !.browser = TRUE,
                                      !.start = "cleanup"]
      BY <1>1 DEF MarkTerminal, Ended
    <2> QED BY <2>1, <2>3, <2>4, <2>5, <2>6 DEF SetsTo
  <1>3. CASE Reap(s)
    <2> DEFINE k == [[m EXCEPT !.reaper = FALSE] EXCEPT !.open = "none"]
               l == [[m EXCEPT !.reaper = FALSE] EXCEPT !.open = "live",
                                                        !.browser = TRUE]
    <2>1. m.reaper /\ Ended(m) /\ m.start = "done"
      BY <1>1, <1>3 DEF Reap, OperationOK
    <2>3. Follows(m, EnsureCleanup(MarkTerminal(k, "failed")))
      <3>1. closer = "open" /\ BrowserOK(m) =>
                BrowserOK(k) /\ k.open # "pending"
        BY <1>1, <2>1 DEF BrowserOK
      <3>2. /\ k \in Login /\ k.start = "done" /\ ~k.reaper
            /\ k.status = m.status /\ k.cleanup = m.cleanup
            /\ k.released = m.released
            /\ k.commit = m.commit /\ k.op = m.op
        BY <1>1, <2>1
      <3>3. k.op \in {"verify", "persist"} => k.commit = "none"
        BY <1>1, <3>2 DEF OperationOK
      <3> HIDE DEF k, Login
      <3> QED BY <1>1, <3>1, <3>2, <3>3, EndsFollow
    <2>4. Follows(m, EnsureCleanup(MarkTerminal(l, "failed")))
      <3>1. closer = "open" /\ BrowserOK(m) =>
                BrowserOK(l) /\ l.open # "pending"
        BY <1>1, <2>1 DEF BrowserOK
      <3>2. /\ l \in Login /\ l.start = "done" /\ ~l.reaper
            /\ l.status = m.status /\ l.cleanup = m.cleanup
            /\ l.released = m.released
            /\ l.commit = m.commit /\ l.op = m.op
        <4>1. l \in Login
          BY <1>1, <2>1
        <4> QED BY <4>1, <1>1, <2>1
      <3>3. l.op \in {"verify", "persist"} => l.commit = "none"
        BY <1>1, <3>2 DEF OperationOK
      <3> HIDE DEF l, Login
      <3> QED BY <1>1, <3>1, <3>2, <3>3, EndsFollow
    <2>5. MarkTerminal(k, "failed") = k /\ MarkTerminal(l, "failed") = l
      BY <1>1, <2>1 DEF MarkTerminal, Ended
    <2> QED BY <1>3, <2>3, <2>4, <2>5 DEF Reap, SetsTo
  <1> QED BY <1>2, <1>3

\* Requests of the client, and the deadline.
LEMMA RequestSteps ==
    ASSUME LoginInv, NEW s \in Session,
           Verify(s) \/ Status(s) \/ Cancel(s) \/ DeadlinePasses(s)
               \/ TimerFires(s)
    PROVE  SetsTo(s)
  <1> USE DEF Login, TerminalStatus
  <1> DEFINE m == login[s]
  <1>1. m \in Login /\ OperationOK(m) /\ m.status # "none"
    BY DEF LoginInv, LoginTypeOK, Started, NoLogin, Verify, Status, Cancel,
           DeadlinePasses, TimerFires, TokenKnown
  <1>2. CASE DeadlinePasses(s)
    <2> DEFINE n == [m EXCEPT !.due = TRUE]
    <2>1. n \in Login /\ \A f \in DOMAIN m \ {"due"} : n[f] = m[f]
      BY <1>1
    <2>2. OperationOK(n)
      BY <1>1, <2>1 DEF OperationOK, Ended
    <2>3. BrowserOK(m) => BrowserOK(n)
      BY <1>1, <2>1 DEF BrowserOK
    <2>4. Follows(m, n)
      BY <1>1, <2>1, <2>2, <2>3 DEF Follows, Ended, Marked
    <2> QED BY <2>4, <1>2 DEF DeadlinePasses, SetsTo
  <1>3. ASSUME m.timer # "none", NEW v \in {"expired", "cancelled"}
        PROVE  Follows(m, EnsureCleanup(MarkTerminal(m, v)))
    <2>1. closer = "open" /\ BrowserOK(m) => m.open # "pending"
      BY <1>3 DEF BrowserOK
    <2>2. m.start # "opening" /\ (m.reaper => m.start = "done")
      BY <1>1, <1>3 DEF OperationOK
    <2> QED BY <1>1, <2>1, <2>2, EndsFollow DEF OperationOK
  <1>4. CASE Verify(s)
    <2> DEFINE n == [m EXCEPT !.status = "verifying", !.op = "verify"]
    <2>1. m.status = "waiting_user" => Follows(m, n)
      BY <1>1, <1>4 DEF Verify, TokenKnown, Follows, OperationOK, BrowserOK,
         Ended, Marked
    <2> QED BY <2>1, <1>3, <1>4 DEF Verify, TokenKnown, SetsTo
  <1>5. CASE Status(s) \/ Cancel(s)
    BY <1>3, <1>5 DEF Status, Cancel, TokenKnown, SetsTo
  <1>6. CASE TimerFires(s)
    <2> DEFINE n == [m EXCEPT !.timer = "done"]
    <2>1. Follows(m, n)
      BY <1>1, <1>6 DEF TimerFires, Follows, OperationOK, BrowserOK, Ended,
         Marked
    <2>2. /\ n \in Login /\ n.start # "opening"
          /\ \A f \in DOMAIN m \ {"timer"} : n[f] = m[f]
      BY <1>1, <1>6 DEF TimerFires, OperationOK
    <2>3. closer = "open" /\ BrowserOK(m) =>
              BrowserOK(n) /\ n.open # "pending"
      BY <1>1, <1>6, <2>2 DEF BrowserOK, TimerFires
    <2>4. Follows(m, EnsureCleanup(MarkTerminal(n, "expired")))
      BY <1>1, <2>2, <2>3, EndsFollow DEF OperationOK
    <2> QED BY <2>1, <2>4, <1>6 DEF TimerFires, SetsTo
  <1> QED BY <1>2, <1>4, <1>5, <1>6

\* The verify operation, the account update, and what follows them.
LEMMA OperationSteps ==
    ASSUME LoginInv, NEW s \in Session,
           VerifyAnswers(s) \/ PersistAnswers(s) \/ ProviderFails(s)
               \/ CommitSucceeds(s) \/ CommitFails(s) \/ OperationReturns(s)
               \/ Maintain(s)
    PROVE  SetsTo(s)
  <1> USE DEF Login, TerminalStatus
  <1> DEFINE m == login[s]
  <1>1. m \in Login /\ OperationOK(m) /\ m.status # "none"
    BY DEF LoginInv, LoginTypeOK, Started, NoLogin, VerifyAnswers,
           PersistAnswers, ProviderFails, CommitSucceeds, CommitFails,
           OperationReturns, Maintain, Ended
  <1>2. ASSUME m.op # "none", NEW status \in TerminalStatus \cup {m.status},
               status = m.status => Ended(m), Ended(m) => status = m.status,
               NEW c \in {m.commit, "done"},
               c # m.commit => m.op = "commit"
        PROVE  Follows(m, EndOperation([m EXCEPT !.status = status,
                                                 !.commit = c]))
    <2> DEFINE n == EndOperation([m EXCEPT !.status = status, !.commit = c])
    <2>1. /\ n \in Login /\ n.op = "none" /\ n.status = status
          /\ n.commit = c
          /\ \A f \in DOMAIN m \ {"op", "status", "commit", "maintain"} :
                n[f] = m[f]
      <3> DEFINE k == [m EXCEPT !.status = status, !.commit = c]
      <3>1. k \in Login
        <4>1. /\ status \in {"none", "launching", "waiting_user", "verifying"}
                                 \cup TerminalStatus
              /\ c \in {"none", "running", "done", "failed"}
          BY <1>1
        <4> HIDE DEF TerminalStatus
        <4> QED BY <1>1, <4>1
      <3>2. /\ k.status = status /\ k.commit = c
            /\ \A f \in DOMAIN m \ {"status", "commit"} : k[f] = m[f]
        BY <1>1
      <3>3. n = EndOperation(k)
        OBVIOUS
      <3> HIDE DEF k, n
      <3> QED BY <1>1, <3>1, <3>2, <3>3, EndOperationFields DEF NoLogin
    <2>2. Ended(n) /\ m.start # "opening"
      BY <1>1, <1>2, <2>1 DEF Ended, OperationOK
    <2>3. OperationOK(n)
      <3>1. /\ n.start = m.start /\ n.reaper = m.reaper
            /\ n.cleanup = m.cleanup /\ n.released = m.released
        BY <1>1 DEF EndOperation
      <3> QED BY <1>1, <2>1, <2>2, <3>1 DEF OperationOK, Ended
    <2>4. BrowserOK(m) => BrowserOK(n)
      BY <1>1, <1>2, <2>1 DEF BrowserOK
    <2> QED BY <1>1, <1>2, <2>1, <2>2, <2>3, <2>4 DEF Follows, Ended, Marked
  <1>3. CASE VerifyAnswers(s)
    <2> DEFINE w == EndOperation([m EXCEPT !.status = "waiting_user"])
               p == [m EXCEPT !.op = "persist"]
    <2>1. m.op = "verify" /\ m.start # "opening" /\ m.commit = "none"
      BY <1>1, <1>3 DEF VerifyAnswers, OperationOK
    <2>2. ~Ended(m) => Follows(m, w)
      <3>1. /\ w \in Login /\ w.op = "none" /\ w.status = "waiting_user"
            /\ \A f \in DOMAIN m \ {"op", "status", "maintain"} :
                  w[f] = m[f]
        <4>1. w \in Login
          BY <1>1 DEF EndOperation
        <4> QED BY <4>1, <1>1 DEF EndOperation
      <3>2. ~Ended(m) => OperationOK(w) /\ ~Marked(m)
        BY <1>1, <2>1, <3>1 DEF OperationOK, Ended, Marked
      <3>3. BrowserOK(m) => BrowserOK(w)
        BY <1>1, <2>1, <3>1 DEF BrowserOK
      <3> QED BY <1>1, <2>1, <3>1, <3>2, <3>3 DEF Follows
    <2>3. Follows(m, p)
      BY <1>1, <2>1 DEF Follows, OperationOK, BrowserOK, Ended, Marked
    <2>4. Ended(m) => Follows(m, EndOperation(m))
      <3>1. [m EXCEPT !.status = m.status, !.commit = m.commit] = m
        BY <1>1
      <3> QED BY <1>2, <2>1, <3>1
    <2>5. ~Ended(m) => Follows(m, EndOperation(MarkTerminal(m, "expired")))
      <3>1. [m EXCEPT !.status = "expired", !.commit = m.commit]
                = [m EXCEPT !.status = "expired"]
        BY <1>1
      <3> QED BY <1>2, <2>1, <3>1 DEF MarkTerminal, Ended
    <2> QED BY <1>3, <2>2, <2>3, <2>4, <2>5 DEF VerifyAnswers, SetsTo
  <1>4. CASE PersistAnswers(s)
    <2> DEFINE c == [m EXCEPT !.op = "commit", !.commit = "running"]
    <2>1. m.op = "persist" /\ m.start # "opening" /\ m.commit = "none"
      BY <1>1, <1>4 DEF PersistAnswers, OperationOK
    <2>2. ~Ended(m) /\ ~m.due => Follows(m, c)
      <3>1. /\ c \in Login /\ c.op = "commit" /\ c.commit = "running"
            /\ \A f \in DOMAIN m \ {"op", "commit"} : c[f] = m[f]
        <4>1. c \in Login
          <5> HIDE DEF TerminalStatus
          <5> QED BY <1>1
        <4> QED BY <4>1, <1>1
      <3>2. ~Ended(m) => m.status = "verifying"
        BY <1>1, <2>1 DEF OperationOK
      <3>3. ~Ended(m) => OperationOK(c)
        BY <1>1, <2>1, <3>1, <3>2 DEF OperationOK, Ended
      <3>4. BrowserOK(m) => BrowserOK(c)
        BY <1>1, <2>1, <3>1 DEF BrowserOK
      <3> QED BY <1>1, <2>1, <3>1, <3>2, <3>3, <3>4 DEF Follows, Marked
    <2>4. Ended(m) => Follows(m, EndOperation(m))
      <3>1. [m EXCEPT !.status = m.status, !.commit = m.commit] = m
        BY <1>1
      <3> QED BY <1>2, <2>1, <3>1
    <2>5. ~Ended(m) => Follows(m, EndOperation(MarkTerminal(m, "expired")))
      <3>1. [m EXCEPT !.status = "expired", !.commit = m.commit]
                = [m EXCEPT !.status = "expired"]
        BY <1>1
      <3> QED BY <1>2, <2>1, <3>1 DEF MarkTerminal, Ended
    <2> QED BY <1>4, <2>2, <2>4, <2>5 DEF PersistAnswers, SetsTo
  <1>5. ASSUME m.op # "none", NEW c \in {m.commit, "failed"}
        PROVE  Follows(m, FailOperation([m EXCEPT !.commit = c]))
    <2> DEFINE k == [[m EXCEPT !.commit = c] EXCEPT !.op = "cleanup"]
    <2>1. /\ k \in Login /\ k.op = "cleanup" /\ k.commit = c
          /\ \A f \in DOMAIN m \ {"op", "commit"} : k[f] = m[f]
      <3>1. k \in Login
        <4>1. c \in {"none", "running", "done", "failed"}
          BY <1>1, <1>5
        <4> QED BY <1>1, <4>1
      <3> QED BY <3>1, <1>1, <1>5
    <2>2. k.start # "opening" /\ (k.reaper => k.start = "done")
      BY <1>1, <1>5, <2>1 DEF OperationOK
    <2>3. BrowserOK(m) => BrowserOK(k) /\ k.open # "pending"
      BY <1>1, <1>5, <2>1 DEF BrowserOK
    <2>4. /\ k.status = m.status /\ k.cleanup = m.cleanup
          /\ k.released = m.released
      BY <1>1
    <2>5. Follows(m, EnsureCleanup(MarkTerminal(k, "failed")))
      BY <1>1, <1>5, <2>1, <2>2, <2>3, <2>4, EndsFollow
    <2> QED BY <2>5 DEF FailOperation
  <1>6. CASE ProviderFails(s)
    <2>1. [m EXCEPT !.commit = m.commit] = m
      BY <1>1
    <2> QED BY <1>5, <1>6, <2>1 DEF ProviderFails, SetsTo
  <1>7. CASE CommitFails(s)
    BY <1>5, <1>7 DEF CommitFails, SetsTo
  <1>8. CASE CommitSucceeds(s)
    <2> DEFINE d == [m EXCEPT !.commit = "done"]
               k == [d EXCEPT !.status = "confirmed", !.op = "cleanup"]
    <2>1. m.op = "commit" /\ m.start # "opening"
      BY <1>1, <1>8 DEF CommitSucceeds, OperationOK
    <2>2. m.status # "verifying" => Follows(m, EndOperation(d))
      <3>1. [m EXCEPT !.status = m.status, !.commit = "done"] = d
        BY <1>1
      <3>2. m.status # "verifying" => Ended(m)
        BY <1>1, <2>1 DEF OperationOK
      <3> QED BY <1>1, <1>2, <2>1, <3>1, <3>2
    <2>3. m.status = "verifying" => Follows(m, EnsureCleanup(k))
      <3>1. /\ k \in Login /\ k.op = "cleanup" /\ k.commit = "done"
            /\ k.status = "confirmed" /\ Ended(k)
            /\ \A f \in DOMAIN m \ {"op", "commit", "status"} : k[f] = m[f]
        <4>1. k \in Login
          BY <1>1 DEF Ended
        <4> QED BY <4>1, <1>1 DEF Ended
      <3> DEFINE n == EnsureCleanup(k)
      <3>5. n \in Login
        BY <3>1, EnsureCleanupType
      <3>2. /\ n.op = "cleanup" /\ n.commit = "done"
            /\ n.status = "confirmed"
            /\ n.cleanup = k.cleanup \/ ~n.released
            /\ n.released = m.released /\ n.start = m.start
            /\ n.reaper = m.reaper /\ n.maintain = m.maintain
            /\ n.open = m.open /\ n.browser = m.browser
            /\ n.timer = m.timer
        BY <1>1 DEF EnsureCleanup
      <3>3. OperationOK(n)
        BY <1>1, <2>1, <3>1, <3>2 DEF OperationOK, Ended
      <3>4. BrowserOK(m) => BrowserOK(n)
        BY <1>1, <2>1, <3>1, <3>2 DEF BrowserOK
      <3> QED BY <1>1, <3>2, <3>3, <3>4, <3>5 DEF Follows, Marked, Ended
    <2> QED BY <1>8, <2>2, <2>3 DEF CommitSucceeds, SetsTo
  <1>9. CASE OperationReturns(s)
    <2>1. m.op = "cleanup" /\ Ended(m)
      BY <1>1, <1>9 DEF OperationReturns, OperationOK, Ended
    <2>2. [m EXCEPT !.status = m.status, !.commit = m.commit] = m
      BY <1>1
    <2>3. Follows(m, EndOperation(m))
      BY <1>2, <2>1, <2>2
    <2> QED BY <1>9, <2>3 DEF OperationReturns, SetsTo
  <1>10. CASE Maintain(s)
    <2> DEFINE k == [m EXCEPT !.maintain = FALSE]
    <2>1. k \in Login /\ \A f \in DOMAIN m \ {"maintain"} : k[f] = m[f]
      BY <1>1
    <2>2. BrowserOK(m) => BrowserOK(k) /\ k.open # "pending"
      BY <1>1, <1>10, <2>1 DEF BrowserOK, Maintain
    <2>3. ~Ended(m) => Follows(m, k)
      BY <1>1, <2>1, <2>2 DEF Follows, OperationOK, Ended, Marked
    <2>4. Ended(m) => Follows(m, EnsureCleanup(k))
      <3>1. k.start # "opening" \/ ~Ended(m)
        BY <1>1, <2>1 DEF OperationOK, Ended
      <3>2. Ended(m) => MarkTerminal(k, "failed") = k
        BY <2>1 DEF MarkTerminal, Ended
      <3> QED BY <1>1, <2>1, <2>2, <3>1, <3>2, EndsFollow DEF OperationOK
    <2> QED BY <1>10, <2>1, <2>3, <2>4 DEF Maintain, SetsTo, Ended
  <1> QED BY <1>3, <1>4, <1>6, <1>7, <1>8, <1>9, <1>10

LEMMA StopTimerFields ==
    ASSUME NEW m \in Login
    PROVE  LET b == StopTimer(m)
           IN  /\ b \in Login /\ b.cleanup = "browser"
               /\ b.timer = "none" <=> m.timer = "none"
               /\ b.status = m.status /\ b.start = m.start /\ b.open = m.open
               /\ b.browser = m.browser /\ b.commit = m.commit
               /\ b.op = m.op /\ b.reaper = m.reaper
               /\ b.released = m.released /\ b.maintain = m.maintain
               /\ b.due = m.due
  <1>1. CASE m.timer = "none"
    BY <1>1 DEF StopTimer, Login
  <1>2. CASE m.timer # "none"
    <2>1. StopTimer(m) = [m EXCEPT !.cleanup = "browser", !.timer = "done"]
      BY <1>2 DEF StopTimer
    <2> QED BY <1>2, <2>1 DEF Login
  <1> QED BY <1>1, <1>2

\* The cleanup, up to the release of the lease.
LEMMA CleanupSteps ==
    ASSUME LoginInv, NEW s \in Session,
           CleanupBegins(s) \/ OperationCancelled(s) \/ CleanupGoesOn(s)
               \/ CleanupFails(s)
    PROVE  SetsTo(s)
  <1> USE DEF Login, TerminalStatus
  <1> DEFINE m == login[s]
  <1>1. m \in Login /\ OperationOK(m) /\ m.status # "none"
    BY DEF LoginInv, LoginTypeOK, Started, NoLogin, CleanupBegins,
           OperationCancelled, CleanupGoesOn, CleanupFails
  <1>2. m.cleanup # "none" /\ Ended(m) /\ m.start # "opening" /\ ~m.released
    BY <1>1 DEF CleanupBegins, OperationCancelled, CleanupGoesOn,
                CleanupFails, OperationOK
  <1>6. ASSUME NEW k \in Login, k.op \in {m.op, "none"},
               k.maintain = m.maintain \/ m.op # "none",
               k.status = m.status, k.start = m.start, k.open = m.open,
               k.browser = m.browser, k.commit = m.commit,
               k.reaper = m.reaper, k.released = m.released,
               k.timer = m.timer
        PROVE  Follows(m, StopTimer(k))
    <2> DEFINE n == StopTimer(k)
    <2>1. /\ n \in Login /\ n.cleanup = "browser" /\ n.op = k.op
          /\ n.timer = "none" <=> m.timer = "none"
          /\ n.status = m.status /\ n.start = m.start /\ n.open = m.open
          /\ n.browser = m.browser /\ n.commit = m.commit
          /\ n.reaper = m.reaper /\ n.released = m.released
          /\ n.maintain = k.maintain
      BY <1>6, StopTimerFields
    <2> HIDE DEF n
    <2>2. OperationOK(n)
      BY <1>1, <1>2, <1>6, <2>1 DEF OperationOK, Ended
    <2>3. BrowserOK(m) => BrowserOK(n)
      BY <1>1, <1>2, <1>6, <2>1 DEF BrowserOK
    <2>4. Follows(m, n)
      BY <1>1, <1>2, <2>1, <2>2, <2>3 DEF Follows, Ended, Marked
    <2> QED BY <2>4 DEF n
  \* The operation ends, or only the phase of the cleanup changes.
  <1>7. ASSUME NEW k \in {m, EndOperation(m)}, NEW c \in {m.cleanup,
               "operation"}, k # m => m.op # "none"
        PROVE  Follows(m, [k EXCEPT !.cleanup = c])
    <2> DEFINE n == [k EXCEPT !.cleanup = c]
    <2>1. /\ k \in Login /\ k.op \in {m.op, "none"}
          /\ k.maintain = m.maintain \/ m.op # "none"
          /\ \A f \in DOMAIN m \ {"op", "maintain"} : k[f] = m[f]
      BY <1>1, <1>7 DEF EndOperation
    <2>2. c \in {"begin", "operation", "browser", "done", "failed"}
      BY <1>1, <1>2
    <2> HIDE DEF TerminalStatus
    <2>3. /\ n \in Login /\ n.op = k.op /\ n.maintain = k.maintain
          /\ \A f \in DOMAIN m \ {"op", "maintain", "cleanup"} : n[f] = m[f]
          /\ n.cleanup # "none"
      BY <1>1, <2>1, <2>2
    <2> HIDE DEF n
    <2>4. /\ n.status = m.status /\ n.start = m.start /\ n.open = m.open
          /\ n.browser = m.browser /\ n.commit = m.commit
          /\ n.reaper = m.reaper /\ n.released = m.released
          /\ n.timer = m.timer
      BY <1>1, <2>3
    <2>5. OperationOK(n)
      BY <1>1, <1>2, <2>1, <2>3, <2>4 DEF OperationOK, Ended, TerminalStatus
    <2>6. BrowserOK(m) => BrowserOK(n)
      BY <1>1, <1>2, <2>1, <2>3, <2>4 DEF BrowserOK
    <2> QED BY <1>1, <1>2, <2>3, <2>4, <2>5, <2>6
            DEF n, Follows, Ended, Marked
  <1>3. CASE CleanupBegins(s)
    <2>1. Follows(m, [CancelOperation(m) EXCEPT !.cleanup = "operation"])
      BY <1>7 DEF CancelOperation
    <2>2. Follows(m, StopTimer(m))
      BY <1>1, <1>6
    <2> QED BY <1>3, <2>1, <2>2 DEF CleanupBegins, SetsTo
  <1>4. CASE CleanupGoesOn(s)
    <2>1. Follows(m, StopTimer(m))
      BY <1>1, <1>6
    <2> QED BY <1>4, <2>1 DEF CleanupGoesOn, SetsTo
  <1>8. CASE OperationCancelled(s)
    <2> DEFINE e == EndOperation(m)
    <2>1. [e EXCEPT !.cleanup = m.cleanup] = e
      BY <1>1 DEF EndOperation
    <2>2. Follows(m, e)
      BY <1>7, <1>8, <2>1 DEF OperationCancelled
    <2> QED BY <1>8, <2>2 DEF OperationCancelled, SetsTo
  <1>5. CASE CleanupFails(s)
    <2> DEFINE n == [m EXCEPT !.status = "failed", !.cleanup = "failed"]
    <2>1. /\ n \in Login /\ n.status = "failed" /\ n.cleanup = "failed"
          /\ n.start = m.start /\ n.open = m.open /\ n.timer = m.timer
          /\ n.browser = m.browser /\ n.commit = m.commit /\ n.op = m.op
          /\ n.reaper = m.reaper /\ n.released = m.released
          /\ n.maintain = m.maintain
      <3>1. n \in Login
        BY <1>1
      <3> QED BY <3>1, <1>1
    <2>2. OperationOK(n)
      BY <1>1, <1>2, <2>1 DEF OperationOK, Ended
    <2>3. BrowserOK(m) => BrowserOK(n)
      BY <1>1, <1>2, <2>1 DEF BrowserOK
    <2>4. Follows(m, n)
      BY <1>1, <1>2, <1>5, <2>1, <2>2, <2>3
         DEF CleanupFails, Follows, Ended, Marked
    <2> QED BY <1>5, <2>4 DEF CleanupFails, SetsTo
  <1> QED BY <1>3, <1>4, <1>5, <1>8

\* All of these steps keep the invariant.
LEMMA SetsToInv ==
    ASSUME LoginInv, NEW s \in Session, SetsTo(s)
    PROVE  LoginInv'
  <1>1. PICK n : Follows(login[s], n) /\ Set(s, n)
    BY DEF SetsTo
  <1>2. /\ login \in [Session -> Login]
        /\ login' = [login EXCEPT ![s] = n]
        /\ UNCHANGED <<closer, incomplete, leases>>
        /\ n \in Login
    BY <1>1 DEF Set, LoginInv, LoginTypeOK, Follows
  <1>3. /\ login'[s] = n
        /\ \A t \in Session \ {s} : login'[t] = login[t]
    BY <1>2
  <1>4. LoginTypeOK'
    BY <1>2 DEF LoginInv, LoginTypeOK, LeasesTypeOK
  <1>5. \A t \in Session : Started(login[t])' /\ OperationOK(login[t])'
    BY <1>1, <1>3 DEF LoginInv, Follows, Started
  <1>6. \A t \in Session : HoldsLease(t)'
    BY <1>1, <1>2, <1>3 DEF LoginInv, Follows, HoldsLease
  <1>7. closer' \notin {"open", "requested"} =>
            \A t \in Session : login'[t].start # "opening"
    BY <1>1, <1>2, <1>3 DEF LoginInv, Follows
  <1>8. closer' = "cleaning" => \A t \in Session : Marked(login[t])'
    BY <1>1, <1>2, <1>3 DEF LoginInv, Follows
  <1>9. closer' = "open" =>
            \A t \in Session : BrowserOK(login[t])'
    BY <1>1, <1>2, <1>3 DEF LoginInv, Follows
  <1> QED BY <1>4, <1>5, <1>6, <1>7, <1>8, <1>9 DEF LoginInv

\* The steps that take and give back the lease.
LEMMA StartInv ==
    ASSUME LoginInv, NEW s \in Session, Start(s)
    PROVE  LoginInv'
  <1> USE DEF Login, TerminalStatus
  <1> DEFINE n == [NoLogin EXCEPT !.status = "launching", !.start = "opening",
                                  !.open = "pending"]
  <1>1. /\ login \in [Session -> Login]
        /\ login' = [login EXCEPT ![s] = n]
        /\ UNCHANGED <<closer, incomplete>> /\ closer = "open"
        /\ leases' = [leases EXCEPT ![KeyOf[s]] = s]
        /\ leases[KeyOf[s]] = NoSession
        /\ KeyOf[s] \in AccountKey
    BY LoginAssumption DEF Start, AcquireLease, LoginInv, LoginTypeOK, NoLogin
  <1>2. n \in Login /\ OperationOK(n) /\ BrowserOK(n) /\ n.status # "none"
    BY DEF NoLogin, OperationOK, BrowserOK, Ended
  <1>3. /\ login'[s] = n
        /\ \A t \in Session \ {s} : login'[t] = login[t]
    BY <1>1
  <1>4. LoginTypeOK'
    BY <1>1, <1>2 DEF LoginInv, LoginTypeOK, LeasesTypeOK
  <1>5. \A t \in Session : Started(login[t])' /\ OperationOK(login[t])'
    <2> HIDE DEF n
    <2> QED BY <1>2, <1>3 DEF LoginInv, Started
  <1>6. \A t \in Session : HoldsLease(t)'
    BY <1>1, <1>3, HolderAssumption
       DEF LoginInv, LoginTypeOK, LeasesTypeOK, HoldsLease
  <1>7. closer' = "open" =>
            \A t \in Session : BrowserOK(login[t])'
    BY <1>1, <1>2, <1>3 DEF LoginInv
  <1> QED BY <1>1, <1>4, <1>5, <1>6, <1>7 DEF LoginInv

LEMMA ReleaseInv ==
    ASSUME LoginInv, NEW s \in Session, CleanupSucceeds(s)
    PROVE  LoginInv'
  <1> USE DEF Login, TerminalStatus
  <1> DEFINE m == login[s]
             n == [m EXCEPT !.open = IF m.browser THEN "none" ELSE @,
                            !.browser = FALSE, !.released = TRUE,
                            !.cleanup = "done"]
  <1>1. m \in Login /\ OperationOK(m) /\ m.cleanup = "browser"
    BY DEF LoginInv, LoginTypeOK, CleanupSucceeds
  <1>2. /\ login \in [Session -> Login]
        /\ login' = [login EXCEPT ![s] = n]
        /\ UNCHANGED <<closer, incomplete>>
        /\ leases' = [leases EXCEPT ![KeyOf[s]] = IF @ = s THEN NoSession
                                                           ELSE @]
    BY DEF CleanupSucceeds, ReleaseLease, LoginInv, LoginTypeOK
  <1>3. /\ n \in Login /\ n.released /\ n.cleanup = "done" /\ ~n.browser
        /\ n.open = IF m.browser THEN "none" ELSE m.open
        /\ n.status = m.status /\ n.start = m.start /\ n.timer = m.timer
        /\ n.commit = m.commit /\ n.op = m.op /\ n.reaper = m.reaper
        /\ n.maintain = m.maintain
    <2>1. n \in Login
      <3> DEFINE open == IF m.browser THEN "none" ELSE m.open
      <3>1. open \in {"none", "pending", "live"}
        BY <1>1
      <3>2. n = [m EXCEPT !.open = open, !.browser = FALSE,
                          !.released = TRUE, !.cleanup = "done"]
        BY <1>1
      <3> HIDE DEF open, n
      <3> QED BY <1>1, <3>1, <3>2
    <2> QED BY <2>1, <1>1
  <1>4. OperationOK(n)
    BY <1>1, <1>3 DEF OperationOK, Ended
  <1>5. BrowserOK(m) => BrowserOK(n)
    BY <1>1, <1>3 DEF BrowserOK
  <1>6. /\ login'[s] = n
        /\ \A t \in Session \ {s} : login'[t] = login[t]
    BY <1>2
  <1>7. LoginTypeOK'
    <2> HIDE DEF n, Login
    <2> QED BY <1>2, <1>3 DEF LoginInv, LoginTypeOK, LeasesTypeOK
  <1>8. \A t \in Session : Started(login[t])' /\ OperationOK(login[t])'
    <2>1. m.status # "none"
      BY <1>1 DEF OperationOK, Ended
    <2> HIDE DEF n
    <2> QED BY <1>3, <1>4, <1>6, <2>1 DEF LoginInv, Started
  <1>9. \A t \in Session : HoldsLease(t)'
    BY <1>2, <1>3, <1>6, LoginAssumption
       DEF LoginInv, LoginTypeOK, LeasesTypeOK, HoldsLease
  <1>10. closer' \notin {"open", "requested"} =>
             \A t \in Session : login'[t].start # "opening"
    BY <1>2, <1>3, <1>6 DEF LoginInv
  <1>11. closer' = "cleaning" => \A t \in Session : Marked(login[t])'
    BY <1>2, <1>3, <1>6 DEF LoginInv, Marked, Ended
  <1>12. closer' = "open" =>
             \A t \in Session : BrowserOK(login[t])'
    BY <1>2, <1>5, <1>6 DEF LoginInv
  <1> QED BY <1>7, <1>8, <1>9, <1>10, <1>11, <1>12 DEF LoginInv

\* The service closes: what it does to one session.
LEMMA KillStartFields ==
    ASSUME NEW m \in Login, OperationOK(m)
    PROVE  LET n == KillStart(m)
           IN  /\ n \in Login /\ OperationOK(n)
               /\ \/ n.status = m.status
                  \/ Ended(n) /\ ~Ended(m) /\ m.start # "none"
               /\ n.released = m.released /\ n.commit = m.commit
               /\ n.start # "opening"
  <1> USE DEF Login, TerminalStatus
  <1> DEFINE k == [m EXCEPT !.start = "cleanup"]
  <1>1. CASE m.start = "opening"
    <2> DEFINE n == [m EXCEPT !.start = "grace_cancelled"]
    <2>1. /\ n \in Login /\ n.status = m.status
          /\ n.start = "grace_cancelled"
          /\ n.reaper = m.reaper /\ n.released = m.released
          /\ n.op = m.op /\ n.commit = m.commit /\ n.cleanup = m.cleanup
      OBVIOUS
    <2>2. KillStart(m) = n
      BY <1>1 DEF KillStart
    <2> HIDE DEF n
    <2>3. OperationOK(n)
      BY <1>1, <2>1 DEF OperationOK, Ended
    <2> QED BY <2>1, <2>2, <2>3
  <1>2. CASE m.start \in {"grace_expired", "grace_cancelled"}
    <2>1. ~m.reaper
      BY <1>2 DEF OperationOK
    <2> DEFINE e == MarkTerminal(k, "cancelled")
               n == EnsureCleanup(e)
    <2>2. /\ e \in Login /\ Ended(e)
          /\ e.status = IF Ended(m) THEN m.status ELSE "cancelled"
          /\ e.start = "cleanup" /\ ~e.reaper /\ e.released = m.released
          /\ e.op = m.op /\ e.commit = m.commit /\ e.cleanup = m.cleanup
      <3>1. e \in Login
        BY <2>1 DEF MarkTerminal, Ended
      <3> QED BY <3>1, <2>1 DEF MarkTerminal, Ended
    <2>3. /\ n \in Login /\ n.status = e.status /\ n.start = "cleanup"
          /\ ~n.reaper /\ n.released = m.released
          /\ n.op = m.op /\ n.commit = m.commit
          /\ n.released => n.cleanup = m.cleanup
      <3> HIDE DEF e
      <3> QED BY <2>2, EnsureCleanupType DEF EnsureCleanup
    <2>4. OperationOK(n)
      BY <2>2, <2>3 DEF OperationOK, Ended
    <2>5. KillStart(m) = n
      BY <1>2 DEF KillStart
    <2>6. Ended(n) /\ (n.status = m.status \/ ~Ended(m))
      BY <2>2, <2>3 DEF Ended
    <2> HIDE DEF n
    <2> QED BY <1>2, <2>3, <2>4, <2>5, <2>6
  <1>3. CASE m.start = "aborting"
    <2>1. /\ k \in Login /\ k.status = m.status /\ k.start = "cleanup"
          /\ k.reaper = m.reaper /\ k.released = m.released
          /\ k.op = m.op /\ k.commit = m.commit /\ k.cleanup = m.cleanup
      OBVIOUS
    <2> DEFINE n == EnsureCleanup(k)
    <2>2. /\ n \in Login /\ n.status = m.status /\ n.start = "cleanup"
          /\ n.reaper = m.reaper /\ n.released = m.released
          /\ n.op = m.op /\ n.commit = m.commit
          /\ n.cleanup = m.cleanup \/ ~n.released
      <3> HIDE DEF k
      <3> QED BY <2>1, EnsureCleanupType DEF EnsureCleanup
    <2>3. KillStart(m) = n
      BY <1>3 DEF KillStart
    <2> HIDE DEF n
    <2>4. OperationOK(n)
      BY <1>3, <2>2 DEF OperationOK, Ended
    <2> QED BY <2>2, <2>3, <2>4
  <1>4. CASE m.start \notin {"opening", "grace_expired", "grace_cancelled",
                             "aborting"}
    <2> DEFINE n == IF m.start = "cleanup" THEN [m EXCEPT !.start = "done"]
                                           ELSE m
    <2>1. /\ n \in Login /\ n.status = m.status
          /\ n.start \in {"none", "done"}
          /\ n.reaper = m.reaper /\ n.released = m.released
          /\ n.op = m.op /\ n.commit = m.commit /\ n.cleanup = m.cleanup
      BY <1>4
    <2>2. KillStart(m) = n
      BY <1>4 DEF KillStart
    <2>3. m.reaper => n.start = "done"
      BY <1>4 DEF OperationOK
    <2> HIDE DEF n
    <2>4. OperationOK(n)
      BY <1>4, <2>1, <2>3 DEF OperationOK, Ended
    <2> QED BY <2>1, <2>2, <2>4
  <1> QED BY <1>1, <1>2, <1>3, <1>4

\* A step of the closing service changes every session m to a session n.
Closes(m, n) ==
    /\ n \in Login /\ OperationOK(n)
    /\ m = NoLogin => n = NoLogin
    /\ m.status # "none" => n.status # "none"
    /\ n.released = m.released /\ n.commit = m.commit
    /\ n.status = m.status \/ ~Ended(m)
    /\ n.start = "opening" => m.start = "opening"
    /\ Marked(m) => Marked(n)

LEMMA ClosesInv ==
    ASSUME LoginInv, closer' # "open",
           \A s \in Session : Closes(login[s], login'[s]),
           login' = [s \in Session |-> login'[s]],
           closer' \in CloserPC, incomplete' \in BOOLEAN, leases' = leases,
           closer' \in {"open", "requested"} \/
               \A s \in Session : login'[s].start # "opening",
           closer' = "cleaning" => \A s \in Session : Marked(login'[s])
    PROVE  LoginInv'
  <1>1. LoginTypeOK'
    BY DEF LoginInv, LoginTypeOK, LeasesTypeOK, Closes
  <1>2. \A s \in Session : Started(login[s])' /\ OperationOK(login[s])'
    BY DEF LoginInv, Started, Closes
  <1>3. \A s \in Session : HoldsLease(s)'
    BY DEF LoginInv, HoldsLease, Started, Closes, NoLogin
  <1> QED BY <1>1, <1>2, <1>3 DEF LoginInv

LEMMA UnchangedCloses ==
    ASSUME NEW m \in Login, OperationOK(m)
    PROVE  Closes(m, m)
  BY DEF Closes

LEMMA MarkTerminalCloses ==
    ASSUME NEW m \in Login, OperationOK(m), m.status # "none",
           m.start # "opening"
    PROVE  Closes(m, MarkTerminal(m, "cancelled"))
           /\ Ended(MarkTerminal(m, "cancelled"))
  <1> DEFINE n == MarkTerminal(m, "cancelled")
  <1> USE DEF Login, TerminalStatus
  <1>1. /\ n \in Login /\ Ended(n) /\ n.start = m.start
        /\ n.status = m.status \/ ~Ended(m)
        /\ n.reaper = m.reaper /\ n.released = m.released
        /\ n.op = m.op /\ n.commit = m.commit /\ n.cleanup = m.cleanup
    BY DEF MarkTerminal, Ended
  <1> HIDE DEF n
  <1>2. OperationOK(n)
    BY <1>1 DEF OperationOK, Ended
  <1>3. m # NoLogin /\ n.status # "none"
    BY <1>1 DEF NoLogin, Ended
  <1>4. Closes(m, n) /\ Ended(n)
    BY <1>1, <1>2, <1>3 DEF Closes, Marked
  <1> QED BY <1>4 DEF n

LEMMA EnsureCleanupCloses ==
    ASSUME NEW m \in Login, OperationOK(m), Ended(m), m.start # "opening"
    PROVE  Closes(m, EnsureCleanup(m)) /\ EnsureCleanup(m).start = m.start
  <1> DEFINE n == EnsureCleanup(m)
  <1> USE DEF Login, TerminalStatus
  <1>1. /\ n \in Login /\ n.start = m.start /\ n.status = m.status
        /\ n.reaper = m.reaper /\ n.released = m.released
        /\ n.op = m.op /\ n.commit = m.commit
        /\ n.cleanup = m.cleanup \/ ~n.released
    BY EnsureCleanupType DEF EnsureCleanup
  <1> HIDE DEF n
  <1>2. OperationOK(n)
    BY <1>1 DEF OperationOK, Ended
  <1>3. m # NoLogin /\ n.status # "none"
    BY <1>1 DEF NoLogin, Ended
  <1>4. Closes(m, n) /\ n.start = m.start
    BY <1>1, <1>2, <1>3 DEF Closes, Marked, Ended
  <1> QED BY <1>4 DEF n

LEMMA ClosingInv ==
    ASSUME LoginInv, CloseService \/ Closing
    PROVE  LoginInv' /\ \A s \in Session : Closes(login[s], login'[s])
  <1>1. closer' # "open"
    BY DEF CloseService, Closing, CloseKillsStarts, CloseMarks, CloseCleans,
           CloseEnds
  <1>2. \A s \in Session : /\ login[s] \in Login /\ OperationOK(login[s])
                           /\ login[s].status = "none" => login[s] = NoLogin
    BY DEF LoginInv, LoginTypeOK, Started
  <1>3. CASE CloseService
    <2>1. /\ \A s \in Session : Closes(login[s], login'[s])
          /\ login' = login /\ leases' = leases
      BY <1>2, <1>3, UnchangedCloses DEF CloseService
    <2>2. closer' = "requested" /\ incomplete' = FALSE
      BY <1>3 DEF CloseService
    <2> QED BY <1>1, <2>1, <2>2, ClosesInv DEF CloserPC, LoginInv, LoginTypeOK
  <1>4. CASE CloseKillsStarts
    <2>1. \A s \in Session : login'[s] = KillStart(login[s])
      BY <1>4 DEF CloseKillsStarts
    <2>2. ASSUME NEW s \in Session
          PROVE  Closes(login[s], login'[s]) /\ login'[s].start # "opening"
      <3>1. KillStart(NoLogin) = NoLogin
        BY DEF KillStart, NoLogin
      <3>2. login[s] # NoLogin => login[s].status # "none"
        BY <1>2
      <3> QED BY <1>2, <2>1, <3>1, <3>2, KillStartFields
              DEF Closes, Marked, Ended, TerminalStatus
    <2>3. /\ closer' = "marking" /\ incomplete' \in BOOLEAN
          /\ leases' = leases
          /\ login' = [s \in Session |-> login'[s]]
      BY <1>4 DEF CloseKillsStarts, LoginInv, LoginTypeOK
    <2> QED BY <1>1, <2>2, <2>3, ClosesInv DEF CloserPC
  <1>5. CASE CloseMarks
    <2>1. \A s \in Session :
              login'[s] = IF login[s].status = "none" \/ Updating(login[s])
                          THEN login[s]
                          ELSE MarkTerminal(login[s], "cancelled")
      BY <1>5 DEF CloseMarks
    <2>2. ASSUME NEW s \in Session
          PROVE  /\ Closes(login[s], login'[s]) /\ Marked(login'[s])
                 /\ login'[s].start # "opening"
      <3>1. login[s].start # "opening"
        BY <1>5 DEF CloseMarks, LoginInv
      <3>2. CASE login[s].status = "none" \/ Updating(login[s])
        <4>1. Marked(login[s])
          BY <1>2, <3>2 DEF Marked, Updating, OperationOK
        <4> QED BY <1>2, <2>1, <3>1, <3>2, <4>1, UnchangedCloses
      <3>3. CASE ~(login[s].status = "none" \/ Updating(login[s]))
        <4>1. /\ Closes(login[s], login'[s]) /\ Ended(login'[s])
          BY <1>2, <2>1, <3>1, <3>3, MarkTerminalCloses
        <4> QED BY <3>1, <4>1 DEF Closes, Marked
      <3> QED BY <3>2, <3>3
    <2>3. /\ closer' = "cleaning" /\ incomplete' \in BOOLEAN
          /\ leases' = leases
          /\ login' = [s \in Session |-> login'[s]]
      BY <1>5 DEF CloseMarks
    <2> QED BY <1>1, <2>2, <2>3, ClosesInv DEF CloserPC
  <1>6. CASE CloseCleans
    <2>1. \A s \in Session :
              login'[s] = IF login[s].status = "none"
                             \/ LeftToOthers(login[s])
                          THEN login[s] ELSE EnsureCleanup(login[s])
      BY <1>6 DEF CloseCleans
    <2>2. ASSUME NEW s \in Session
          PROVE  Closes(login[s], login'[s]) /\ login'[s].start # "opening"
      <3>1. login[s].start # "opening" /\ Marked(login[s])
        BY <1>6 DEF CloseCleans, LoginInv
      <3>2. CASE login[s].status = "none" \/ LeftToOthers(login[s])
        BY <1>2, <2>1, <3>1, <3>2, UnchangedCloses
      <3>3. CASE ~(login[s].status = "none" \/ LeftToOthers(login[s]))
        <4>1. Ended(login[s])
          BY <1>2, <3>1, <3>3 DEF Marked, LeftToOthers, Updating, OperationOK
        <4> QED BY <1>2, <2>1, <3>1, <3>3, <4>1, EnsureCleanupCloses
      <3> QED BY <3>2, <3>3
    <2>3. /\ closer' = "ending" /\ incomplete' \in BOOLEAN
          /\ leases' = leases
          /\ login' = [s \in Session |-> login'[s]]
      BY <1>6 DEF CloseCleans
    <2> QED BY <1>1, <2>2, <2>3, ClosesInv DEF CloserPC
  <1>7. CASE CloseEnds
    <2> DEFINE Stop(m) == [m EXCEPT !.timer = IF @ = "none" THEN @ ELSE "done"]
    <2>1. \A s \in Session : login'[s] = Stop(login[s])
      BY <1>7 DEF CloseEnds
    <2>2. ASSUME NEW s \in Session
          PROVE  Closes(login[s], login'[s]) /\ login'[s].start # "opening"
      <3>1. login[s].start # "opening"
        BY <1>7 DEF CloseEnds, LoginInv
      <3>2. ASSUME NEW m \in Login, OperationOK(m), m.start # "opening"
            PROVE  Closes(m, Stop(m)) /\ Stop(m).start # "opening"
        <4>1. CASE m.timer = "none"
          <5>1. Stop(m) = m
            BY <4>1 DEF Login
          <5> QED BY <3>2, <5>1, UnchangedCloses
        <4>2. CASE m.timer # "none"
          <5> DEFINE n == [m EXCEPT !.timer = "done"]
          <5>1. Stop(m) = n
            BY <4>2
          <5>2. /\ n \in Login /\ n.start = m.start /\ n.status = m.status
                /\ n.reaper = m.reaper /\ n.released = m.released
                /\ n.op = m.op /\ n.commit = m.commit
                /\ n.cleanup = m.cleanup
            BY DEF Login
          <5>3. m # NoLogin
            BY <4>2 DEF NoLogin
          <5> HIDE DEF n
          <5>4. OperationOK(n)
            BY <3>2, <5>2 DEF OperationOK, Ended
          <5> QED BY <3>2, <5>1, <5>2, <5>3, <5>4 DEF Closes, Marked, Ended
        <4> QED BY <4>1, <4>2
      <3> QED BY <1>2, <2>1, <3>1, <3>2
    <2>3. /\ closer' \in {"closed", "incomplete"} /\ incomplete' \in BOOLEAN
          /\ leases' = leases
          /\ login' = [s \in Session |-> login'[s]]
      BY <1>7 DEF CloseEnds, LoginInv, LoginTypeOK
    <2> QED BY <1>1, <2>2, <2>3, ClosesInv DEF CloserPC
  <1> QED BY <1>3, <1>4, <1>5, <1>6, <1>7 DEF Closing

-----------------------------------------------------------------------------
\* Which lemma covers which action.
LEMMA Steps ==
    ASSUME LoginInv, Next
    PROVE  \/ \E s \in Session :
                  Start(s) \/ CleanupSucceeds(s) \/ SetsTo(s)
           \/ CloseService \/ Closing
  <1>1. CASE CloseService \/ Closing
    BY <1>1
  <1>2. ASSUME NEW s \in Session,
               SessionStep(s) \/ SessionFault(s) \/ SessionRequest(s)
                   \/ DeadlinePasses(s)
        PROVE  Start(s) \/ CleanupSucceeds(s) \/ SetsTo(s)
    BY <1>2, OpenSteps, ReaperSteps, RequestSteps, OperationSteps,
       CleanupSteps DEF SessionStep, SessionFault, SessionRequest
  <1> QED BY <1>1, <1>2 DEF Next

LEMMA LoginInitInv ==
    ASSUME Init
    PROVE  LoginInv
  BY DEF Init, LeasesInit, LoginInv, LoginTypeOK, LeasesTypeOK, Login,
         NoLogin, CloserPC, TerminalStatus, Started, OperationOK, BrowserOK,
         HoldsLease, Ended

LEMMA LoginInvStep ==
    ASSUME LoginInv, [Next]_vars
    PROVE  LoginInv'
  <1>1. CASE Next
    <2>1. CASE \E s \in Session :
                   Start(s) \/ CleanupSucceeds(s) \/ SetsTo(s)
      BY <2>1, StartInv, ReleaseInv, SetsToInv
    <2>2. CASE CloseService \/ Closing
      BY <2>2, ClosingInv
    <2> QED BY <1>1, <2>1, <2>2, Steps
  <1>2. CASE UNCHANGED vars
    BY <1>2 DEF vars, LoginInv, LoginTypeOK, LeasesTypeOK, Started,
       OperationOK, BrowserOK, HoldsLease, Marked, Ended
  <1> QED BY <1>1, <1>2

LEMMA LoginInvariance == Spec => []LoginInv
  BY LoginInitInv, LoginInvStep, PTL DEF Spec

(* In every reachable state sessions, leases and the service are well typed *)
(* (_ManagedLoginSession, AccountLeaseManager).                             *)
THEOREM LoginTypeCorrect == Spec => []LoginTypeOK
  <1>1. LoginInv => LoginTypeOK
    BY DEF LoginInv
  <1> QED BY <1>1, LoginInvariance, PTL

(* Until the service is shut down, the account of a browser that is opening *)
(* or open is leased to its session (_cleanup_resources, _reap_open_result).*)
THEOREM LeasesCoverBrowsers == Spec => []LeaseCoversBrowser
  <1>1. LoginInv => LeaseCoversBrowser
    BY DEF LoginInv, LeaseCoversBrowser, HoldsLease, Started, BrowserOK,
           NoLogin
  <1> QED BY <1>1, LoginInvariance, PTL

\* What a step may do to the end of a session and to its account update.
LEMMA LoginStepFacts ==
    ASSUME LoginInv, [Next]_vars, NEW s \in Session
    PROVE  /\ Ended(login[s]) =>
                  \/ login'[s].status = login[s].status
                  \/ /\ login'[s].status = "failed"
                     /\ login[s].cleanup = "browser"
                     /\ login'[s].cleanup = "failed"
           /\ login[s].commit # "running" /\ login'[s].commit = "running" =>
                  /\ login[s].commit = "none" /\ ~login[s].due
                  /\ login[s].status = "verifying"
  <1>1. login \in [Session -> Login]
    BY DEF LoginInv, LoginTypeOK
  <1>2. ASSUME NEW t \in Session, Start(t) \/ CleanupSucceeds(t)
        PROVE  /\ Ended(login[s]) => login'[s].status = login[s].status
               /\ login'[s].commit = login[s].commit
    <2>1. CASE Start(t)
      <3>1. /\ login[t] = NoLogin
            /\ login' = [login EXCEPT ![t] =
                   [NoLogin EXCEPT !.status = "launching",
                                   !.start = "opening", !.open = "pending"]]
        BY <1>1, <2>1 DEF Start
      <3>2. ~Ended(NoLogin)
        BY DEF Ended, TerminalStatus, NoLogin
      <3> QED BY <1>1, <3>1, <3>2 DEF NoLogin
    <2>2. CASE CleanupSucceeds(t)
      <3> DEFINE m == login[t]
                 n == [m EXCEPT !.open = IF m.browser THEN "none" ELSE @,
                                !.browser = FALSE, !.released = TRUE,
                                !.cleanup = "done"]
      <3>1. login' = [login EXCEPT ![t] = n]
        BY <2>2 DEF CleanupSucceeds
      <3>2. n.status = m.status /\ n.commit = m.commit
        BY <1>1 DEF Login
      <3> HIDE DEF n
      <3> QED BY <1>1, <3>1, <3>2 DEF Ended
    <2> QED BY <1>2, <2>1, <2>2
  <1>3. ASSUME NEW t \in Session, SetsTo(t)
        PROVE  login'[s] = login[s] \/ Follows(login[s], login'[s])
    BY <1>1, <1>3 DEF SetsTo, Set
  <1>4. CASE UNCHANGED vars
    BY <1>4 DEF vars
  <1>5. CASE Next
    <2>1. CASE CloseService \/ Closing
      BY <2>1, ClosingInv DEF Closes
    <2>2. CASE \E t \in Session : Start(t) \/ CleanupSucceeds(t)
      BY <1>2, <2>2
    <2>3. CASE \E t \in Session : SetsTo(t)
      BY <1>3, <2>3 DEF Follows
    <2> QED BY <1>5, <2>1, <2>2, <2>3, Steps
  <1> QED BY <1>4, <1>5

(* The first end of a session stands, except that a browser that cannot be  *)
(* closed turns it into a failure (_mark_terminal_locked).                  *)
THEOREM EndsStand == Spec => EndStands
  <1>1. LoginInv /\ [Next]_vars =>
            [\A s \in Session :
                Ended(login[s]) =>
                    \/ login'[s].status = login[s].status
                    \/ /\ login'[s].status = "failed"
                       /\ login[s].cleanup = "browser"
                       /\ login'[s].cleanup = "failed"]_vars
    BY LoginStepFacts
  <1> QED BY <1>1, LoginInvariance, PTL DEF Spec, EndStands

(* An account is updated at most once in a session, which at that moment is *)
(* verifying, in time and holds the account (_run_verify).                  *)
THEOREM CommitsStartLive == Spec => CommitStartsLive
  <1>1. ASSUME LoginInv, NEW s \in Session, login[s].status = "verifying"
        PROVE  leases[KeyOf[s]] = s
    BY <1>1 DEF LoginInv, HoldsLease, OperationOK, Ended, TerminalStatus
  <1>2. LoginInv /\ [Next]_vars =>
            [\A s \in Session :
                login[s].commit # "running" /\ login'[s].commit = "running" =>
                    /\ login[s].commit = "none"
                    /\ login[s].status = "verifying" /\ ~login[s].due
                    /\ leases[KeyOf[s]] = s]_vars
    BY <1>1, LoginStepFacts
  <1> QED BY <1>2, LoginInvariance, PTL DEF Spec, CommitStartsLive

-----------------------------------------------------------------------------
(* The closed service                                                       *)

\* A cleanup that is past the operation has stopped it and the timeout, and a
\* session that failed or was confirmed has no verification under way.
Tidy(m) ==
    /\ m.op = "commit" => m.commit = "running"
    /\ m.op \in {"verify", "persist"} =>
           /\ m.cleanup \in {"none", "begin", "operation"}
           /\ m.status \notin {"failed", "confirmed"}
    /\ m.cleanup \in {"browser", "done", "failed"} => m.timer # "sleeping"

\* A lease is held by a session of that account that still owes it.
LeaseOwed(k) ==
    leases[k] # NoSession =>
        LET m == login[leases[k]]
        IN  KeyOf[leases[k]] = k /\ m.status # "none" /\ ~m.released

QuietInv ==
    /\ \A s \in Session : Tidy(login[s])
    /\ \A k \in AccountKey : LeaseOwed(k)
    /\ closer = "closed" =>
           \A s \in Session :
               \/ login[s].status = "none"
               \/ login[s].released /\ login[s].commit # "running"

LEMMA EnsureCleanupTidy ==
    ASSUME NEW m \in Login, Tidy(m)
    PROVE  Tidy(EnsureCleanup(m))
  BY DEF EnsureCleanup, Tidy, Login

\* Whoever fails a session has ended its verification.
LEMMA MarkTerminalTidy ==
    ASSUME NEW m \in Login, Tidy(m), NEW v \in TerminalStatus,
           m.op \in {"verify", "persist"} => v \in {"cancelled", "expired"}
    PROVE  /\ MarkTerminal(m, v) \in Login
           /\ Tidy(MarkTerminal(m, v)) /\ Tidy(EnsureCleanup(MarkTerminal(m, v)))
  <1>1. /\ MarkTerminal(m, v) \in Login
        /\ MarkTerminal(m, v).status \in {m.status, v}
        /\ \A f \in DOMAIN NoLogin \ {"status"} : MarkTerminal(m, v)[f] = m[f]
    BY MarkTerminalFields DEF MarkTerminal, Login, NoLogin
  <1>2. Tidy(MarkTerminal(m, v))
    BY <1>1 DEF Tidy, NoLogin
  <1> QED BY <1>1, <1>2, EnsureCleanupTidy

LEMMA EndOperationTidy ==
    ASSUME NEW m \in Login,
           m.cleanup \in {"browser", "done", "failed"} => m.timer # "sleeping"
    PROVE  EndOperation(m) \in Login /\ Tidy(EndOperation(m))
  BY EndOperationFields DEF EndOperation, Tidy, Login

LEMMA SetStartTidy ==
    ASSUME NEW m \in Login, Tidy(m),
           NEW to \in {"grace_expired", "grace_cancelled", "cleanup", "done"}
    PROVE  LET n == [m EXCEPT !.start = to]
           IN  n \in Login /\ Tidy(n)
  <1> DEFINE n == [m EXCEPT !.start = to]
  <1>1. /\ n \in Login /\ n.op = m.op /\ n.commit = m.commit
        /\ n.cleanup = m.cleanup /\ n.timer = m.timer
        /\ n.status = m.status
    BY DEF Login
  <1> HIDE DEF n
  <1>2. n \in Login /\ Tidy(n)
    BY <1>1 DEF Tidy
  <1> QED BY <1>2 DEF n

\* A step that works on one session, as it leaves it.
TidyTo(s) == \E n \in Login : Set(s, n) /\ Tidy(n)

LEMMA OpenTidy ==
    ASSUME LoginInv, NEW s \in Session, Tidy(login[s]),
           OpenSucceeds(s) \/ OpenFails(s) \/ OpenTimesOut(s)
               \/ StartReturns(s) \/ UnownedOpenEnds(s)
    PROVE  TidyTo(s)
  <1> DEFINE m == login[s]
  <1>1. m \in Login /\ OperationOK(m)
    BY DEF LoginInv, LoginTypeOK
  <1>2. CASE OpenSucceeds(s)
    <2> DEFINE k == [m EXCEPT !.open = "live", !.browser = TRUE]
               c == [k EXCEPT !.status = "cancelled", !.start = "aborting"]
               e == [k EXCEPT !.status = "expired", !.start = "cleanup"]
               w == [k EXCEPT !.status = "waiting_user", !.start = "done",
                              !.timer = "sleeping"]
    <2>1. m.cleanup = "none" /\ m.op = "none"
      BY <1>2, <1>1 DEF OpenSucceeds, OperationOK
    <2>2. k \in Login /\ k.cleanup = "none" /\ k.op = "none"
      BY <1>1, <2>1 DEF Login
    <2>3. \/ Set(s, EnsureCleanup(c)) \/ Set(s, EnsureCleanup(e))
          \/ Set(s, w)
      BY <1>2 DEF OpenSucceeds
    <2> HIDE DEF k
    <2>4. c \in Login /\ c.cleanup = "none" /\ c.op = "none"
      BY <2>2 DEF Login, TerminalStatus
    <2>5. e \in Login /\ e.cleanup = "none" /\ e.op = "none"
      BY <2>2 DEF Login, TerminalStatus
    <2>6. w \in Login /\ w.cleanup = "none" /\ w.op = "none"
      BY <2>2 DEF Login
    <2> HIDE DEF c, e, w
    <2>7. Tidy(c) /\ Tidy(e) /\ Tidy(w)
      BY <2>4, <2>5, <2>6 DEF Tidy
    <2> QED BY <2>3, <2>4, <2>5, <2>6, <2>7, EnsureCleanupType,
               EnsureCleanupTidy DEF TidyTo
  <1>3. CASE OpenFails(s)
    <2> DEFINE k == [m EXCEPT !.open = "none", !.start = "cleanup"]
    <2>1. m.cleanup = "none" /\ m.op = "none"
      BY <1>3, <1>1 DEF OpenFails, OperationOK
    <2>2. k \in Login /\ k.cleanup = "none" /\ k.op = "none"
      BY <1>1, <2>1 DEF Login
    <2>3. Set(s, EnsureCleanup(MarkTerminal(k, "failed")))
      BY <1>3 DEF OpenFails
    <2> HIDE DEF k
    <2>4. Tidy(k)
      BY <2>2 DEF Tidy
    <2>5. /\ EnsureCleanup(MarkTerminal(k, "failed")) \in Login
          /\ Tidy(EnsureCleanup(MarkTerminal(k, "failed")))
      BY <2>2, <2>4, MarkTerminalTidy, EnsureCleanupType DEF TerminalStatus
    <2> QED BY <2>3, <2>5 DEF TidyTo
  <1>4. CASE OpenTimesOut(s) \/ StartReturns(s)
    <2>1. PICK to \in {"grace_expired", "done"} :
              Set(s, [m EXCEPT !.start = to])
      BY <1>4 DEF OpenTimesOut, StartReturns
    <2> QED BY <1>1, <2>1, SetStartTidy DEF TidyTo
  <1>5. CASE UnownedOpenEnds(s)
    <2>1. PICK open \in {"none", "live"} : Set(s, [m EXCEPT !.open = open])
      BY <1>5 DEF UnownedOpenEnds
    <2> DEFINE n == [m EXCEPT !.open = open]
    <2>2. /\ n \in Login /\ n.op = m.op /\ n.commit = m.commit
          /\ n.cleanup = m.cleanup /\ n.timer = m.timer
          /\ n.status = m.status
      BY <1>1 DEF Login
    <2> HIDE DEF n
    <2>3. Tidy(n)
      BY <2>2 DEF Tidy
    <2> QED BY <2>1, <2>2, <2>3 DEF TidyTo, n
  <1> QED BY <1>2, <1>3, <1>4, <1>5

LEMMA ReaperTidy ==
    ASSUME LoginInv, NEW s \in Session, Tidy(login[s]), GraceEnds(s) \/ Reap(s)
    PROVE  TidyTo(s)
  <1> DEFINE m == login[s]
  <1>1. m \in Login
    BY DEF LoginInv, LoginTypeOK
  <1>2. ASSUME NEW k \in Login, Tidy(k)
        PROVE  LET gone == [k EXCEPT !.open = "none"]
                   live == [k EXCEPT !.open = "live", !.browser = TRUE]
               IN  /\ gone \in Login /\ Tidy(gone)
                   /\ live \in Login /\ Tidy(live)
    <2> DEFINE gone == [k EXCEPT !.open = "none"]
               live == [k EXCEPT !.open = "live", !.browser = TRUE]
    <2>1. gone \in Login /\ Tidy(gone)
      BY <1>2 DEF Login, Tidy
    <2>2. live \in Login /\ Tidy(live)
      <3>1. /\ live \in Login /\ live.op = k.op /\ live.commit = k.commit
            /\ live.cleanup = k.cleanup /\ live.timer = k.timer
            /\ live.status = k.status
        BY DEF Login
      <3> QED BY <1>2, <3>1 DEF Tidy
    <2> QED BY <2>1, <2>2
  <1>3. ASSUME NEW k \in Login, Tidy(k), NEW start \in {"cleanup", "done"}
        PROVE  LET n == [k EXCEPT !.start = start]
               IN  n \in Login /\ Tidy(n)
    BY <1>3 DEF Login, Tidy
  <1>4. ASSUME NEW k \in Login, Tidy(k), NEW reaper \in BOOLEAN
        PROVE  LET n == [k EXCEPT !.reaper = reaper]
               IN  n \in Login /\ Tidy(n)
    BY <1>4 DEF Login, Tidy
  <1>5. CASE GraceEnds(s)
    <2>1. PICK v \in {"expired", "cancelled"} :
              LET e == MarkTerminal(m, v)
              IN  \/ Set(s, EnsureCleanup([e EXCEPT !.open = "none",
                                                    !.start = "cleanup"]))
                  \/ Set(s, EnsureCleanup([e EXCEPT !.open = "live",
                                                    !.browser = TRUE,
                                                    !.start = "cleanup"]))
                  \/ Set(s, [e EXCEPT !.reaper = TRUE, !.start = "done"])
      BY <1>5 DEF GraceEnds
    <2> DEFINE e == MarkTerminal(m, v)
               gone == [[e EXCEPT !.open = "none"] EXCEPT !.start = "cleanup"]
               live == [[e EXCEPT !.open = "live", !.browser = TRUE]
                           EXCEPT !.start = "cleanup"]
               wait == [[e EXCEPT !.reaper = TRUE] EXCEPT !.start = "done"]
    <2>2. e \in Login /\ Tidy(e)
      BY <1>1, MarkTerminalTidy DEF TerminalStatus
    <2>3. \/ Set(s, EnsureCleanup(gone)) \/ Set(s, EnsureCleanup(live))
          \/ Set(s, wait)
      BY <2>1
    <2> HIDE DEF e
    <2>4. /\ gone \in Login /\ Tidy(gone)
          /\ live \in Login /\ Tidy(live)
          /\ wait \in Login /\ Tidy(wait)
      BY <1>2, <1>3, <1>4, <2>2
    <2> HIDE DEF gone, live, wait
    <2> QED BY <2>3, <2>4, EnsureCleanupType, EnsureCleanupTidy DEF TidyTo
  <1>6. CASE Reap(s)
    <2> DEFINE e == [m EXCEPT !.reaper = FALSE]
               gone == [e EXCEPT !.open = "none"]
               live == [e EXCEPT !.open = "live", !.browser = TRUE]
    <2>1. e \in Login /\ Tidy(e)
      BY <1>1, <1>4
    <2>2. Set(s, EnsureCleanup(gone)) \/ Set(s, EnsureCleanup(live))
      BY <1>6 DEF Reap
    <2> HIDE DEF e
    <2>3. /\ gone \in Login /\ Tidy(gone)
          /\ live \in Login /\ Tidy(live)
      BY <1>2, <2>1
    <2> HIDE DEF gone, live
    <2> QED BY <2>2, <2>3, EnsureCleanupType, EnsureCleanupTidy DEF TidyTo
  <1> QED BY <1>5, <1>6

LEMMA RequestTidy ==
    ASSUME LoginInv, NEW s \in Session, Tidy(login[s]),
           Verify(s) \/ Status(s) \/ Cancel(s) \/ DeadlinePasses(s)
               \/ TimerFires(s)
    PROVE  TidyTo(s)
  <1> DEFINE m == login[s]
             t == [m EXCEPT !.timer = "done"]
             w == [m EXCEPT !.status = "verifying", !.op = "verify"]
             d == [m EXCEPT !.due = TRUE]
  <1>1. m \in Login /\ OperationOK(m)
    BY DEF LoginInv, LoginTypeOK
  <1>2. /\ t \in Login /\ Tidy(t)
        /\ d \in Login /\ Tidy(d)
    <2>1. /\ t \in Login /\ t.op = m.op /\ t.commit = m.commit
          /\ t.cleanup = m.cleanup /\ t.timer = "done"
          /\ t.status = m.status
      BY <1>1 DEF Login
    <2>2. /\ d \in Login /\ d.op = m.op /\ d.commit = m.commit
          /\ d.cleanup = m.cleanup /\ d.timer = m.timer
          /\ d.status = m.status
      BY <1>1 DEF Login
    <2> HIDE DEF t, d
    <2> QED BY <2>1, <2>2 DEF Tidy
  <1>3. ASSUME m.status = "waiting_user"
        PROVE  w \in Login /\ Tidy(w)
    BY <1>1, <1>3 DEF Login, Tidy, OperationOK, Ended, TerminalStatus
  <1>4. \A k \in {m, t} : \A v \in {"expired", "cancelled"} :
            LET n == EnsureCleanup(MarkTerminal(k, v))
            IN  n \in Login /\ Tidy(n)
    <2> HIDE DEF t
    <2> QED BY <1>1, <1>2, MarkTerminalTidy, EnsureCleanupType
            DEF TerminalStatus
  <1>5. \/ Set(s, EnsureCleanup(MarkTerminal(m, "expired")))
        \/ Set(s, EnsureCleanup(MarkTerminal(m, "cancelled")))
        \/ Set(s, EnsureCleanup(MarkTerminal(t, "expired")))
        \/ Set(s, t) \/ Set(s, d)
        \/ m.status = "waiting_user" /\ Set(s, w)
    BY DEF Verify, Status, Cancel, DeadlinePasses, TimerFires
  <1> HIDE DEF t, w, d
  <1> QED BY <1>2, <1>3, <1>4, <1>5 DEF TidyTo

LEMMA OperationTidy ==
    ASSUME LoginInv, NEW s \in Session, Tidy(login[s]),
           VerifyAnswers(s) \/ PersistAnswers(s) \/ ProviderFails(s)
               \/ CommitSucceeds(s) \/ CommitFails(s) \/ OperationReturns(s)
               \/ Maintain(s)
    PROVE  TidyTo(s)
  <1> DEFINE m == login[s]
             x == MarkTerminal(m, "expired")
             w == [m EXCEPT !.status = "waiting_user"]
             p == [m EXCEPT !.op = "persist"]
             c == [m EXCEPT !.op = "commit", !.commit = "running"]
             d == [m EXCEPT !.commit = "done"]
             y == [d EXCEPT !.status = "confirmed", !.op = "cleanup"]
             f == [m EXCEPT !.op = "cleanup"]
             g == [[m EXCEPT !.commit = "failed"] EXCEPT !.op = "cleanup"]
             z == [m EXCEPT !.maintain = FALSE]
  <1>1. m \in Login /\ OperationOK(m)
    BY DEF LoginInv, LoginTypeOK
  <1>2. x \in Login /\ Tidy(x)
    BY <1>1, MarkTerminalTidy DEF TerminalStatus
  <1>3. /\ w \in Login /\ d \in Login
        /\ w.cleanup = m.cleanup /\ w.timer = m.timer
        /\ d.cleanup = m.cleanup /\ d.timer = m.timer
    BY <1>1 DEF Login
  <1>4. \A k \in {m, x, w, d} : EndOperation(k) \in Login
                                    /\ Tidy(EndOperation(k))
    <2>1. \A k \in {m, x, w, d} :
              /\ k \in Login
              /\ k.cleanup \in {"browser", "done", "failed"} =>
                     k.timer # "sleeping"
      <3> HIDE DEF x, w, d
      <3> QED BY <1>1, <1>2, <1>3 DEF Tidy
    <2> HIDE DEF x, w, d
    <2> QED BY <2>1, EndOperationTidy
  <1>5. /\ y \in Login /\ Tidy(y)
        /\ f \in Login /\ Tidy(f)
        /\ g \in Login /\ Tidy(g)
        /\ z \in Login /\ Tidy(z)
    <2>1. y \in Login /\ Tidy(y)
      <3>1. d \in Login /\ d.cleanup = m.cleanup /\ d.timer = m.timer
        BY <1>3
      <3> HIDE DEF d
      <3>2. /\ y \in Login /\ y.op = "cleanup"
            /\ y.cleanup = m.cleanup /\ y.timer = m.timer
        BY <3>1 DEF Login, TerminalStatus
      <3> HIDE DEF y
      <3> QED BY <3>2 DEF Tidy
    <2>2. f \in Login /\ Tidy(f)
      BY <1>1 DEF Login, Tidy
    <2>3. g \in Login /\ Tidy(g)
      <3>1. /\ g \in Login /\ g.op = "cleanup"
            /\ g.cleanup = m.cleanup /\ g.timer = m.timer
        BY <1>1 DEF Login
      <3> HIDE DEF g
      <3> QED BY <3>1 DEF Tidy
    <2>4. z \in Login /\ Tidy(z)
      <3>1. /\ z \in Login /\ z.op = m.op /\ z.commit = m.commit
            /\ z.cleanup = m.cleanup /\ z.timer = m.timer
            /\ z.status = m.status
        BY <1>1 DEF Login
      <3> HIDE DEF z
      <3> QED BY <3>1 DEF Tidy
    <2> QED BY <2>1, <2>2, <2>3, <2>4
  <1>6. EnsureCleanup(y) \in Login /\ Tidy(EnsureCleanup(y))
    <2> HIDE DEF y
    <2> QED BY <1>5, EnsureCleanupType, EnsureCleanupTidy
  <1>7. \A k \in {f, g} :
            LET n == EnsureCleanup(MarkTerminal(k, "failed"))
            IN  n \in Login /\ Tidy(n)
    <2>1. f.op = "cleanup" /\ g.op = "cleanup"
      BY <1>1 DEF Login
    <2> HIDE DEF f, g
    <2> QED BY <1>5, <2>1, MarkTerminalTidy, EnsureCleanupType
            DEF TerminalStatus
  <1>8. EnsureCleanup(z) \in Login /\ Tidy(EnsureCleanup(z))
    <2> HIDE DEF z
    <2> QED BY <1>5, EnsureCleanupType, EnsureCleanupTidy
  <1>9. m.op = "verify" => p \in Login /\ Tidy(p)
    BY <1>1 DEF Login, Tidy
  <1>10. c \in Login /\ Tidy(c)
    <2>1. /\ c \in Login /\ c.op = "commit" /\ c.commit = "running"
          /\ c.cleanup = m.cleanup /\ c.timer = m.timer
      BY <1>1 DEF Login
    <2> HIDE DEF c
    <2> QED BY <2>1 DEF Tidy
  <1>11. \/ Set(s, EndOperation(m)) \/ Set(s, EndOperation(x))
         \/ Set(s, EndOperation(w)) \/ Set(s, EndOperation(d))
         \/ m.op = "verify" /\ Set(s, p)
         \/ Set(s, c)
         \/ Set(s, EnsureCleanup(y))
         \/ Set(s, EnsureCleanup(MarkTerminal(f, "failed")))
         \/ Set(s, EnsureCleanup(MarkTerminal(g, "failed")))
         \/ Set(s, EnsureCleanup(z)) \/ Set(s, z)
    BY DEF VerifyAnswers, PersistAnswers, ProviderFails, CommitSucceeds,
           CommitFails, OperationReturns, Maintain, FailOperation
  <1> HIDE DEF x, w, p, c, d, y, f, g, z
  <1> QED BY <1>4, <1>5, <1>6, <1>7, <1>8, <1>9, <1>10, <1>11 DEF TidyTo

LEMMA CleanupTidy ==
    ASSUME LoginInv, NEW s \in Session, Tidy(login[s]),
           CleanupBegins(s) \/ OperationCancelled(s) \/ CleanupGoesOn(s)
               \/ CleanupFails(s)
    PROVE  TidyTo(s)
  <1> DEFINE m == login[s]
             c == CancelOperation(m)
             o == [c EXCEPT !.cleanup = "operation"]
             f == [m EXCEPT !.status = "failed", !.cleanup = "failed"]
  <1>1. m \in Login /\ OperationOK(m)
    BY DEF LoginInv, LoginTypeOK
  <1>2. ASSUME NEW k \in Login, k.op \notin {"verify", "persist"},
               k.op = "commit" => k.commit = "running"
        PROVE  StopTimer(k) \in Login /\ Tidy(StopTimer(k))
    <2>1. /\ StopTimer(k) \in Login
          /\ StopTimer(k).op = k.op /\ StopTimer(k).commit = k.commit
          /\ StopTimer(k).timer # "sleeping"
      <3>1. StopTimer(k) \in Login
        BY StopTimerFields
      <3>2. /\ StopTimer(k).op = k.op /\ StopTimer(k).commit = k.commit
            /\ StopTimer(k).timer \in {"none", "done"}
        BY DEF StopTimer, Login
      <3> QED BY <3>1, <3>2
    <2> QED BY <1>2, <2>1 DEF Tidy
  <1>3. CASE CleanupBegins(s)
    <2>1. o \in Login /\ Tidy(o)
      <3>1. c \in Login /\ Tidy(c)
        BY <1>1, <1>3, EndOperationTidy DEF CancelOperation, CleanupBegins
      <3>2. /\ o \in Login /\ o.op = c.op /\ o.commit = c.commit
            /\ o.status = c.status /\ o.cleanup = "operation"
        <4> HIDE DEF c
        <4> QED BY <3>1 DEF Login
      <3> HIDE DEF o, c
      <3> QED BY <3>1, <3>2 DEF Tidy
    <2>2. Ended(m)
      BY <1>1, <1>3 DEF CleanupBegins, OperationOK
    <2>3. CASE Set(s, o)
      BY <2>1, <2>3 DEF TidyTo
    <2>4. CASE ~Set(s, o)
      <3>1. /\ Set(s, StopTimer(m))
            /\ ~(/\ m.op # "none" /\ m.commit = "none"
                 /\ m.status \in {"cancelled", "expired"})
        BY <1>3, <2>4 DEF CleanupBegins
      <3>2. m.op \notin {"verify", "persist"}
        BY <1>1, <2>2, <3>1 DEF Tidy, OperationOK, Ended, TerminalStatus
      <3>3. m.op = "commit" => m.commit = "running"
        BY DEF Tidy
      <3> QED BY <1>1, <1>2, <3>1, <3>2, <3>3 DEF TidyTo
    <2> QED BY <2>3, <2>4
  <1>4. CASE CleanupGoesOn(s)
    BY <1>1, <1>2, <1>4 DEF CleanupGoesOn, TidyTo
  <1>6. CASE OperationCancelled(s)
    BY <1>1, <1>6, EndOperationTidy DEF OperationCancelled, TidyTo
  <1>5. CASE CleanupFails(s)
    <2> DEFINE g == [m EXCEPT !.status = "failed"]
    <2>3. /\ g \in Login /\ g.op = m.op /\ g.commit = m.commit
          /\ g.timer = m.timer
      BY <1>1 DEF Login, TerminalStatus
    <2>4. f = [g EXCEPT !.cleanup = "failed"]
      OBVIOUS
    <2>1. /\ f \in Login /\ f.op = m.op /\ f.commit = m.commit
          /\ f.timer = m.timer /\ f.cleanup = "failed"
      <3> HIDE DEF f, g
      <3> QED BY <2>3, <2>4 DEF Login
    <2>2. m.cleanup = "browser" /\ Set(s, f)
      BY <1>5 DEF CleanupFails
    <2> HIDE DEF f
    <2> QED BY <2>1, <2>2 DEF Tidy, TidyTo
  <1> QED BY <1>3, <1>4, <1>5, <1>6

\* A step of the closing service leaves every session tidy.
LEMMA ClosingTidy ==
    ASSUME LoginInv, CloseService \/ Closing, NEW s \in Session, Tidy(login[s])
    PROVE  Tidy(login'[s])
  <1> DEFINE m == login[s]
             k == [m EXCEPT !.start = "cleanup"]
  <1>1. m \in Login /\ OperationOK(m)
    BY DEF LoginInv, LoginTypeOK
  <1>2. /\ MarkTerminal(m, "cancelled") \in Login
        /\ Tidy(MarkTerminal(m, "cancelled")) /\ Tidy(EnsureCleanup(m))
    BY <1>1, MarkTerminalTidy, EnsureCleanupTidy DEF TerminalStatus
  <1>3. CASE CloseKillsStarts
    <2>1. login'[s] = KillStart(m)
      BY <1>3 DEF CloseKillsStarts
    <2>2. \A to \in {"grace_cancelled", "cleanup", "done"} :
              [m EXCEPT !.start = to] \in Login /\ Tidy([m EXCEPT !.start = to])
      BY <1>1, SetStartTidy
    <2>3. k \in Login /\ Tidy(k)
      BY <2>2
    <2>4. /\ Tidy(EnsureCleanup(k))
          /\ Tidy(EnsureCleanup(MarkTerminal(k, "cancelled")))
      <3> HIDE DEF k
      <3> QED BY <2>3, EnsureCleanupTidy, MarkTerminalTidy DEF TerminalStatus
    <2> QED BY <2>1, <2>2, <2>4 DEF KillStart
  <1>4. CASE CloseMarks \/ CloseCleans \/ CloseService
    BY <1>2, <1>4 DEF CloseMarks, CloseCleans, CloseService
  <1>5. CASE CloseEnds
    <2> DEFINE n == [m EXCEPT !.timer = IF @ = "none" THEN @ ELSE "done"]
    <2>1. login'[s] = n
      BY <1>5 DEF CloseEnds
    <2>2. /\ n.op = m.op /\ n.commit = m.commit /\ n.cleanup = m.cleanup
          /\ n.status = m.status /\ n.timer # "sleeping"
      BY <1>1 DEF Login
    <2> QED BY <2>1, <2>2 DEF Tidy
  <1> QED BY <1>3, <1>4, <1>5 DEF Closing

LEMMA QuietStart ==
    ASSUME LoginInv, QuietInv, NEW s \in Session, Start(s)
    PROVE  QuietInv'
  <1> DEFINE n == [NoLogin EXCEPT !.status = "launching", !.start = "opening",
                                  !.open = "pending"]
  <1>1. /\ login' = [login EXCEPT ![s] = n] /\ login[s] = NoLogin
        /\ closer' = "open" /\ leases[KeyOf[s]] = NoSession
        /\ leases' = [leases EXCEPT ![KeyOf[s]] = s]
        /\ login \in [Session -> Login]
        /\ leases \in [AccountKey -> Session \cup {NoSession}]
        /\ KeyOf[s] \in AccountKey
    BY LoginAssumption
       DEF Start, AcquireLease, LoginInv, LoginTypeOK, LeasesTypeOK
  <1>2. Tidy(n) /\ n.status = "launching" /\ ~n.released
    BY DEF NoLogin, Tidy
  <1>3. NoLogin.status = "none"
    BY DEF NoLogin
  <1> HIDE DEF n
  <1>4. login'[s] = n /\ \A t \in Session \ {s} : login'[t] = login[t]
    BY <1>1
  <1>5. \A t \in Session : Tidy(login[t])'
    BY <1>2, <1>4 DEF QuietInv
  <1>6. ASSUME NEW k \in AccountKey
        PROVE  LeaseOwed(k)'
    <2>1. CASE k = KeyOf[s]
      BY <1>1, <1>2, <1>4, <2>1 DEF LeaseOwed
    <2>2. CASE k # KeyOf[s]
      <3>1. leases'[k] = leases[k] /\ LeaseOwed(k)
        BY <1>1, <2>2 DEF QuietInv
      <3>2. leases[k] # NoSession => leases[k] \in Session \ {s}
        BY <1>1, <1>3, <3>1 DEF LeaseOwed
      <3> QED BY <1>4, <3>1, <3>2 DEF LeaseOwed
    <2> QED BY <2>1, <2>2
  <1> QED BY <1>1, <1>5, <1>6 DEF QuietInv

LEMMA QuietRelease ==
    ASSUME LoginInv, QuietInv, NEW s \in Session, CleanupSucceeds(s)
    PROVE  QuietInv'
  <1> DEFINE m == login[s]
             n == [m EXCEPT !.open = IF m.browser THEN "none" ELSE @,
                            !.browser = FALSE, !.released = TRUE,
                            !.cleanup = "done"]
  <1>1. /\ login' = [login EXCEPT ![s] = n] /\ m.cleanup = "browser"
        /\ closer' = closer
        /\ leases' = [leases EXCEPT ![KeyOf[s]] = IF @ = s THEN NoSession
                                                           ELSE @]
        /\ login \in [Session -> Login]
        /\ leases \in [AccountKey -> Session \cup {NoSession}]
        /\ KeyOf[s] \in AccountKey
    BY LoginAssumption
       DEF CleanupSucceeds, ReleaseLease, LoginInv, LoginTypeOK, LeasesTypeOK
  <1>2. /\ n.op = m.op /\ n.commit = m.commit /\ n.timer = m.timer
        /\ n.cleanup = "done" /\ n.released /\ n.status = m.status
    BY <1>1 DEF Login
  <1> HIDE DEF n
  <1>3. Tidy(n)
    BY <1>1, <1>2 DEF QuietInv, Tidy
  <1>4. login'[s] = n /\ \A t \in Session \ {s} : login'[t] = login[t]
    BY <1>1
  <1>5. \A t \in Session : Tidy(login[t])'
    BY <1>3, <1>4 DEF QuietInv
  <1>6. ASSUME NEW k \in AccountKey
        PROVE  LeaseOwed(k)'
    <2>1. /\ LeaseOwed(k)
          /\ leases'[k] = leases[k] \/ leases'[k] = NoSession
          /\ leases[k] # NoSession /\ leases'[k] = leases[k] =>
                 leases[k] \in Session \ {s}
      <3>1. LeaseOwed(k) /\ leases[k] \in Session \cup {NoSession}
        BY <1>1 DEF QuietInv
      <3>2. CASE k = KeyOf[s]
        BY <1>1, <3>1, <3>2, HolderAssumption
      <3>3. CASE k # KeyOf[s]
        <4>1. leases'[k] = leases[k] /\ leases[k] # s
          BY <1>1, <3>1, <3>3, HolderAssumption DEF LeaseOwed
        <4> QED BY <3>1, <4>1
      <3> QED BY <3>2, <3>3
    <2> QED BY <1>4, <2>1 DEF LeaseOwed
  <1>7. closer' = "closed" => \A t \in Session :
            \/ login'[t].status = "none"
            \/ login'[t].released /\ login'[t].commit # "running"
    BY <1>1, <1>2, <1>4 DEF QuietInv
  <1> QED BY <1>5, <1>6, <1>7 DEF QuietInv

LEMMA QuietSession ==
    ASSUME LoginInv, QuietInv, NEW s \in Session, SetsTo(s), TidyTo(s)
    PROVE  QuietInv'
  <1>1. PICK n : Follows(login[s], n) /\ Set(s, n)
    BY DEF SetsTo
  <1>2. /\ login \in [Session -> Login]
        /\ login' = [login EXCEPT ![s] = n]
        /\ closer' = closer /\ leases' = leases
        /\ leases \in [AccountKey -> Session \cup {NoSession}]
    BY <1>1 DEF Set, LoginInv, LoginTypeOK, LeasesTypeOK
  <1>3. login'[s] = n /\ \A t \in Session \ {s} : login'[t] = login[t]
    BY <1>2
  <1>4. Tidy(n)
    BY <1>2, <1>3 DEF TidyTo, Set
  <1>5. /\ login[s].status # "none" /\ n.status # "none"
        /\ n.released = login[s].released
    BY <1>1 DEF Follows
  <1>6. \A t \in Session : Tidy(login[t])'
    BY <1>3, <1>4 DEF QuietInv
  <1>7. \A k \in AccountKey : LeaseOwed(k)'
    BY <1>2, <1>3, <1>5 DEF QuietInv, LeaseOwed
  <1>8. closer' = "closed" => \A t \in Session :
            \/ login'[t].status = "none"
            \/ login'[t].released /\ login'[t].commit # "running"
    <2>1. login[s].released => login[s].status # "verifying"
      BY <1>2 DEF LoginInv, OperationOK, Ended, TerminalStatus
    <2>2. closer = "closed" =>
              login[s].released /\ login[s].commit # "running"
      BY <1>5 DEF QuietInv
    <2>3. closer = "closed" => n.commit # "running"
      BY <1>1, <2>1, <2>2 DEF Follows
    <2> QED BY <1>2, <1>3, <1>5, <2>2, <2>3 DEF QuietInv
  <1> QED BY <1>6, <1>7, <1>8 DEF QuietInv

LEMMA QuietClosing ==
    ASSUME LoginInv, QuietInv, CloseService \/ Closing
    PROVE  QuietInv'
  <1>1. \A s \in Session : Closes(login[s], login'[s])
    BY ClosingInv
  <1>2. \A s \in Session : Tidy(login[s])'
    BY ClosingTidy DEF QuietInv
  <1>3. leases' = leases /\ leases \in [AccountKey -> Session \cup {NoSession}]
    BY DEF CloseService, Closing, CloseKillsStarts, CloseMarks, CloseCleans,
       CloseEnds, LoginInv, LoginTypeOK, LeasesTypeOK
  <1>4. \A k \in AccountKey : LeaseOwed(k)'
    BY <1>1, <1>3 DEF QuietInv, LeaseOwed, Closes
  <1>5. closer' = "closed" => \A s \in Session :
            \/ login'[s].status = "none"
            \/ login'[s].released /\ login'[s].commit # "running"
    <2>1. SUFFICES ASSUME closer' = "closed", NEW s \in Session
                   PROVE  \/ login'[s].status = "none"
                          \/ /\ login'[s].released
                             /\ login'[s].commit # "running"
      OBVIOUS
    <2>2. Cleaned(login[s])
      BY <2>1 DEF CloseService, Closing, CloseKillsStarts, CloseMarks,
         CloseCleans, CloseEnds
    <2>3. login[s].status = "none" => login[s] = NoLogin
      BY DEF LoginInv, Started
    <2> QED BY <1>1, <2>2, <2>3 DEF Cleaned, Closes, NoLogin
  <1> QED BY <1>2, <1>4, <1>5 DEF QuietInv

LEMMA QuietInvStep ==
    ASSUME LoginInv, QuietInv, [Next]_vars
    PROVE  QuietInv'
  <1>1. ASSUME NEW s \in Session,
               SessionStep(s) \/ SessionFault(s) \/ SessionRequest(s)
                   \/ DeadlinePasses(s)
        PROVE  QuietInv'
    <2>1. CASE Start(s)
      BY <2>1, QuietStart
    <2>2. CASE CleanupSucceeds(s)
      BY <2>2, QuietRelease
    <2>3. CASE ~Start(s) /\ ~CleanupSucceeds(s)
      <3>1. SetsTo(s)
        BY <1>1, <2>3, OpenSteps, ReaperSteps, RequestSteps, OperationSteps,
           CleanupSteps DEF SessionStep, SessionFault, SessionRequest
      <3>2. Tidy(login[s])
        BY DEF QuietInv
      <3>3. TidyTo(s)
        BY <1>1, <2>3, <3>2, OpenTidy, ReaperTidy, RequestTidy,
           OperationTidy, CleanupTidy
           DEF SessionStep, SessionFault, SessionRequest
      <3> QED BY <3>1, <3>3, QuietSession
    <2> QED BY <2>1, <2>2, <2>3
  <1>2. CASE UNCHANGED vars
    BY <1>2 DEF vars, QuietInv, Tidy, LeaseOwed
  <1> QED BY <1>1, <1>2, QuietClosing DEF Next

LEMMA QuietInvariance == Spec => [](LoginInv /\ QuietInv)
  <1>1. Init => QuietInv
    BY DEF Init, LeasesInit, QuietInv, Tidy, LeaseOwed, NoLogin
  <1> QED BY <1>1, LoginInitInv, LoginInvStep, QuietInvStep, PTL DEF Spec

(* Once aclose has reported success nothing is left and nothing begins:     *)
(* sessions have ended, accounts are free, no account update, timeout or    *)
(* cleanup is under way (_run_close, _all_resources_cleaned).               *)
THEOREM ClosedStaysQuiet == Spec => []ClosedIsQuiet
  <1>1. ASSUME LoginInv, QuietInv, closer = "closed", NEW s \in Session
        PROVE  /\ login[s] # NoLogin => Ended(login[s])
               /\ leases[KeyOf[s]] = NoSession
               /\ login[s].op \in {"none", "cleanup"}
               /\ login[s].commit # "running"
               /\ login[s].timer # "sleeping"
               /\ login[s].cleanup \in {"none", "done"}
    <2>1. login[s] = NoLogin \/ login[s].released
      BY <1>1 DEF QuietInv, LoginInv, Started
    <2>2. /\ login[s] \in Login /\ OperationOK(login[s]) /\ Tidy(login[s])
          /\ login[s].released => login[s].commit # "running"
      BY <1>1 DEF QuietInv, LoginInv, LoginTypeOK, Started, NoLogin
    <2>3. leases[KeyOf[s]] = NoSession
      <3>1. /\ KeyOf[s] \in AccountKey
            /\ leases[KeyOf[s]] \in Session \cup {NoSession}
        BY <1>1, LoginAssumption DEF LoginInv, LoginTypeOK, LeasesTypeOK
      <3> QED BY <1>1, <3>1 DEF QuietInv, LeaseOwed
    <2>4. CASE login[s] = NoLogin
      BY <2>3, <2>4 DEF NoLogin
    <2>5. CASE login[s].released
      BY <2>2, <2>3, <2>5 DEF OperationOK, Tidy, Login
    <2> QED BY <2>1, <2>4, <2>5
  <1>2. LoginInv /\ QuietInv => ClosedIsQuiet
    BY <1>1 DEF ClosedIsQuiet
  <1> QED BY <1>2, QuietInvariance, PTL
=============================================================================
