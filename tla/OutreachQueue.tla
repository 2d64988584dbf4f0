---------------------------- MODULE OutreachQueue ----------------------------
(***************************************************************************)
(* The outreach queue of a job: a frozen plan of what would be sent.       *)
(* prepare freezes the approved strategies, an operator authorizes the     *)
(* items, and executors claim them one by one and report the outcome.      *)
(* Reviewers change the strategies meanwhile.                              *)
(*                                                                         *)
(* Reviews, prepare, authorize, skip and cancel are synchronous functions  *)
(* of the process that serves the job: each is one action, and its UPDATEs *)
(* check again whatever an executor may have changed.  Executors may be    *)
(* other threads or processes, so claim_next has two halves: it reads an   *)
(* id outside any transaction, and its UPDATE compares and swaps.          *)
(*                                                                         *)
(* The candidates are qualified and keep their name: verdicts stand (see   *)
(* CandidateFilter) and nothing renames a user, so the checks of prepare   *)
(* and _item_error that would notice it never fail.  An item is known by   *)
(* its candidate and channel; the order of the ids is left out, an         *)
(* executor may read any ready item.                                       *)
(***************************************************************************)
EXTENDS StrategyReview

CONSTANTS
    User,          \* the candidates of the job
    Worker,        \* executors
    NoWork,        \* what an executor without an item holds
    MaxVersion     \* bound: strategies are not changed beyond it

ASSUME QueueAssumption ==
    /\ MaxVersion \in Nat
    /\ NoWork \notin User \X Channel

VARIABLES
    strat,      \* the database: strategies
    item,       \* the database: outreach_items
    job,        \* the database: may the job execute?
    picked,     \* claim_next: the item whose id it has read
    work,       \* the item each executor has got
    approved,   \* history: the contents that reviews approved
    granted,    \* history: the contents that operators authorized
    handed      \* history: the contents that executors were given

history == <<approved, granted, handed>>
vars == <<strat, item, job, picked, work, history>>

ItemKey == User \X Channel

OutreachStatus == {"pending_approval", "ready", "sending", "sent", "failed",
                   "uncertain", "skipped", "cancelled"}

Outcome == {"sent", "failed", "uncertain"}

Content == [version : Nat, content : Text]

\* status none: there is no row yet.  message: the row has a message_id.
OutreachItem == [status : OutreachStatus \cup {"none"}, version : Nat,
                 content : Text, message : BOOLEAN]

NoItem == [status |-> "none", version |-> 0, content |-> Blank,
           message |-> FALSE]

\* What an item would send, and what a strategy says now.
Frozen(i) == [version |-> i.version, content |-> i.content]
Current(s, c) == [version |-> s.version, content |-> s.text[c]]

QueueTypeOK ==
    /\ strat \in [User -> Strategy]
    /\ item \in [ItemKey -> OutreachItem]
    /\ job \in {"executable", "over"}
    /\ picked \in [Worker -> ItemKey \cup {NoWork}]
    /\ work \in [Worker -> ItemKey \cup {NoWork}]
    /\ approved \in [ItemKey -> SUBSET Content]
    /\ granted \in [ItemKey -> SUBSET Content]
    /\ handed \in [ItemKey -> SUBSET Content]

Init ==
    /\ strat = [u \in User |-> NoStrategy]
    /\ item = [k \in ItemKey |-> NoItem]
    /\ job = "executable"
    /\ picked = [w \in Worker |-> NoWork]
    /\ work = [w \in Worker |-> NoWork]
    /\ approved = [k \in ItemKey |-> {}]
    /\ granted = [k \in ItemKey |-> {}]
    /\ handed = [k \in ItemKey |-> {}]

-----------------------------------------------------------------------------
(* The strategies, and the job                                             *)

KeepQueue == UNCHANGED <<item, job, picked, work, granted, handed>>

Suggest(u, v) ==
    /\ job = "executable" /\ strat[u].version < MaxVersion
    /\ strat' = [strat EXCEPT ![u] = AddStrategy(@, 1, v)]
    /\ UNCHANGED approved /\ KeepQueue

Edits(u, e) ==
    /\ CanEdit(strat[u], strat[u].version) /\ strat[u].version < MaxVersion
    /\ strat' = [strat EXCEPT ![u] = EditStrategy(@, e)]
    /\ UNCHANGED approved /\ KeepQueue

Reviews(u, target) ==
    /\ CanReview(strat[u], strat[u].version) /\ strat[u].version < MaxVersion
    /\ strat' = [strat EXCEPT ![u] = ReviewStrategy(@, target)]
    /\ approved' = [k \in ItemKey |->
                       IF k[1] = u /\ target = "approved"
                       THEN approved[k] \cup {Current(strat'[u], k[2])}
                       ELSE approved[k]]
    /\ KeepQueue

JobEnds ==
    /\ job = "executable"
    /\ job' = "over"
    /\ UNCHANGED <<strat, item, picked, work, history>>

-----------------------------------------------------------------------------
(* prepare, authorize, skip and cancel                                     *)

KeepClaims == UNCHANGED <<strat, job, picked, work, approved, handed>>

ItemError(i, s, c) ==
    s.status # "approved" \/ s.text[c] = Blank \/ Frozen(i) # Current(s, c)

Open == {"pending_approval", "ready"}

CanRewrite(i) == i.status \in Open \cup {"skipped"} /\ ~i.message

\* Seeded fault: an item that is frozen anew stays authorized.
RewriteKeepingGrant(i, s, c) ==
    [i EXCEPT !.status = IF @ = "ready" THEN "ready" ELSE "pending_approval",
              !.version = s.version, !.content = s.text[c]]

\* The item is frozen anew and loses its authorization.
Rewrite(i, s, c) ==
    [i EXCEPT !.status = "pending_approval", !.version = s.version,
              !.content = s.text[c]]

\* A new row; or the row there is, rewritten when the strategy has changed.
InsertPending(i, s, c) ==
    IF i.status = "none" \/ (Frozen(i) # Current(s, c) /\ CanRewrite(i))
    THEN Rewrite(i, s, c) ELSE i

Skipped(i) == [i EXCEPT !.status = "skipped"]

\* Approved texts are frozen; what is open and no longer approved is skipped.
Prepared(i, s, c) ==
    LET j == IF s.status = "approved" /\ s.text[c] # Blank
             THEN InsertPending(i, s, c) ELSE i
    IN  IF j.status \in Open /\ ItemError(j, s, c) THEN Skipped(j) ELSE j

Prepare ==
    /\ job = "executable"
    /\ item' = [k \in ItemKey |-> Prepared(item[k], strat[k[1]], k[2])]
    /\ UNCHANGED granted /\ KeepClaims

Authorized(i, s, c) ==
    IF i.status # "pending_approval" THEN i
    ELSE IF ItemError(i, s, c) THEN Skipped(i)
    ELSE [i EXCEPT !.status = "ready"]

Authorize ==
    /\ job = "executable"
    /\ item' = [k \in ItemKey |-> Authorized(item[k], strat[k[1]], k[2])]
    /\ granted' = [k \in ItemKey |->
                      IF item'[k].status = "ready"
                      THEN granted[k] \cup {Frozen(item'[k])} ELSE granted[k]]
    /\ KeepClaims

\* skip and cancel, whatever became of the job.
BulkTerminal(status) ==
    /\ item' = [k \in ItemKey |-> IF item[k].status \in Open
                                  THEN [item[k] EXCEPT !.status = status]
                                  ELSE item[k]]
    /\ UNCHANGED granted /\ KeepClaims

Skip == BulkTerminal("skipped")

Cancel == BulkTerminal("cancelled")

-----------------------------------------------------------------------------
(* Executors                                                               *)

KeepOpen == UNCHANGED <<strat, job, approved, granted>>

ClaimReads(w, k) ==
    /\ work[w] = NoWork /\ picked[w] = NoWork
    /\ item[k].status = "ready"
    /\ picked' = [picked EXCEPT ![w] = k]
    /\ UNCHANGED <<item, work, handed>> /\ KeepOpen

\* Seeded fault: whoever has read the id takes the item.
CanClaimRead(i) == TRUE

CanClaim(i) == i.status = "ready"

\* The executor is given the row as it is after the UPDATE.
ClaimWrites(w) ==
    LET k == picked[w]
    IN  /\ k # NoWork
        /\ picked' = [picked EXCEPT ![w] = NoWork]
        /\ IF CanClaim(item[k])
           THEN /\ item' = [item EXCEPT ![k].status = "sending"]
                /\ work' = [work EXCEPT ![w] = k]
                /\ handed' = [handed EXCEPT ![k] = @ \cup {Frozen(item[k])}]
           ELSE UNCHANGED <<item, work, handed>>
        /\ KeepOpen

CanFinalize(i) == i.status = "sending"

\* The report may be repeated, and changed, when its answer is lost.
Finalize(w, outcome, message) ==
    LET k == work[w]
    IN  /\ k # NoWork
        /\ outcome = "sent" => message
        /\ item' = IF CanFinalize(item[k])
                   THEN [item EXCEPT ![k].status = outcome,
                                     ![k].message = message]
                   ELSE item
        /\ UNCHANGED <<picked, work, handed>> /\ KeepOpen

\* The executor is through with the item, or ends at any point of its work.
WorkerLeaves(w) ==
    /\ picked[w] # NoWork \/ work[w] # NoWork
    /\ picked' = [picked EXCEPT ![w] = NoWork]
    /\ work' = [work EXCEPT ![w] = NoWork]
    /\ UNCHANGED <<item, handed>> /\ KeepOpen

-----------------------------------------------------------------------------
ReviewStep(u) ==
    \/ \E v \in Voice : Suggest(u, v)
    \/ \E e \in Edit : Edits(u, e)
    \/ \E target \in {"approved", "rejected"} : Reviews(u, target)

QueueStep == Prepare \/ Authorize \/ Skip \/ Cancel

WorkerStep(w) ==
    \/ \E k \in ItemKey : ClaimReads(w, k)
    \/ ClaimWrites(w) \/ WorkerLeaves(w)
    \/ \E outcome \in Outcome, message \in BOOLEAN :
           Finalize(w, outcome, message)

Next ==
    \/ \E u \in User : ReviewStep(u)
    \/ QueueStep \/ JobEnds
    \/ \E w \in Worker : WorkerStep(w)

Spec == Init /\ [][Next]_vars
=============================================================================
