-------------------------- MODULE OutreachQueueProofs --------------------------
(***************************************************************************)
(* Theorems about the outreach queue, for any candidates, executors, texts *)
(* and bound.                                                              *)
(*                                                                         *)
(* QueueInv is the inductive invariant.  What an executor is given was     *)
(* approved and authorized because a row that is ready still says what was *)
(* authorized: whoever freezes it anew also takes it back to               *)
(* pending_approval (ItemOK).  Moves names the six things that can happen  *)
(* to a row; each action moves every row by one of them, from which the    *)
(* invariant and the refinement of OutreachLedger both follow.             *)
(***************************************************************************)
EXTENDS OutreachQueueProperties, TLAPS

Out == {"sending"} \cup Outcome

StrategyOK(u) ==
    strat[u].status = "approved" =>
        \A c \in Channel : Current(strat[u], c) \in approved[<<u, c>>]

ItemOK(k) ==
    /\ item[k].status # "none" => Frozen(item[k]) \in approved[k]
    /\ item[k].status \in {"ready"} \cup Out => Frozen(item[k]) \in granted[k]
    /\ handed[k] \subseteq {Frozen(item[k])}
    /\ handed[k] # {} => item[k].status \in Out

QueueInv ==
    /\ QueueTypeOK
    /\ \A u \in User : StrategyOK(u)
    /\ \A k \in ItemKey : ItemOK(k)

-----------------------------------------------------------------------------
(* What can happen to a row                                                *)

Rewritable == Open \cup {"none", "skipped"}

Freezes(k) ==
    /\ item[k].status \in Rewritable
    /\ item'[k].status = "pending_approval"
    /\ Frozen(item'[k]) \in approved[k]
    /\ handed'[k] = handed[k]

SameOffer(k) == Frozen(item'[k]) = Frozen(item[k]) /\ handed'[k] = handed[k]

Grants(k) ==
    /\ item[k].status = "pending_approval" /\ item'[k].status = "ready"
    /\ SameOffer(k) /\ Frozen(item'[k]) \in granted'[k]

Closes(k) ==
    /\ item[k].status \in Open /\ item'[k].status \in {"skipped", "cancelled"}
    /\ SameOffer(k)

GivesOut(k) ==
    /\ item[k].status = "ready" /\ item'[k].status = "sending"
    /\ Frozen(item'[k]) = Frozen(item[k])
    /\ handed'[k] = handed[k] \cup {Frozen(item[k])}

Settles(k) ==
    /\ item[k].status = "sending" /\ item'[k].status \in Outcome
    /\ SameOffer(k)

Stays(k) == item'[k].status = item[k].status /\ SameOffer(k)

Moves(k) ==
    /\ approved[k] \subseteq approved'[k] /\ granted[k] \subseteq granted'[k]
    /\ \/ Freezes(k) \/ Grants(k) \/ Closes(k) \/ GivesOut(k)
       \/ Settles(k) \/ Stays(k)

(* A row that moves still says what was approved and authorized             *)
(* (outreach_queue_store.py).                                               *)
LEMMA MovesKeepItem ==
    ASSUME NEW k \in ItemKey, ItemOK(k), Moves(k)
    PROVE  ItemOK(k)'
<1>1. CASE Freezes(k)
  BY <1>1 DEF Freezes, Moves, ItemOK, Rewritable, Open, Out, Outcome
<1>2. CASE Grants(k)
  BY <1>2 DEF Grants, SameOffer, Moves, ItemOK, Out, Outcome
<1>3. CASE Closes(k)
  BY <1>3 DEF Closes, SameOffer, Moves, ItemOK, Open, Out, Outcome
<1>4. CASE GivesOut(k)
  BY <1>4 DEF GivesOut, Moves, ItemOK, Out, Outcome
<1>5. CASE Settles(k)
  BY <1>5 DEF Settles, SameOffer, Moves, ItemOK, Out, Outcome
<1>6. CASE Stays(k)
  BY <1>6 DEF Stays, SameOffer, Moves, ItemOK
<1> QED BY <1>1, <1>2, <1>3, <1>4, <1>5, <1>6 DEF Moves

-----------------------------------------------------------------------------
(* What the transactions write                                             *)

(* What a row and a strategy say is a content.                              *)
LEMMA Contents ==
    /\ \A i \in OutreachItem : Frozen(i) \in Content
    /\ \A s \in Strategy, c \in Channel : Current(s, c) \in Content
BY DEF Frozen, Current, Content, OutreachItem, Strategy

(* prepare leaves a row as it is, freezes an approved strategy in it, or    *)
(* skips it (prepare, insert_pending, skip_stale).                          *)
LEMMA PreparedRow ==
    ASSUME NEW i \in OutreachItem, NEW s \in Strategy, NEW c \in Channel
    PROVE  LET j == Prepared(i, s, c)
           IN  /\ j \in OutreachItem
               /\ \/ j = i
                  \/ i.status \in Open /\ j = Skipped(i)
                  \/ /\ i.status \in Rewritable /\ s.status = "approved"
                     /\ j.status = "pending_approval"
                     /\ Frozen(j) = Current(s, c)
<1> DEFINE Live == s.status = "approved" /\ s.text[c] # Blank
           R == Rewrite(i, s, c)
<1>1. /\ R \in OutreachItem /\ R.status = "pending_approval"
      /\ Frozen(R) = Current(s, c)
  BY DEF Rewrite, OutreachItem, OutreachStatus, Strategy, Frozen, Current
<1>2. Skipped(i) \in OutreachItem
  BY DEF Skipped, OutreachItem, OutreachStatus
<1>3. CASE Live /\ InsertPending(i, s, c) = R
                /\ (i.status = "none" \/ CanRewrite(i))
  <2>1. ~ItemError(R, s, c)
    BY <1>1, <1>3 DEF ItemError
  <2>2. Prepared(i, s, c) = R
    BY <1>3, <2>1 DEF Prepared
  <2> QED BY <1>1, <1>3, <2>2 DEF CanRewrite, Rewritable
<1>4. CASE ~(Live /\ InsertPending(i, s, c) = R
                  /\ (i.status = "none" \/ CanRewrite(i)))
  <2>1. Prepared(i, s, c) = i \/ (i.status \in Open
                                  /\ Prepared(i, s, c) = Skipped(i))
    BY <1>4 DEF Prepared, InsertPending
  <2> QED BY <1>2, <2>1
<1> QED BY <1>3, <1>4

(* authorize makes a row ready, skips it or passes it over (authorize).     *)
LEMMA AuthorizedRow ==
    ASSUME NEW i \in OutreachItem, NEW s \in Strategy, NEW c \in Channel
    PROVE  LET j == Authorized(i, s, c)
           IN  /\ j \in OutreachItem
               /\ Frozen(j) = Frozen(i)
               /\ \/ j = i
                  \/ i.status = "pending_approval"
                     /\ j.status \in {"ready", "skipped"}
<1>1. CASE i.status # "pending_approval"
  <2>1. Authorized(i, s, c) = i
    BY <1>1 DEF Authorized
  <2> QED BY <2>1
<1>2. CASE i.status = "pending_approval" /\ ItemError(i, s, c)
  <2>1. Authorized(i, s, c) = Skipped(i)
    BY <1>2 DEF Authorized
  <2> QED BY <1>2, <2>1 DEF Skipped, OutreachItem, OutreachStatus, Frozen
<1>3. CASE i.status = "pending_approval" /\ ~ItemError(i, s, c)
  <2>1. Authorized(i, s, c) = [i EXCEPT !.status = "ready"]
    BY <1>3 DEF Authorized
  <2> QED BY <1>3, <2>1 DEF OutreachItem, OutreachStatus, Frozen
<1> QED BY <1>1, <1>2, <1>3

(* What a write of a strategy leaves is a strategy, and a draft unless it   *)
(* was reviewed (strategy_review_store.py, add_strategy).                   *)
LEMMA WrittenStrategy ==
    ASSUME NEW s \in Strategy
    PROVE  /\ \A v \in Voice : /\ AddStrategy(s, 1, v) \in Strategy
                             /\ AddStrategy(s, 1, v).status = "draft"
           /\ \A e \in Edit : /\ EditStrategy(s, e) \in Strategy
                            /\ EditStrategy(s, e).status = "draft"
           /\ \A t \in {"approved", "rejected"} :
                  /\ ReviewStrategy(s, t) \in Strategy
                  /\ ReviewStrategy(s, t).status = t
<1>1. PICK n \in Nat : n = s.version + 1
  BY DEF Strategy
<1>2. ASSUME NEW v \in Voice
      PROVE  /\ AddStrategy(s, 1, v) \in Strategy
             /\ AddStrategy(s, 1, v).status = "draft"
  <2>1. Neutral(v) \in [Channel -> Text]
    BY DEF Neutral, Text
  <2> QED BY <1>1, <2>1 DEF AddStrategy, Strategy, ReviewStatus
<1>3. ASSUME NEW e \in Edit
      PROVE  /\ EditStrategy(s, e) \in Strategy
             /\ EditStrategy(s, e).status = "draft"
  <2>1. e.voice \in Voice \cup {Blank} /\ e.text \in [Channel -> Text]
    BY DEF Edit
  <2> QED BY <1>1, <2>1 DEF EditStrategy, Strategy, ReviewStatus
<1>4. ASSUME NEW t \in {"approved", "rejected"}
      PROVE  /\ ReviewStrategy(s, t) \in Strategy
             /\ ReviewStrategy(s, t).status = t
  BY <1>1 DEF ReviewStrategy, Strategy, ReviewStatus
<1> QED BY <1>2, <1>3, <1>4

-----------------------------------------------------------------------------
(* Steps                                                                   *)

Written(u) ==
    /\ \A w \in User : w # u => strat'[w] = strat[w]
    /\ strat'[u] \in Strategy /\ strat' \in [User -> Strategy]
    /\ approved' \in [ItemKey -> SUBSET Content]
    /\ \A k \in ItemKey : approved[k] \subseteq approved'[k]
    /\ StrategyOK(u)'

(* Reviews change no row of the queue; what is approved afterwards is on    *)
(* record (strategy_review_store.py).                                       *)
LEMMA ReviewInv ==
    ASSUME QueueInv, NEW u \in User, ReviewStep(u)
    PROVE  QueueInv' /\ \A k \in ItemKey : Moves(k)
<1> USE DEF KeepQueue
<1>0. /\ strat \in [User -> Strategy] /\ strat[u] \in Strategy
      /\ approved \in [ItemKey -> SUBSET Content]
  BY DEF QueueInv, QueueTypeOK
<1>1. Written(u)
  <2>1. ASSUME NEW v \in Voice, Suggest(u, v)
        PROVE  Written(u)
    BY <1>0, <2>1, WrittenStrategy DEF Suggest, StrategyOK, Written
  <2>2. ASSUME NEW e \in Edit, Edits(u, e)
        PROVE  Written(u)
    BY <1>0, <2>2, WrittenStrategy DEF Edits, StrategyOK, Written
  <2>3. ASSUME NEW t \in {"approved", "rejected"}, Reviews(u, t)
        PROVE  Written(u)
    <3>1. /\ \A w \in User : w # u => strat'[w] = strat[w]
          /\ strat'[u] \in Strategy /\ strat'[u].status = t
          /\ strat' \in [User -> Strategy]
      BY <1>0, <2>3, WrittenStrategy DEF Reviews
    <3>2. ASSUME NEW k \in ItemKey
          PROVE  /\ k[2] \in Channel
                 /\ Current(strat'[u], k[2]) \in Content
                 /\ approved'[k] = IF k[1] = u /\ t = "approved"
                                   THEN approved[k] \cup {Current(strat'[u], k[2])}
                                   ELSE approved[k]
      BY <2>3, <3>1, <3>2, Contents DEF Reviews, ItemKey
    <3>3. approved' \in [ItemKey -> SUBSET Content]
      BY <1>0, <2>3, <3>2 DEF Reviews
    <3>4. ASSUME NEW c \in Channel, t = "approved"
          PROVE  Current(strat'[u], c) \in approved'[<<u, c>>]
      <4>1. <<u, c>> \in ItemKey /\ <<u, c>>[1] = u /\ <<u, c>>[2] = c
        BY DEF ItemKey
      <4> QED BY <3>2, <3>4, <4>1
    <3> QED BY <3>1, <3>2, <3>3, <3>4 DEF StrategyOK, Written
  <2> QED BY <2>1, <2>2, <2>3 DEF ReviewStep
<1>5. \A w \in User : StrategyOK(w)'
  <2> SUFFICES ASSUME NEW w \in User, w # u PROVE StrategyOK(w)'
    BY <1>1 DEF Written
  <2> QED BY <1>1 DEF StrategyOK, QueueInv, ItemKey, Written
<1>6. UNCHANGED <<item, job, picked, work, granted, handed>>
  BY DEF ReviewStep, Suggest, Edits, Reviews
<1>7. \A k \in ItemKey : Moves(k)
  BY <1>1, <1>6 DEF Moves, Stays, SameOffer, Written
<1>8. \A k \in ItemKey : ItemOK(k)'
  BY <1>7, MovesKeepItem DEF QueueInv
<1> QED BY <1>1, <1>5, <1>6, <1>7, <1>8 DEF QueueInv, QueueTypeOK, Written

(* A step that keeps the strategies and moves every row keeps the           *)
(* invariant.                                                               *)
LEMMA RowsMove ==
    ASSUME QueueInv, QueueTypeOK', UNCHANGED <<strat, approved>>,
           \A k \in ItemKey : Moves(k)
    PROVE  QueueInv'
<1>1. \A u \in User : StrategyOK(u)'
  BY DEF QueueInv, StrategyOK
<1>2. \A k \in ItemKey : ItemOK(k)'
  BY MovesKeepItem DEF QueueInv
<1> QED BY <1>1, <1>2 DEF QueueInv

(* prepare freezes what is approved now (prepare).                          *)
LEMMA PrepareInv ==
    ASSUME QueueInv, Prepare
    PROVE  QueueInv' /\ \A k \in ItemKey : Moves(k)
<1> USE DEF KeepClaims
<1>1. ASSUME NEW k \in ItemKey
      PROVE  /\ item'[k] \in OutreachItem
             /\ Moves(k)
  <2>0. UNCHANGED <<approved, granted, handed>>
    BY DEF Prepare
  <2>1. /\ k[1] \in User /\ k[2] \in Channel /\ k = <<k[1], k[2]>>
        /\ item[k] \in OutreachItem /\ strat[k[1]] \in Strategy
    BY <1>1 DEF ItemKey, QueueInv, QueueTypeOK
  <2>2. item'[k] = Prepared(item[k], strat[k[1]], k[2])
    BY <1>1 DEF Prepare
  <2>3. item'[k] \in OutreachItem
    BY <2>1, <2>2, PreparedRow
  <2>4. CASE item'[k] = item[k]
    BY <2>0, <2>3, <2>4 DEF Moves, Stays, SameOffer
  <2>5. CASE item[k].status \in Open /\ item'[k] = Skipped(item[k])
    <3>1. item'[k].status = "skipped" /\ Frozen(item'[k]) = Frozen(item[k])
      BY <2>1, <2>5 DEF Skipped, Frozen, OutreachItem
    <3> QED BY <2>0, <2>3, <2>5, <3>1 DEF Moves, Closes, SameOffer
  <2>6. CASE /\ item[k].status \in Rewritable
             /\ strat[k[1]].status = "approved"
             /\ item'[k].status = "pending_approval"
             /\ Frozen(item'[k]) = Current(strat[k[1]], k[2])
    <3>1. Frozen(item'[k]) \in approved[k]
      BY <2>1, <2>6 DEF QueueInv, StrategyOK
    <3> QED BY <2>0, <2>3, <2>6, <3>1 DEF Moves, Freezes
  <2>7. \/ item'[k] = item[k]
        \/ item[k].status \in Open /\ item'[k] = Skipped(item[k])
        \/ /\ item[k].status \in Rewritable
           /\ strat[k[1]].status = "approved"
           /\ item'[k].status = "pending_approval"
           /\ Frozen(item'[k]) = Current(strat[k[1]], k[2])
    BY <2>1, <2>2, PreparedRow
  <2> QED BY <2>3, <2>4, <2>5, <2>6, <2>7
<1>2. QueueTypeOK'
  <2>1. item' \in [ItemKey -> OutreachItem]
    BY <1>1 DEF Prepare
  <2> QED BY <2>1 DEF Prepare, QueueInv, QueueTypeOK
<1> QED BY <1>1, <1>2, RowsMove DEF Prepare

(* Only what an operator authorizes becomes ready (authorize).              *)
LEMMA AuthorizeInv ==
    ASSUME QueueInv, Authorize
    PROVE  QueueInv' /\ \A k \in ItemKey : Moves(k)
<1> USE DEF KeepClaims
<1>1. ASSUME NEW k \in ItemKey
      PROVE  /\ item'[k] \in OutreachItem
             /\ granted'[k] \in SUBSET Content
             /\ Moves(k)
  <2>1. /\ k[1] \in User /\ k[2] \in Channel
        /\ item[k] \in OutreachItem /\ strat[k[1]] \in Strategy
        /\ granted[k] \in SUBSET Content
    BY <1>1 DEF ItemKey, QueueInv, QueueTypeOK
  <2>2. /\ item'[k] = Authorized(item[k], strat[k[1]], k[2])
        /\ granted'[k] = IF item'[k].status = "ready"
                         THEN granted[k] \cup {Frozen(item'[k])}
                         ELSE granted[k]
    BY <1>1 DEF Authorize
  <2>3. /\ item'[k] \in OutreachItem /\ Frozen(item'[k]) = Frozen(item[k])
        /\ \/ item'[k] = item[k]
           \/ item[k].status = "pending_approval"
              /\ item'[k].status \in {"ready", "skipped"}
    BY <2>1, <2>2, AuthorizedRow
  <2>4. granted'[k] \in SUBSET Content /\ granted[k] \subseteq granted'[k]
    BY <2>1, <2>2, <2>3, Contents
  <2>5. Moves(k)
    BY <2>2, <2>3, <2>4
       DEF Authorize, Moves, Stays, Grants, Closes, SameOffer, Open
  <2> QED BY <2>3, <2>4, <2>5
<1>2. QueueTypeOK'
  <2>1. item' \in [ItemKey -> OutreachItem]
    BY <1>1 DEF Authorize
  <2>2. granted' \in [ItemKey -> SUBSET Content]
    BY <1>1 DEF Authorize
  <2> QED BY <2>1, <2>2 DEF Authorize, QueueInv, QueueTypeOK
<1> QED BY <1>1, <1>2, RowsMove DEF Authorize

(* skip and cancel close what is open (bulk_terminal).                      *)
LEMMA BulkTerminalInv ==
    ASSUME QueueInv, NEW status \in {"skipped", "cancelled"},
           BulkTerminal(status)
    PROVE  QueueInv' /\ \A k \in ItemKey : Moves(k)
<1> USE DEF KeepClaims
<1>1. ASSUME NEW k \in ItemKey
      PROVE  /\ item'[k] \in OutreachItem
             /\ Moves(k)
  <2>1. item[k] \in OutreachItem
    BY <1>1 DEF QueueInv, QueueTypeOK
  <2>2. CASE item[k].status \in Open
    <3>1. item'[k] = [item[k] EXCEPT !.status = status]
      BY <1>1, <2>2 DEF BulkTerminal
    <3>2. /\ item'[k] \in OutreachItem /\ item'[k].status = status
          /\ Frozen(item'[k]) = Frozen(item[k])
      BY <2>1, <3>1 DEF OutreachItem, OutreachStatus, Frozen
    <3> QED BY <2>2, <3>2 DEF BulkTerminal, Moves, Closes, SameOffer
  <2>3. CASE item[k].status \notin Open
    <3>1. item'[k] = item[k]
      BY <1>1, <2>3 DEF BulkTerminal
    <3> QED BY <2>1, <3>1 DEF BulkTerminal, Moves, Stays, SameOffer
  <2> QED BY <2>2, <2>3
<1>2. QueueTypeOK'
  <2>1. item' \in [ItemKey -> OutreachItem]
    BY <1>1 DEF BulkTerminal
  <2> QED BY <2>1 DEF BulkTerminal, QueueInv, QueueTypeOK
<1> QED BY <1>1, <1>2, RowsMove DEF BulkTerminal

(* A claim takes a ready row, whatever the executor read before             *)
(* (claim_next, finalize).                                                  *)
LEMMA WorkerInv ==
    ASSUME QueueInv, NEW w \in Worker, WorkerStep(w)
    PROVE  QueueInv' /\ \A k \in ItemKey : Moves(k)
<1> USE DEF KeepOpen
<1>0. QueueTypeOK
  BY DEF QueueInv
<1>1. CASE \E k \in ItemKey : ClaimReads(w, k)
  <2>1. QueueTypeOK' /\ UNCHANGED <<strat, item, approved, granted, handed>>
    BY <1>0, <1>1 DEF ClaimReads, QueueTypeOK
  <2>2. \A k \in ItemKey : Moves(k)
    BY <2>1 DEF Moves, Stays, SameOffer
  <2> QED BY <2>1, <2>2, RowsMove
<1>2. CASE ClaimWrites(w)
  <2> DEFINE k == picked[w]
  <2>1. k \in ItemKey /\ item[k] \in OutreachItem
    BY <1>0, <1>2 DEF ClaimWrites, QueueTypeOK
  <2>2. CASE CanClaim(item[k])
    <3>1. /\ item' = [item EXCEPT ![k].status = "sending"]
          /\ work' = [work EXCEPT ![w] = k]
          /\ handed' = [handed EXCEPT ![k] = @ \cup {Frozen(item[k])}]
          /\ picked' = [picked EXCEPT ![w] = NoWork]
          /\ UNCHANGED <<strat, job, approved, granted>>
      BY <1>2, <2>2 DEF ClaimWrites
    <3>2. /\ item'[k] \in OutreachItem /\ item'[k].status = "sending"
          /\ Frozen(item'[k]) = Frozen(item[k])
          /\ item' \in [ItemKey -> OutreachItem]
      BY <1>0, <2>1, <3>1 DEF QueueTypeOK, OutreachItem, OutreachStatus, Frozen
    <3>3. /\ handed'[k] = handed[k] \cup {Frozen(item[k])}
          /\ handed' \in [ItemKey -> SUBSET Content]
      BY <1>0, <2>1, <3>1, Contents DEF QueueTypeOK
    <3>4. QueueTypeOK'
      BY <1>0, <2>1, <3>1, <3>2, <3>3 DEF QueueTypeOK
    <3>5. ASSUME NEW l \in ItemKey PROVE Moves(l)
      <4>1. CASE l = k
        BY <2>2, <3>1, <3>2, <3>3, <4>1 DEF CanClaim, Moves, GivesOut
      <4>2. CASE l # k
        BY <1>0, <3>1, <4>2 DEF QueueTypeOK, Moves, Stays, SameOffer
      <4> QED BY <4>1, <4>2
    <3> QED BY <3>1, <3>4, <3>5, RowsMove
  <2>3. CASE ~CanClaim(item[k])
    <3>1. /\ UNCHANGED <<strat, item, job, work, approved, granted, handed>>
          /\ picked' = [picked EXCEPT ![w] = NoWork]
      BY <1>2, <2>3 DEF ClaimWrites
    <3>2. QueueTypeOK'
      BY <1>0, <3>1 DEF QueueTypeOK
    <3>3. \A l \in ItemKey : Moves(l)
      BY <3>1 DEF Moves, Stays, SameOffer
    <3> QED BY <3>1, <3>2, <3>3, RowsMove
  <2> QED BY <2>2, <2>3
<1>3. ASSUME NEW outcome \in Outcome, NEW message \in BOOLEAN,
             Finalize(w, outcome, message)
      PROVE  QueueInv' /\ \A k \in ItemKey : Moves(k)
  <2> DEFINE k == work[w]
  <2>1. k \in ItemKey /\ item[k] \in OutreachItem
    BY <1>0, <1>3 DEF Finalize, QueueTypeOK
  <2>2. UNCHANGED <<strat, job, picked, work, approved, granted, handed>>
    BY <1>3 DEF Finalize
  <2>3. CASE CanFinalize(item[k])
    <3>1. item' = [item EXCEPT ![k].status = outcome, ![k].message = message]
      BY <1>3, <2>3 DEF Finalize
    <3>2. /\ item'[k] \in OutreachItem /\ item'[k].status = outcome
          /\ Frozen(item'[k]) = Frozen(item[k])
          /\ item' \in [ItemKey -> OutreachItem]
      BY <1>0, <2>1, <3>1
         DEF QueueTypeOK, OutreachItem, OutreachStatus, Outcome, Frozen
    <3>3. QueueTypeOK'
      BY <1>0, <2>2, <3>2 DEF QueueTypeOK
    <3>4. ASSUME NEW l \in ItemKey PROVE Moves(l)
      <4>1. CASE l = k
        BY <2>2, <2>3, <3>2, <4>1 DEF CanFinalize, Moves, Settles, SameOffer
      <4>2. CASE l # k
        BY <1>0, <2>2, <3>1, <4>2 DEF QueueTypeOK, Moves, Stays, SameOffer
      <4> QED BY <4>1, <4>2
    <3> QED BY <2>2, <3>3, <3>4, RowsMove
  <2>4. CASE ~CanFinalize(item[k])
    <3>1. item' = item
      BY <1>3, <2>4 DEF Finalize
    <3>2. QueueTypeOK'
      BY <1>0, <2>2, <3>1 DEF QueueTypeOK
    <3>3. \A l \in ItemKey : Moves(l)
      BY <2>2, <3>1 DEF Moves, Stays, SameOffer
    <3> QED BY <2>2, <3>2, <3>3, RowsMove
  <2> QED BY <2>3, <2>4
<1>4. CASE WorkerLeaves(w)
  <2>1. QueueTypeOK' /\ UNCHANGED <<strat, item, approved, granted, handed>>
    BY <1>0, <1>4 DEF WorkerLeaves, QueueTypeOK
  <2>2. \A k \in ItemKey : Moves(k)
    BY <2>1 DEF Moves, Stays, SameOffer
  <2> QED BY <2>1, <2>2, RowsMove
<1> QED BY <1>1, <1>2, <1>3, <1>4 DEF WorkerStep

-----------------------------------------------------------------------------
(* The theorems                                                            *)

(* A new job has no strategies and no rows.                                 *)
LEMMA QueueInitInv == Init => QueueInv
<1> SUFFICES ASSUME Init PROVE QueueInv
  OBVIOUS
<1>1. NoStrategy \in Strategy /\ NoItem \in OutreachItem
  BY DEF NoStrategy, Strategy, ReviewStatus, NoItem, OutreachItem, Text
<1>2. QueueTypeOK
  BY <1>1 DEF Init, QueueTypeOK
<1> QED BY <1>2
        DEF Init, QueueInv, StrategyOK, ItemOK, NoStrategy, NoItem, Out, Outcome

(* Every step keeps the invariant and moves every row.                      *)
LEMMA QueueInvStep ==
    QueueInv /\ [Next]_vars => QueueInv' /\ \A k \in ItemKey : Moves(k)
<1> SUFFICES ASSUME QueueInv, [Next]_vars
             PROVE  QueueInv' /\ \A k \in ItemKey : Moves(k)
  OBVIOUS
<1>1. CASE \E u \in User : ReviewStep(u)
  BY <1>1, ReviewInv
<1>2. CASE Prepare
  BY <1>2, PrepareInv
<1>3. CASE Authorize
  BY <1>3, AuthorizeInv
<1>4. CASE Skip \/ Cancel
  BY <1>4, BulkTerminalInv DEF Skip, Cancel
<1>5. CASE JobEnds
  <2>1. UNCHANGED <<strat, item, picked, work, approved, granted, handed>>
    BY <1>5 DEF JobEnds, history
  <2>2. QueueTypeOK'
    BY <1>5, <2>1 DEF JobEnds, QueueInv, QueueTypeOK
  <2>3. \A k \in ItemKey : Moves(k)
    BY <2>1 DEF Moves, Stays, SameOffer
  <2> QED BY <2>1, <2>2, <2>3, RowsMove
<1>6. CASE \E w \in Worker : WorkerStep(w)
  BY <1>6, WorkerInv
<1>7. CASE UNCHANGED vars
  <2>1. UNCHANGED <<strat, item, job, picked, work, approved, granted, handed>>
    BY <1>7 DEF vars, history
  <2>2. QueueTypeOK'
    BY <2>1 DEF QueueInv, QueueTypeOK
  <2>3. \A k \in ItemKey : Moves(k)
    BY <2>1 DEF Moves, Stays, SameOffer
  <2> QED BY <2>1, <2>2, <2>3, RowsMove
<1> QED BY <1>1, <1>2, <1>3, <1>4, <1>5, <1>6, <1>7 DEF Next, QueueStep

(* The invariant holds always.                                              *)
LEMMA QueueInvariance == Spec => []QueueInv
BY QueueInitInv, QueueInvStep, PTL DEF Spec

(* The rows of the queue have their types (outreach_items).                 *)
THEOREM QueueTypeCorrect == Spec => []QueueTypeOK
<1>1. QueueInv => QueueTypeOK
  BY DEF QueueInv
<1> QED BY <1>1, QueueInvariance, PTL

(* An executor is only given what was approved and authorized, in one       *)
(* version (claim_next).                                                    *)
THEOREM OnlyGrantedIsHanded == Spec => []HandedWasGranted
<1>1. QueueInv => HandedWasGranted
  BY DEF QueueInv, ItemOK, HandedWasGranted, Out, Outcome
<1> QED BY <1>1, QueueInvariance, PTL

(* Each move of a row is a step of the ledger.                              *)
LEMMA MovesAreLedgerSteps ==
    ASSUME QueueInv, QueueInv', \A k \in ItemKey : Moves(k)
    PROVE  Ledger!Next
<1> SUFFICES ASSUME NEW k \in ItemKey
             PROVE  /\ approved[k] \subseteq approved'[k]
                    /\ \/ Ledger!Propose(k) \/ Ledger!Authorize(k)
                       \/ Ledger!Close(k) \/ Ledger!HandOut(k)
                       \/ Ledger!Settle(k) \/ Ledger!Stay(k)
  BY DEF Ledger!Next
<1>0. Moves(k)
  OBVIOUS
<1>1. CASE Freezes(k)
  <2>1. PhaseOf(item[k].status) \in {"none", "proposed", "authorized", "dropped"}
    BY <1>1 DEF Freezes, Rewritable, Open, PhaseOf
  <2>2. Frozen(item'[k]) \in approved[k]
    BY <1>1 DEF Freezes
  <2>3. PhaseOf(item'[k].status) = "proposed"
    BY <1>1 DEF Freezes, PhaseOf
  <2> QED BY <1>0, <1>1, <2>1, <2>2, <2>3 DEF Moves, Freezes, Ledger!Propose
<1>2. CASE Grants(k)
  BY <1>0, <1>2 DEF Moves, Grants, SameOffer, PhaseOf, Ledger!Authorize, Ledger!Keep
<1>3. CASE Closes(k)
  BY <1>0, <1>3 DEF Moves, Closes, SameOffer, Open, PhaseOf,
                    Ledger!Close, Ledger!End, Ledger!Keep
<1>4. CASE GivesOut(k)
  BY <1>0, <1>4 DEF Moves, GivesOut, PhaseOf, Ledger!HandOut
<1>5. CASE Settles(k)
  BY <1>0, <1>5 DEF Moves, Settles, SameOffer, Outcome, PhaseOf,
                    Ledger!Settle, Ledger!Verdict, Ledger!Keep
<1>6. CASE Stays(k)
  BY <1>0, <1>6 DEF Moves, Stays, SameOffer, Ledger!Stay, Ledger!Keep
<1> QED BY <1>0, <1>1, <1>2, <1>3, <1>4, <1>5, <1>6 DEF Moves

(* The queue implements the ledger (outreach_queue.py).                     *)
THEOREM QueueImplementsLedger == Spec => ImplementsLedger
<1>1. Init => Ledger!Init
  <2> SUFFICES ASSUME Init PROVE Ledger!Init
    OBVIOUS
  <2>1. QueueTypeOK
    BY QueueInitInv DEF QueueInv
  <2>2. \A k \in ItemKey : item[k].status = "none"
    BY DEF Init, NoItem
  <2>3. [k \in ItemKey |-> Frozen(item[k])] \in [ItemKey -> Content]
    BY <2>1, Contents DEF QueueTypeOK
  <2> QED BY <2>2, <2>3 DEF Init, Ledger!Init, PhaseOf
<1>2. QueueInv /\ QueueInv' /\ [Next]_vars => [Ledger!Next]_(Ledger!vars)
  BY QueueInvStep, MovesAreLedgerSteps
<1> QED BY <1>1, <1>2, QueueInvariance, PTL DEF Spec, ImplementsLedger, Ledger!Spec
=============================================================================
