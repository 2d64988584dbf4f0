------------------------ MODULE CampaignOutreachProofs ------------------------
(***************************************************************************)
(* Theorems about the strategy and outreach stages, for any candidates,    *)
(* page size, limits, texts, retries and bound.                            *)
(*                                                                         *)
(* OutreachInv is the inductive invariant.  The runner sends from what it  *)
(* read of a page, so PageOK says what still holds of a row of the page    *)
(* while reviewers work: the strategy it shows was approved once and the   *)
(* candidate stays qualified.  Ids tell the rows of a page apart (IdsOK),  *)
(* and the message of the row the runner is at shows how far the send has  *)
(* got (CallOK).                                                           *)
(***************************************************************************)
EXTENDS CampaignOutreachProperties, FiniteSetTheorems,
        WellFoundedInduction, TLAPS

SendingPc == {"comment", "dm", "call", "calling", "contact", "publish"}

Suggested == {u \in User : strat[u].id # 0}

\* A new id is larger than those there are, so no two strategies share one.
IdsOK ==
    /\ \A u \in User : strat[u].id <= Cardinality(Suggested)
    /\ \A u, w \in User :
           strat[u].id # 0 /\ strat[u].id = strat[w].id => u = w

\* What was approved is on record, and a page of the reviewer that shows the
\* current version shows the current strategy.
StrategyOK(u) ==
    /\ strat[u].status = "approved" => strat[u] \in approved[u]
    /\ strat[u].id = 0 => strat[u] = NoStrategy
    /\ screen[u].id # 0 =>
           /\ strat[u].id # 0
           /\ screen[u].version <= strat[u].version
           /\ screen[u].version = strat[u].version => screen[u] = strat[u]

\* What the messages, the calls and the contact of a candidate say.
MessageOK(u) ==
    /\ \A c \in Channel :
           /\ calls[u][c] \in 0..1
           /\ message[u][c].status = "none" => calls[u][c] = 0
           /\ message[u][c].status # "none" =>
                  /\ cand[u].qualification = "qualified"
                  /\ \E s \in approved[u] :
                         /\ s.version = message[u][c].version
                         /\ message[u][c].content = SentText(s, c)
    /\ message[u]["dm"].status # "none" => cand[u].status = "contacted"
    /\ cand[u].status = "contacted" =>
           /\ cand[u].qualification = "qualified"
           /\ message[u]["comment"].status = "sent"

\* A row of the page that is being sent.
PageOK(u) ==
    /\ snap[u] \in approved[u] /\ snap[u].id # 0
    /\ snap[u].id = strat[u].id
    /\ cand[u].qualification = "qualified"

CallOK(u) ==
    /\ pc = "call" => message[u][sending].status = "sending"
                      /\ calls[u][sending] = 0
    /\ pc = "calling" => message[u][sending].status = "sending"
    /\ pc = "contact" => sending = "comment"
                         /\ message[u]["comment"].status = "sent"

RunOK ==
    /\ \A u \in contacted : cand[u].status = "contacted"
    /\ pc \in SendingPc =>
           /\ \A u \in todo : PageOK(u)
           /\ \A u \in User : Current(u) => CallOK(u)

OutreachInv ==
    /\ OutreachTypeOK /\ IdsOK /\ RunOK
    /\ \A u \in User : StrategyOK(u) /\ MessageOK(u)

-----------------------------------------------------------------------------
(* Strategies                                                              *)

(* The writes of a strategy keep its id and count as a version, except the  *)
(* first (StrategyReviewStore, add_strategy).                               *)
LEMMA Added ==
    ASSUME NEW s \in Strategy, NEW id \in Nat \ {0}, NEW v \in Voice
    PROVE  LET d == AddStrategy(s, id, v)
           IN  /\ d \in Strategy /\ d.status = "draft"
               /\ d.id = (IF s.id = 0 THEN id ELSE s.id)
               /\ s.id # 0 => d.version = s.version + 1
<1>1. Neutral(v) \in [Channel -> Text]
  BY DEF Neutral, Text
<1>2. PICK n \in Nat : n = s.version + 1
  BY DEF Strategy
<1> QED BY <1>1, <1>2 DEF AddStrategy, Strategy, ReviewStatus

(* An edit is a draft and a new version (StrategyReviewStore.edit).         *)
LEMMA Edited ==
    ASSUME NEW s \in Strategy, NEW e \in Edit
    PROVE  LET d == EditStrategy(s, e)
           IN  /\ d \in Strategy /\ d.status = "draft" /\ d.id = s.id
               /\ d.version = s.version + 1
<1>1. e.voice \in Voice \cup {Blank} /\ e.text \in [Channel -> Text]
  BY DEF Edit
<1>2. PICK n \in Nat : n = s.version + 1
  BY DEF Strategy
<1> QED BY <1>1, <1>2 DEF EditStrategy, Strategy, ReviewStatus

(* A review changes the status and the version only (_review).              *)
LEMMA Reviewed ==
    ASSUME NEW s \in Strategy, NEW target \in {"approved", "rejected"}
    PROVE  LET d == ReviewStrategy(s, target)
           IN  /\ d \in Strategy /\ d.status = target /\ d.id = s.id
               /\ d.version = s.version + 1 /\ d.text = s.text
<1>1. PICK n \in Nat : n = s.version + 1
  BY DEF Strategy
<1> QED BY <1>1 DEF ReviewStrategy, Strategy, ReviewStatus

-----------------------------------------------------------------------------
(* Pages                                                                   *)

(* The last member of a page exists, for keys with a bound.                 *)
LEMMA LastExists ==
    ASSUME NEW S \in SUBSET User, S # {}, NEW f \in [User -> Nat],
           NEW b \in Nat, \A u \in S : f[u] <= b
    PROVE  \E u \in S : \A w \in S : f[w] <= f[u]
<1> DEFINE T == {n \in Nat : \E u \in S : n = b - f[u]}
<1>1. T \subseteq Nat /\ T # {}
  <2>1. PICK u \in S : TRUE
    OBVIOUS
  <2>2. b - f[u] \in T
    OBVIOUS
  <2> QED BY <2>2
<1>2. PICK n \in T : \A m \in T : <<m, n>> \notin OpToRel(<, Nat)
  BY <1>1, WFMin, NatLessThanWellFounded
<1>3. PICK u \in S : n = b - f[u]
  OBVIOUS
<1>4. ASSUME NEW w \in S PROVE f[w] <= f[u]
  <2>1. b - f[w] \in T
    OBVIOUS
  <2>2. ~(b - f[w] < n)
    BY <1>1, <1>2, <2>1 DEF OpToRel
  <2> QED BY <1>3, <2>2
<1> QED BY <1>4

(* Sets of candidates are finite.                                           *)
LEMMA CountUsers ==
    ASSUME OutreachAssumption, NEW S \in SUBSET User
    PROVE  IsFiniteSet(S) /\ Cardinality(S) \in Nat
<1>1. NumUsers \in Nat /\ IsFiniteSet(User)
  BY FS_Interval DEF OutreachAssumption, User
<1> QED BY <1>1, FS_Subset, FS_CardinalityType

(* Two rows of a page that both come first are the same row.                *)
LEMMA OneCurrent ==
    ASSUME OutreachInv, pc \in SendingPc,
           NEW u \in User, NEW w \in User, Current(u), Current(w)
    PROVE  u = w
<1>1. snap[u].id = snap[w].id
  <2>1. snap[u].id \in Nat /\ snap[w].id \in Nat
    BY DEF OutreachInv, OutreachTypeOK, Strategy
  <2>2. snap[u].id <= snap[w].id /\ snap[w].id <= snap[u].id
    BY DEF Current, IsFirst, SnapId
  <2> QED BY <2>1, <2>2
<1>2. PageOK(u) /\ PageOK(w)
  BY DEF OutreachInv, RunOK, Current, IsFirst
<1> QED BY <1>1, <1>2 DEF PageOK, OutreachInv, IdsOK

-----------------------------------------------------------------------------
(* What a step leaves alone                                                *)

\* The row, the messages and the calls of a candidate stay, and what was
\* approved stays on record.
MessageKept(u) ==
    /\ cand'[u] = cand[u] /\ message'[u] = message[u]
    /\ calls'[u] = calls[u] /\ approved[u] \subseteq approved'[u]

(* Messages and contact stay right when nothing of them changes.            *)
LEMMA MessageKeptOK ==
    ASSUME NEW u \in User, MessageOK(u), MessageKept(u)
    PROVE  MessageOK(u)'
BY DEF MessageOK, MessageKept

(* A row of the page stays right while its candidate is qualified.          *)
LEMMA PageKeptOK ==
    ASSUME NEW u \in User, PageOK(u), snap'[u] = snap[u],
           approved[u] \subseteq approved'[u],
           strat'[u].id = strat[u].id,
           cand'[u].qualification = "qualified"
    PROVE  PageOK(u)'
BY DEF PageOK

(* The absence of a strategy is typed like one.                             *)
LEMMA NothingIsStrategy == NoStrategy \in Strategy /\ NoStrategy.id = 0
BY DEF NoStrategy, Strategy, ReviewStatus, Text

(* A step of the runner that leaves the database and the history alone.     *)
LEMMA LocalStep ==
    ASSUME OutreachInv, UNCHANGED <<store, screen, calls, approved>>,
           OutreachTypeOK', RunOK'
    PROVE  OutreachInv'
<1>1. IdsOK'
  BY DEF OutreachInv, IdsOK, Suggested, store
<1>2. ASSUME NEW u \in User PROVE StrategyOK(u)' /\ MessageOK(u)'
  BY DEF OutreachInv, StrategyOK, MessageOK, store
<1> QED BY <1>1, <1>2 DEF OutreachInv

(* A step that leaves the page, for where nothing is sent.                  *)
LEMMA QuietStep ==
    ASSUME OutreachInv, UNCHANGED <<store, screen, calls, approved>>,
           OutreachTypeOK', pc' \notin SendingPc, contacted' \in {contacted, {}}
    PROVE  OutreachInv'
<1>1. RunOK'
  BY DEF OutreachInv, RunOK, store
<1> QED BY <1>1, LocalStep

-----------------------------------------------------------------------------
(* The runner outside the outreach stage                                   *)

(* The cursor of the strategy stage is a user id (_run_campaign_strategy).  *)
LEMMA UserPage ==
    ASSUME OutreachAssumption, NEW S \in SUBSET User, S # {}
    PROVE  LastOf(S, UserId) \in Nat
<1>1. NumUsers \in Nat
  BY DEF OutreachAssumption
<1> DEFINE f == [u \in User |-> u]
<1>2. f \in [User -> Nat] /\ \A u \in S : f[u] = u /\ f[u] <= NumUsers
  BY <1>1 DEF User
<1>3. \E u \in S : \A w \in S : f[w] <= f[u]
  BY <1>1, <1>2, LastExists
<1>4. \E u \in S : \A w \in S : w <= u
  BY <1>2, <1>3
<1>5. LastOf(S, UserId) \in User
  BY <1>4 DEF LastOf, UserId
<1>6. User \subseteq Nat
  BY <1>1 DEF User
<1> QED BY <1>5, <1>6

(* The cursor of the outreach stage is a strategy id.                       *)
LEMMA StrategyPage ==
    ASSUME OutreachAssumption, OutreachInv, NEW S \in SUBSET User, S # {}
    PROVE  NextCursor(S) \in Nat
<1> DEFINE f == [u \in User |-> strat[u].id]
           b == Cardinality(Suggested)
<1>1. Suggested \in SUBSET User
  BY DEF Suggested
<1>2. b \in Nat
  BY <1>1, CountUsers
<1>3. f \in [User -> Nat] /\ \A u \in S : f[u] = strat[u].id /\ f[u] <= b
  BY DEF OutreachInv, OutreachTypeOK, Strategy, IdsOK
<1>4. \E u \in S : \A w \in S : f[w] <= f[u]
  <2> HIDE DEF f, b
  <2> QED BY <1>2, <1>3, LastExists
<1>5. \E u \in S : \A w \in S : strat[w].id <= strat[u].id
  BY <1>3, <1>4
<1>6. LastOf(S, StrategyId) \in S
  BY <1>5 DEF LastOf, StrategyId
<1> QED BY <1>6 DEF NextCursor, OutreachInv, OutreachTypeOK, Strategy

(* The steps that only move the runner, and the ends of its stages.         *)
LEMMA RunnerMoves ==
    ASSUME OutreachAssumption, OutreachInv,
           \/ StrategyStarts \/ Gate \/ OpenWorkbench \/ WorkbenchCloses
           \/ NoOutreach \/ StageFails \/ RetryStage \/ SkipStage \/ Stop
    PROVE  OutreachInv'
<1> USE DEF OutreachInv
<1>1. NoStrategy \in Strategy
  BY NothingIsStrategy
<1>2. OutreachTypeOK'
  BY <1>1
     DEF OutreachTypeOK, StrategyStarts, Gate, OpenWorkbench,
         WorkbenchCloses, NoOutreach, StageFails, RetryStage, SkipStage,
         Stop, store, local, LocalsEnd, KeepHistory, PcState, AwaitingPc,
         EndedPc, OutreachAssumption, Channel
<1>3. /\ pc' \notin SendingPc /\ contacted' \in {contacted, {}}
      /\ UNCHANGED <<store, screen, calls, approved>>
  BY DEF StrategyStarts, Gate, OpenWorkbench, WorkbenchCloses, NoOutreach,
         StageFails, RetryStage, SkipStage, Stop, store, local, LocalsEnd,
         KeepHistory, SendingPc
<1> QED BY <1>2, <1>3, QuietStep

(* Reading a page of candidates touches no row.                             *)
LEMMA ReadQualifiedPageInv ==
    ASSUME OutreachAssumption, OutreachInv, ReadQualifiedPage
    PROVE  OutreachInv'
<1> USE DEF OutreachInv
<1>1. QualifiedPage \in SUBSET User
  BY DEF QualifiedPage, FirstPage, Qualified
<1>2. QualifiedPage # {} => LastOf(QualifiedPage, UserId) \in Nat
  BY <1>1, UserPage
<1>3. NoStrategy \in Strategy
  BY NothingIsStrategy
<1>4. OutreachTypeOK'
  BY <1>1, <1>2, <1>3
     DEF OutreachTypeOK, ReadQualifiedPage, store, LocalsEnd, KeepHistory,
         PcState, AwaitingPc, OutreachAssumption, Channel
<1>5. /\ pc' \notin SendingPc /\ contacted' \in {contacted, {}}
      /\ UNCHANGED <<store, screen, calls, approved>>
  BY DEF ReadQualifiedPage, store, LocalsEnd, KeepHistory, SendingPc
<1> QED BY <1>4, <1>5, QuietStep

(* An agent that fails leaves its candidate without a new strategy.         *)
LEMMA AgentFailsInv ==
    ASSUME OutreachInv, NEW u \in User, AgentFails(u)
    PROVE  OutreachInv'
<1> USE DEF OutreachInv
<1>1. OutreachTypeOK'
  BY DEF OutreachTypeOK, AgentFails, AgentDone, KeepHistory, PcState,
         AwaitingPc
<1>2. /\ pc' \notin SendingPc /\ contacted' \in {contacted, {}}
      /\ UNCHANGED <<store, screen, calls, approved>>
  BY DEF AgentFails, AgentDone, store, KeepHistory, SendingPc
<1> QED BY <1>1, <1>2, QuietStep

-----------------------------------------------------------------------------
(* Strategies are written                                                  *)

(* Ids stay apart when no strategy gets another one.                        *)
LEMMA IdsKept ==
    ASSUME IdsOK, \A u \in User : strat'[u].id = strat[u].id
    PROVE  IdsOK'
<1>1. Suggested' = Suggested
  BY DEF Suggested
<1> QED BY <1>1 DEF IdsOK

(* A strategy that is written is newer than what any page shows of it.      *)
LEMMA NewVersion ==
    ASSUME NEW u \in User, StrategyOK(u),
           screen[u] \in Strategy, strat[u] \in Strategy,
           screen'[u] = screen[u],
           strat'[u].id # 0,
           strat[u].id # 0 => strat'[u].version = strat[u].version + 1,
           strat'[u].status = "approved" => strat'[u] \in approved'[u]
    PROVE  StrategyOK(u)'
<1>1. screen[u].version \in Nat /\ strat[u].version \in Nat
  BY DEF Strategy
<1> QED BY <1>1 DEF StrategyOK

(* A strategy that is not written stays as it should be.                    *)
LEMMA StrategyKept ==
    ASSUME NEW u \in User, StrategyOK(u), strat'[u] = strat[u],
           screen'[u] = screen[u], approved[u] \subseteq approved'[u]
    PROVE  StrategyOK(u)'
BY DEF StrategyOK

(* A suggestion is a draft with a new id or a new version (add_strategy).   *)
LEMMA AgentSuggestsInv ==
    ASSUME OutreachAssumption, OutreachInv, NEW u \in User, NEW v \in Voice,
           AgentSuggests(u, v)
    PROVE  OutreachInv'
<1> USE DEF OutreachInv
<1> DEFINE id == Cardinality(Suggested) + 1
           s == AddStrategy(strat[u], id, v)
<1>1. /\ Suggested \in SUBSET User /\ IsFiniteSet(Suggested)
      /\ Cardinality(Suggested) \in Nat
  BY CountUsers DEF Suggested
<1>2. strat[u] \in Strategy /\ screen[u] \in Strategy
  BY DEF OutreachTypeOK
<1>3. /\ s \in Strategy /\ s.status = "draft"
      /\ s.id = (IF strat[u].id = 0 THEN id ELSE strat[u].id)
      /\ strat[u].id # 0 => s.version = strat[u].version + 1
  BY <1>1, <1>2, Added
<1>4. strat' = [strat EXCEPT ![u] = s]
  BY DEF AgentSuggests, NextId, Suggested
<1> HIDE DEF s
<1>5. strat'[u] = s /\ \A w \in User \ {u} : strat'[w] = strat[w]
  BY <1>4 DEF OutreachTypeOK
<1>6. /\ UNCHANGED <<cand, message, screen, calls, approved>>
      /\ pc' \notin SendingPc /\ contacted' = contacted
  BY DEF AgentSuggests, AgentDone, KeepHistory, SendingPc
<1>7. OutreachTypeOK'
  BY <1>2, <1>3, <1>4
     DEF OutreachTypeOK, AgentSuggests, AgentDone, KeepHistory, PcState,
         AwaitingPc
<1>8. IdsOK'
  <2>1. CASE strat[u].id # 0
    BY <1>3, <1>5, <2>1, IdsKept
  <2>2. CASE strat[u].id = 0
    <3>1. Suggested' = Suggested \cup {u} /\ u \notin Suggested
      BY <1>1, <1>3, <1>5, <2>2 DEF Suggested
    <3>2. Cardinality(Suggested') = id
      BY <1>1, <3>1, FS_AddElement
    <3>3. s.id = id
      BY <1>3, <2>2
    <3>4. \A w \in User : strat[w].id \in Nat
      BY DEF OutreachTypeOK, Strategy
    <3> QED BY <1>1, <1>5, <3>2, <3>3, <3>4 DEF IdsOK
  <2> QED BY <2>1, <2>2
<1>9. ASSUME NEW w \in User PROVE StrategyOK(w)'
  <2>1. CASE w = u
    <3>1. s.id # 0
      BY <1>1, <1>3
    <3> QED BY <1>2, <1>3, <1>5, <1>6, <2>1, <3>1, NewVersion
  <2>2. CASE w # u
    BY <1>5, <1>6, <2>2, StrategyKept
  <2> QED BY <2>1, <2>2
<1>10. RunOK' /\ \A w \in User : MessageOK(w)'
  BY <1>6, MessageKeptOK DEF MessageKept, RunOK
<1> QED BY <1>7, <1>8, <1>9, <1>10

(* The approval at the gate puts every draft on record (run_job).           *)
LEMMA ApproveAllInv ==
    ASSUME OutreachInv, ApproveAll
    PROVE  OutreachInv'
<1> USE DEF OutreachInv
<1>1. ASSUME NEW u \in User
      PROVE  /\ strat[u] \in Strategy /\ screen[u] \in Strategy
             /\ approved[u] \subseteq Strategy
             /\ u \in Drafts =>
                    /\ strat'[u] = ReviewStrategy(strat[u], "approved")
                    /\ approved'[u] = approved[u] \cup {strat'[u]}
                    /\ strat[u].id # 0
             /\ u \notin Drafts =>
                    strat'[u] = strat[u] /\ approved'[u] = approved[u]
  BY DEF OutreachTypeOK, ApproveAll, Drafts
<1>2. ASSUME NEW u \in User
      PROVE  /\ strat'[u] \in Strategy /\ strat'[u].id = strat[u].id
             /\ u \in Drafts => strat'[u].version = strat[u].version + 1
  BY <1>1, Reviewed
<1>3. /\ UNCHANGED <<cand, message, screen, calls, local, stage, retries>>
      /\ pc' = "outreach"
  BY DEF ApproveAll
<1>4. /\ strat' \in [User -> Strategy]
      /\ approved' \in [User -> SUBSET Strategy]
  <2>1. /\ strat' = [u \in User |-> strat'[u]]
        /\ approved' = [u \in User |-> approved'[u]]
    BY DEF ApproveAll
  <2> QED BY <1>1, <1>2, <2>1
<1>5. OutreachTypeOK'
  BY <1>3, <1>4 DEF OutreachTypeOK, local, PcState
<1>6. IdsOK'
  BY <1>2, IdsKept
<1>7. ASSUME NEW u \in User PROVE StrategyOK(u)'
  <2>1. CASE u \in Drafts
    BY <1>1, <1>2, <1>3, <2>1, NewVersion
  <2>2. CASE u \notin Drafts
    BY <1>1, <1>3, <2>2, StrategyKept
  <2> QED BY <2>1, <2>2
<1>8. ASSUME NEW u \in User PROVE MessageOK(u)'
  BY <1>1, <1>3, MessageKeptOK DEF MessageKept
<1>9. RunOK'
  BY <1>3 DEF RunOK, SendingPc, local
<1> QED BY <1>5, <1>6, <1>7, <1>8, <1>9

-----------------------------------------------------------------------------
(* The outreach stage                                                      *)

(* The rows of a page are approved and their candidates qualified           *)
(* (_run_campaign_outreach).                                                *)
LEMMA ReadOutreachPageInv ==
    ASSUME OutreachAssumption, OutreachInv, ReadOutreachPage
    PROVE  OutreachInv'
<1> USE DEF OutreachInv
<1> DEFINE page == FirstPage(Sendable, StrategyId)
<1>1. page \in SUBSET User /\ page \subseteq Sendable
  BY DEF FirstPage, Sendable, Qualified
<1>2. /\ UNCHANGED <<store, stage, retries, screen, calls, approved>>
      /\ UNCHANGED <<cand, strat, message>>
  BY DEF ReadOutreachPage, KeepHistory, store
<1>3. NoStrategy \in Strategy
  BY NothingIsStrategy
<1>4. CASE LimitsReached \/ page = {}
  <2>1. pc' = "done" /\ LocalsEnd
    BY <1>4 DEF ReadOutreachPage
  <2>2. OutreachTypeOK'
    BY <1>2, <1>3, <2>1
       DEF OutreachTypeOK, LocalsEnd, PcState, EndedPc, Channel
  <2> QED BY <1>2, <2>1, <2>2, QuietStep DEF SendingPc, LocalsEnd
<1>5. CASE ~(LimitsReached \/ page = {})
  <2>1. /\ pc' = "comment" /\ todo' = page
        /\ cursor' = NextCursor(page)
        /\ snap' = [u \in User |-> IF u \in page THEN strat[u]
                                                 ELSE NoStrategy]
        /\ contacted' = {u \in page : cand[u].status = "contacted"}
        /\ UNCHANGED <<sending, sent>>
    BY <1>5 DEF ReadOutreachPage
  <2>2. NextCursor(page) \in Nat
    BY <1>1, <1>5, StrategyPage
  <2> HIDE DEF page
  <2>3. OutreachTypeOK'
    BY <1>1, <1>2, <1>3, <2>1, <2>2 DEF OutreachTypeOK, PcState
  <2>4. ASSUME NEW u \in page PROVE PageOK(u)'
    <3>1. /\ cand[u].qualification = "qualified"
          /\ strat[u].status = "approved" /\ strat[u].id > cursor
      BY <1>1 DEF Sendable, Qualified
    <3>2. strat[u].id # 0
      BY <1>1, <3>1 DEF OutreachTypeOK, Strategy
    <3>3. strat[u] \in approved[u]
      BY <1>1, <3>1 DEF StrategyOK
    <3>4. snap'[u] = strat[u]
      BY <1>1, <2>1
    <3> QED BY <1>2, <3>1, <3>2, <3>3, <3>4 DEF PageOK
  <2>5. RunOK'
    BY <1>2, <2>1, <2>4 DEF RunOK, CallOK
  <2> QED BY <1>2, <2>3, <2>5, LocalStep
<1> QED BY <1>4, <1>5

(* A step between two sends drops rows of the page or none.                 *)
LEMMA NextRow ==
    ASSUME OutreachInv, UNCHANGED <<store, screen, calls, approved>>,
           OutreachTypeOK', pc \in SendingPc, snap' = snap,
           contacted' = contacted,
           pc' \in {"comment", "dm", "outreach"}, todo' \subseteq todo
    PROVE  OutreachInv'
<1> USE DEF OutreachInv
<1>1. ASSUME NEW u \in todo' PROVE PageOK(u)'
  <2>1. u \in User /\ PageOK(u)
    BY DEF RunOK, OutreachTypeOK
  <2> QED BY <2>1, PageKeptOK DEF store, PageOK
<1>2. RunOK'
  BY <1>1 DEF RunOK, CallOK, store
<1> QED BY <1>2, LocalStep

(* After the event of the contact the private message is next.              *)
LEMMA PublishedInv ==
    ASSUME OutreachInv, Published
    PROVE  OutreachInv'
<1>1. OutreachTypeOK'
  BY DEF OutreachInv, OutreachTypeOK, Published, store, local, KeepHistory,
         PcState
<1> QED BY <1>1, NextRow DEF Published, local, KeepHistory, SendingPc

(* A row that goes on without a channel is not sent to.                     *)
LEMMA PassInv ==
    ASSUME OutreachInv, pc \in SendingPc, NEW u \in User, NEW c \in Channel,
           Pass(u, c)
    PROVE  OutreachInv'
<1>1. todo' \subseteq todo /\ pc' \in {"comment", "dm", "outreach"}
  BY DEF Pass, Advance
<1>2. OutreachTypeOK'
  BY <1>1 DEF OutreachInv, OutreachTypeOK, Pass, store, KeepHistory, PcState
<1> QED BY <1>1, <1>2, NextRow DEF Pass, KeepHistory

\* What a step of a send leaves alone: the strategies and the page.
SendKeeps ==
    /\ UNCHANGED <<strat, snap, screen, approved>>
    /\ todo' \subseteq todo

(* The steps of a send concern one candidate; what they must show is that   *)
(* its messages and its place in the send agree again.                      *)
LEMMA SendStep ==
    ASSUME OutreachInv, pc \in SendingPc, SendKeeps, OutreachTypeOK',
           NEW u \in User, Current(u),
           \A w \in User \ {u} : MessageKept(w), MessageOK(u)',
           cand'[u].qualification = "qualified",
           \A w \in contacted' : cand'[w].status = "contacted",
           \A w \in User : pc' \in SendingPc /\ Current(w)' => CallOK(w)'
    PROVE  OutreachInv'
<1> USE DEF OutreachInv
<1>1. IdsOK'
  BY IdsKept DEF SendKeeps
<1>2. ASSUME NEW w \in User PROVE StrategyOK(w)'
  BY StrategyKept DEF SendKeeps
<1>3. ASSUME NEW w \in User PROVE MessageOK(w)'
  BY MessageKeptOK
<1>4. ASSUME NEW w \in todo' PROVE PageOK(w)'
  <2>1. w \in User /\ PageOK(w)
    BY DEF RunOK, OutreachTypeOK, SendKeeps
  <2>2. cand'[w].qualification = "qualified"
    BY <2>1 DEF MessageKept, PageOK
  <2> QED BY <2>1, <2>2, PageKeptOK DEF SendKeeps
<1>5. RunOK'
  BY <1>4 DEF RunOK
<1> QED BY <1>1, <1>2, <1>3, <1>5

(* When todo and snap stay, the row the runner is at stays.                 *)
LEMMA SameCurrent ==
    ASSUME OutreachInv, pc \in SendingPc, NEW u \in User, Current(u),
           todo' = todo, snap' = snap, NEW w \in User, Current(w)'
    PROVE  w = u
<1>1. Current(w)
  BY DEF Current, IsFirst, SnapId
<1> QED BY <1>1, OneCurrent

(* What the invariant says of the row the runner is at.                     *)
LEMMA CurrentRow ==
    ASSUME OutreachInv, pc \in SendingPc, NEW u \in User, Current(u)
    PROVE  /\ PageOK(u) /\ CallOK(u) /\ MessageOK(u)
           /\ cand[u] \in Candidate /\ snap[u] \in Strategy
           /\ message[u] \in [Channel -> Message]
           /\ calls[u] \in [Channel -> Nat] /\ sending \in Channel
BY DEF OutreachInv, RunOK, OutreachTypeOK, Current, IsFirst

(* A message is reserved once for a candidate and channel, with the text of *)
(* an approved strategy (reserve_message).                                  *)
LEMMA ReserveInv ==
    ASSUME OutreachInv, pc \in SendingPc, NEW u \in User, Current(u),
           NEW c \in Channel, Reserve(u, c), c = "dm" => u \in contacted
    PROVE  OutreachInv'
<1> USE DEF OutreachInv
<1> DEFINE m == [status |-> "sending", version |-> snap[u].version,
                 content |-> SentText(snap[u], c)]
<1>1. /\ PageOK(u) /\ MessageOK(u) /\ snap[u] \in Strategy
      /\ snap[u].voice \in Text /\ snap[u].version \in Nat
  BY CurrentRow DEF Strategy, Text
<1>2. m \in Message
  BY <1>1 DEF Message, MessageStatus, SentText, Neutral
<1>3. /\ message' = [message EXCEPT ![u][c] = m]
      /\ sending' = c /\ pc' = "call" /\ message[u][c].status = "none"
      /\ UNCHANGED <<cand, strat, stage, cursor, todo, snap, contacted, sent,
                     retries, screen, calls, approved>>
  BY DEF Reserve, KeepHistory, CanReserve
<1>4. /\ message'[u][c] = m
      /\ \A d \in Channel \ {c} : message'[u][d] = message[u][d]
      /\ \A w \in User \ {u} : message'[w] = message[w]
  BY <1>3 DEF OutreachTypeOK
<1>5. OutreachTypeOK'
  BY <1>2, <1>3 DEF OutreachTypeOK, PcState
<1>6. MessageOK(u)'
  <2>1. /\ m.status = "sending" /\ m.version = snap[u].version
        /\ m.content = SentText(snap[u], c)
    OBVIOUS
  <2> HIDE DEF m
  <2>2. ASSUME NEW d \in Channel
        PROVE  /\ calls'[u][d] \in 0..1
               /\ message'[u][d].status = "none" => calls'[u][d] = 0
               /\ message'[u][d].status # "none" =>
                      /\ cand'[u].qualification = "qualified"
                      /\ \E s \in approved'[u] :
                             /\ s.version = message'[u][d].version
                             /\ message'[u][d].content = SentText(s, d)
    <3>1. CASE d = c
      BY <1>1, <1>3, <1>4, <2>1, <3>1 DEF MessageOK, PageOK
    <3>2. CASE d # c
      BY <1>1, <1>3, <1>4, <3>2 DEF MessageOK
    <3> QED BY <3>1, <3>2
  <2>3. message'[u]["dm"].status # "none" => cand'[u].status = "contacted"
    BY <1>1, <1>3, <1>4 DEF MessageOK, RunOK, Channel
  <2>4. cand'[u].status = "contacted" =>
            /\ cand'[u].qualification = "qualified"
            /\ message'[u]["comment"].status = "sent"
    BY <1>1, <1>3, <1>4 DEF MessageOK, Channel
  <2> QED BY <2>2, <2>3, <2>4 DEF MessageOK
<1>7. CallOK(u)'
  BY <1>1, <1>3, <1>4 DEF CallOK, MessageOK
<1>8. ASSUME NEW w \in User, Current(w)' PROVE CallOK(w)'
  BY <1>3, <1>7, <1>8, SameCurrent
<1>9. \A w \in User \ {u} : MessageKept(w)
  BY <1>3, <1>4 DEF MessageKept
<1>10. SendKeeps /\ \A w \in contacted' : cand'[w].status = "contacted"
  BY <1>3 DEF SendKeeps, RunOK
<1>11. cand'[u].qualification = "qualified"
  BY <1>1, <1>3 DEF PageOK
<1> QED BY <1>5, <1>6, <1>8, <1>9, <1>10, <1>11, SendStep

(* The comment is reserved or passed over.                                  *)
LEMMA CommentInv ==
    ASSUME OutreachInv, NEW u \in User, Comment(u)
    PROVE  OutreachInv'
<1>1. pc \in SendingPc /\ Current(u) /\ "comment" \in Channel
  BY DEF Comment, SendingPc, Channel
<1>2. CASE Reserve(u, "comment")
  BY <1>1, <1>2, ReserveInv
<1>3. CASE Pass(u, "comment")
  BY <1>1, <1>3, PassInv
<1> QED BY <1>2, <1>3 DEF Comment

(* The private message is reserved, for a contact, or passed over.          *)
LEMMA DmInv ==
    ASSUME OutreachInv, NEW u \in User, Dm(u)
    PROVE  OutreachInv'
<1>1. pc \in SendingPc /\ Current(u) /\ "dm" \in Channel
  BY DEF Dm, SendingPc, Channel
<1>2. CASE WantsDm(u) /\ Reserve(u, "dm")
  BY <1>1, <1>2, ReserveInv DEF WantsDm
<1>3. CASE Pass(u, "dm")
  BY <1>1, <1>3, PassInv
<1> QED BY <1>2, <1>3 DEF Dm

(* A channel is called for a message that was reserved for the call.        *)
LEMMA CallChannelInv ==
    ASSUME OutreachInv, NEW u \in User, CallChannel(u)
    PROVE  OutreachInv'
<1> USE DEF OutreachInv
<1>1. /\ pc = "call" /\ pc \in SendingPc /\ Current(u) /\ pc' = "calling"
      /\ calls' = [calls EXCEPT ![u][sending] = @ + 1]
      /\ UNCHANGED <<cand, strat, message, stage, cursor, todo, snap,
                     contacted, sending, sent, retries, screen, approved>>
  BY DEF CallChannel, SendingPc, store, local
<1>2. /\ PageOK(u) /\ CallOK(u) /\ MessageOK(u)
      /\ calls[u] \in [Channel -> Nat] /\ sending \in Channel
  BY <1>1, CurrentRow
<1>3. message[u][sending].status = "sending" /\ calls[u][sending] = 0
  BY <1>1, <1>2 DEF CallOK
<1>4. /\ calls'[u][sending] = 1
      /\ \A d \in Channel \ {sending} : calls'[u][d] = calls[u][d]
      /\ \A w \in User \ {u} : calls'[w] = calls[w]
  BY <1>1, <1>2, <1>3 DEF OutreachTypeOK
<1>5. OutreachTypeOK'
  BY <1>1, <1>2 DEF OutreachTypeOK, PcState, AwaitingPc
<1>6. MessageOK(u)'
  BY <1>1, <1>2, <1>3, <1>4 DEF MessageOK
<1>7. CallOK(u)'
  BY <1>1, <1>3 DEF CallOK
<1>8. ASSUME NEW w \in User, Current(w)' PROVE CallOK(w)'
  BY <1>1, <1>7, <1>8, SameCurrent
<1>9. \A w \in User \ {u} : MessageKept(w)
  BY <1>1, <1>4 DEF MessageKept
<1>10. SendKeeps /\ \A w \in contacted' : cand'[w].status = "contacted"
  BY <1>1 DEF SendKeeps, RunOK
<1>11. cand'[u].qualification = "qualified"
  BY <1>1, <1>2 DEF PageOK
<1> QED BY <1>1, <1>5, <1>6, <1>8, <1>9, <1>10, <1>11, SendStep

(* A message that is settled keeps its text, and only one that is being     *)
(* sent is settled (finish_message).                                        *)
LEMMA Finished ==
    ASSUME OutreachInv, pc = "calling", NEW u \in User, Current(u),
           NEW status \in MessageStatus \ {"none"}, Finish(u, status),
           UNCHANGED <<cand, calls, approved>>
    PROVE  /\ message' \in [User -> [Channel -> Message]]
           /\ message'[u][sending].status = status
           /\ MessageOK(u)'
           /\ \A w \in User \ {u} : MessageKept(w)
<1> USE DEF OutreachInv
<1>1. /\ message[u][sending].status = "sending" /\ MessageOK(u)
      /\ message[u] \in [Channel -> Message] /\ sending \in Channel
  BY CurrentRow DEF SendingPc, CallOK
<1>2. PICK m \in Message : /\ m.status = status
                           /\ m.version = message[u][sending].version
                           /\ m.content = message[u][sending].content
                           /\ message' = [message EXCEPT ![u][sending] = m]
  <2> DEFINE m == [message[u][sending] EXCEPT !.status = status]
  <2>1. /\ m \in Message /\ m.status = status
        /\ m.version = message[u][sending].version
        /\ m.content = message[u][sending].content
    BY <1>1 DEF Message
  <2>2. message' = [message EXCEPT ![u][sending] = m]
    BY <1>1 DEF Finish, OutreachTypeOK, Message
  <2> QED BY <2>1, <2>2
<1>3. /\ message'[u][sending] = m
      /\ \A d \in Channel \ {sending} : message'[u][d] = message[u][d]
      /\ \A w \in User \ {u} : message'[w] = message[w]
  BY <1>1, <1>2 DEF OutreachTypeOK
<1>4. message' \in [User -> [Channel -> Message]]
  BY <1>1, <1>2 DEF OutreachTypeOK
<1>5. MessageOK(u)'
  <2>1. ASSUME NEW d \in Channel
        PROVE  /\ calls'[u][d] \in 0..1
               /\ message'[u][d].status = "none" => calls'[u][d] = 0
               /\ message'[u][d].status # "none" =>
                      /\ cand'[u].qualification = "qualified"
                      /\ \E s \in approved'[u] :
                             /\ s.version = message'[u][d].version
                             /\ message'[u][d].content = SentText(s, d)
    <3>1. CASE d = sending
      BY <1>1, <1>2, <1>3, <3>1 DEF MessageOK
    <3>2. CASE d # sending
      BY <1>1, <1>3, <3>2 DEF MessageOK
    <3> QED BY <3>1, <3>2
  <2>2. message'[u]["dm"].status # "none" => cand'[u].status = "contacted"
    BY <1>1, <1>2, <1>3 DEF MessageOK, Channel
  <2>3. cand'[u].status = "contacted" =>
            /\ cand'[u].qualification = "qualified"
            /\ message'[u]["comment"].status = "sent"
    BY <1>1, <1>3 DEF MessageOK, Channel
  <2> QED BY <2>1, <2>2, <2>3 DEF MessageOK
<1>6. \A w \in User \ {u} : MessageKept(w)
  BY <1>3 DEF MessageKept
<1> QED BY <1>2, <1>3, <1>4, <1>5, <1>6

(* A channel that succeeds, fails or raises settles the message.            *)
LEMMA ChannelAnswers ==
    ASSUME OutreachInv, NEW u \in User,
           \/ ChannelSucceeds(u)
           \/ \E status \in {"failed", "uncertain"} : ChannelFails(u, status)
    PROVE  OutreachInv'
<1> USE DEF OutreachInv
<1>1. /\ pc = "calling" /\ pc \in SendingPc /\ Current(u)
      /\ UNCHANGED <<cand, strat, stage, cursor, snap, contacted, sending,
                     retries, screen, calls, approved>>
  BY DEF ChannelSucceeds, ChannelFails, KeepHistory, SendingPc
<1>2. PICK status \in MessageStatus \ {"none"} : Finish(u, status)
  BY DEF ChannelSucceeds, ChannelFails, MessageStatus
<1>3. /\ message' \in [User -> [Channel -> Message]]
      /\ MessageOK(u)' /\ \A w \in User \ {u} : MessageKept(w)
  BY <1>1, <1>2, Finished
<1>4. /\ todo' \subseteq todo
      /\ pc' \in {"comment", "dm", "outreach", "contact"}
      /\ sent' \in [Channel -> Nat]
  BY <1>1 DEF ChannelSucceeds, ChannelFails, Advance, OutreachTypeOK,
              Channel
<1>5. OutreachTypeOK'
  BY <1>1, <1>3, <1>4 DEF OutreachTypeOK, PcState
<1>6. ASSUME NEW w \in User, pc' \in SendingPc, Current(w)' PROVE CallOK(w)'
  <2>1. CASE pc' = "contact"
    <3>1. ChannelSucceeds(u) /\ sending = "comment" /\ todo' = todo
      BY <2>1 DEF ChannelSucceeds, ChannelFails, Advance
    <3>2. message'[u][sending].status = "sent"
      BY <1>1, <3>1, Finished DEF ChannelSucceeds, MessageStatus
    <3>3. w = u
      BY <1>1, <1>6, <3>1, SameCurrent
    <3> QED BY <1>1, <2>1, <3>1, <3>2, <3>3 DEF CallOK
  <2>2. CASE pc' # "contact"
    BY <1>4, <2>2 DEF CallOK
  <2> QED BY <2>1, <2>2
<1>7. SendKeeps /\ \A w \in contacted' : cand'[w].status = "contacted"
  BY <1>1, <1>4 DEF SendKeeps, RunOK
<1>8. cand'[u].qualification = "qualified"
  BY <1>1, CurrentRow DEF PageOK
<1> QED BY <1>1, <1>3, <1>5, <1>6, <1>7, <1>8, SendStep

(* A contact keeps a qualified candidate qualified: the trigger derives the *)
(* qualification from the older column (update_job_user).                   *)
LEMMA Contacted ==
    ASSUME NEW c \in Candidate, c.qualification = "qualified"
    PROVE  LET d == UpdateJobUser(c, "contacted")
           IN  /\ d \in Candidate
               /\ d.status = "contacted" /\ d.qualification = "qualified"
BY DEF UpdateJobUser, SyncTrigger, QualificationOf, Candidate, UserStatus,
       QualificationStatus

(* A decision of a person about a candidate: nobody was contacted before,   *)
(* and nobody is by it (transition_candidate).                              *)
LEMMA NobodyContacted ==
    ASSUME NEW c \in Candidate, NEW action \in ReviewAction, NEW version,
           CanTransition(c, action, version)
    PROVE  LET d == TransitionCandidate(c, action)
           IN  /\ d \in Candidate /\ d.status # "contacted"
               /\ c.qualification # "qualified"
<1>1. PICK t \in QualificationStatus : t = TargetOf(action)
  BY DEF TargetOf, ReviewAction, QualificationStatus
<1>2. c.qualification \notin Verdict /\ t # c.qualification
  BY <1>1 DEF CanTransition, QualificationTransitions
<1>3. PICK s \in UserStatus \ {"contacted"} : s = LegacyStatus(t)
  BY DEF LegacyStatus, UserStatus, QualificationStatus, Verdict
<1>4. PICK n \in Nat : n = c.version + 1
  BY DEF Candidate
<1> DEFINE w == [c EXCEPT !.qualification = t, !.status = s, !.version = n]
<1>5. w \in Candidate /\ w.qualification = t /\ w.status = s
  BY DEF Candidate
<1>6. TransitionCandidate(c, action) = [w EXCEPT !.status = s]
  BY <1>1, <1>2, <1>3, <1>4, <1>5
     DEF TransitionCandidate, SyncTrigger, StatusFor
<1> QED BY <1>2, <1>3, <1>5, <1>6 DEF Candidate, Verdict

(* The contact follows the comment that went through (update_job_user).     *)
LEMMA MarkContactedInv ==
    ASSUME OutreachInv, NEW u \in User, MarkContacted(u)
    PROVE  OutreachInv'
<1> USE DEF OutreachInv
<1> DEFINE d == UpdateJobUser(cand[u], "contacted")
<1>1. /\ pc = "contact" /\ pc \in SendingPc /\ Current(u)
      /\ pc' = "publish" /\ cand' = [cand EXCEPT ![u] = d]
      /\ contacted' = contacted \cup {u}
      /\ sent' = [sent EXCEPT !["comment"] = @ + 1]
      /\ UNCHANGED <<strat, message, stage, cursor, todo, snap, sending,
                     retries, screen, calls, approved>>
  BY DEF MarkContacted, SendingPc, KeepHistory
<1>2. /\ cand[u] \in Candidate /\ cand[u].qualification = "qualified"
      /\ message[u]["comment"].status = "sent" /\ MessageOK(u)
  BY <1>1, CurrentRow DEF PageOK, CallOK
<1>3. /\ d \in Candidate /\ d.status = "contacted"
      /\ d.qualification = "qualified"
  BY <1>2, Contacted
<1> HIDE DEF d
<1>4. cand'[u] = d /\ \A w \in User \ {u} : cand'[w] = cand[w]
  BY <1>1 DEF OutreachTypeOK
<1>5. OutreachTypeOK'
  BY <1>1, <1>3 DEF OutreachTypeOK, PcState, AwaitingPc, Channel
<1>6. MessageOK(u)'
  BY <1>1, <1>2, <1>3, <1>4 DEF MessageOK
<1>7. \A w \in User \ {u} : MessageKept(w)
  BY <1>1, <1>4 DEF MessageKept
<1>8. SendKeeps /\ \A w \in contacted' : cand'[w].status = "contacted"
  BY <1>1, <1>3, <1>4 DEF SendKeeps, RunOK, OutreachTypeOK
<1>9. \A w \in User : CallOK(w)'
  BY <1>1 DEF CallOK
<1> QED BY <1>1, <1>3, <1>4, <1>5, <1>6, <1>7, <1>8, <1>9, SendStep

-----------------------------------------------------------------------------
(* The reviewers                                                           *)

(* A verdict concerns a candidate that nobody has written to, and none of   *)
(* the page that is being sent (transition_candidate).                      *)
LEMMA ReviewCandidateInv ==
    ASSUME OutreachInv, NEW u \in User, NEW action \in {"approve", "reject"},
           ReviewCandidate(u, action)
    PROVE  OutreachInv'
<1> USE DEF OutreachInv
<1> DEFINE d == TransitionCandidate(cand[u], action)
<1>1. /\ cand[u] \in Candidate /\ MessageOK(u)
      /\ message[u] \in [Channel -> Message]
  BY DEF OutreachTypeOK
<1>2. /\ d \in Candidate /\ d.status # "contacted"
      /\ cand[u].qualification # "qualified"
  <2>1. action \in ReviewAction
    BY DEF ReviewAction
  <2> QED BY <1>1, <2>1, NobodyContacted DEF ReviewCandidate
<1>3. /\ cand' = [cand EXCEPT ![u] = d]
      /\ UNCHANGED <<strat, message, screen, approved, calls, pc, stage,
                     cursor, todo, snap, contacted, sending, sent, retries>>
  BY DEF ReviewCandidate, KeepRunner, runner, local
<1> HIDE DEF d
<1>4. cand'[u] = d /\ \A w \in User \ {u} : cand'[w] = cand[w]
  BY <1>3 DEF OutreachTypeOK
<1>5. OutreachTypeOK'
  BY <1>2, <1>3 DEF OutreachTypeOK
<1>6. IdsOK'
  BY <1>3, IdsKept
<1>7. ASSUME NEW w \in User PROVE StrategyOK(w)'
  BY <1>3, StrategyKept
<1>8. \A c \in Channel : message[u][c].status = "none"
  BY <1>1, <1>2 DEF MessageOK
<1>9. MessageOK(u)'
  BY <1>1, <1>2, <1>3, <1>4, <1>8 DEF MessageOK, Channel
<1>10. ASSUME NEW w \in User PROVE MessageOK(w)'
  BY <1>3, <1>4, <1>9, MessageKeptOK DEF MessageKept
<1>11. RunOK'
  <2>1. u \notin contacted
    BY <1>1, <1>2 DEF RunOK, MessageOK
  <2>2. \A w \in contacted' : cand'[w].status = "contacted"
    BY <1>3, <1>4, <2>1 DEF RunOK, OutreachTypeOK
  <2>3. ASSUME pc' \in SendingPc, NEW w \in todo' PROVE PageOK(w)'
    <3>1. w \in User /\ PageOK(w)
      BY <1>3, <2>3 DEF RunOK, OutreachTypeOK
    <3>2. w # u
      BY <1>2, <3>1 DEF PageOK
    <3> QED BY <1>3, <1>4, <3>1, <3>2, PageKeptOK DEF PageOK
  <2>4. ASSUME pc' \in SendingPc, NEW w \in User, Current(w)'
        PROVE  CallOK(w)'
    <3>1. Current(w)
      BY <1>3, <2>4 DEF Current, IsFirst, SnapId
    <3>2. CallOK(w)
      BY <1>3, <2>4, <3>1 DEF RunOK
    <3> QED BY <1>3, <3>2 DEF CallOK
  <2> QED BY <2>2, <2>3, <2>4 DEF RunOK
<1> QED BY <1>5, <1>6, <1>7, <1>10, <1>11

(* A page that is opened shows the strategy there is.                       *)
LEMMA OpenStrategyInv ==
    ASSUME OutreachInv, NEW u \in User, OpenStrategy(u)
    PROVE  OutreachInv'
<1> USE DEF OutreachInv
<1>1. /\ screen' = [screen EXCEPT ![u] = strat[u]]
      /\ UNCHANGED <<cand, strat, message, approved, calls, pc, stage,
                     cursor, todo, snap, contacted, sending, sent, retries>>
  BY DEF OpenStrategy, KeepRunner, runner, local
<1>2. OutreachTypeOK'
  BY <1>1 DEF OutreachTypeOK
<1>3. ASSUME NEW w \in User PROVE StrategyOK(w)'
  <2>1. CASE w = u
    <3>1. screen'[u] = strat[u] /\ strat[u].version \in Nat
      BY <1>1 DEF OutreachTypeOK, Strategy
    <3> QED BY <1>1, <2>1, <3>1 DEF StrategyOK
  <2>2. CASE w # u
    <3>1. screen'[w] = screen[w]
      BY <1>1, <2>2 DEF OutreachTypeOK
    <3> QED BY <1>1, <3>1, StrategyKept
  <2> QED BY <2>1, <2>2
<1>4. IdsOK' /\ \A w \in User : MessageOK(w)'
  BY <1>1, IdsKept, MessageKeptOK DEF MessageKept
<1>5. RunOK'
  BY <1>1 DEF RunOK, PageOK, CallOK, Current, IsFirst, SnapId
<1> QED BY <1>2, <1>3, <1>4, <1>5

(* A strategy that people write is a new version of the same strategy, and  *)
(* what the runner has read of it is none of its business.                  *)
LEMMA StrategyWritten ==
    ASSUME OutreachInv, NEW u \in User, NEW s \in Strategy,
           strat' = [strat EXCEPT ![u] = s],
           s.id = strat[u].id, strat[u].id # 0,
           s.version = strat[u].version + 1,
           approved' \in [User -> SUBSET Strategy],
           \A w \in User : approved[w] \subseteq approved'[w],
           s.status = "approved" => s \in approved'[u],
           UNCHANGED <<cand, screen>>, KeepRunner
    PROVE  OutreachInv'
<1> USE DEF OutreachInv
<1>1. UNCHANGED <<message, calls, pc, stage, cursor, todo, snap, contacted,
                  sending, sent, retries>>
  BY DEF KeepRunner, runner, local
<1>2. strat'[u] = s /\ \A w \in User \ {u} : strat'[w] = strat[w]
  BY DEF OutreachTypeOK
<1>3. OutreachTypeOK'
  BY <1>1 DEF OutreachTypeOK
<1>4. \A w \in User : strat'[w].id = strat[w].id
  BY <1>2
<1>5. IdsOK'
  BY <1>4, IdsKept
<1>6. ASSUME NEW w \in User PROVE StrategyOK(w)'
  <2>1. CASE w = u
    BY <1>2, <2>1, NewVersion DEF OutreachTypeOK
  <2>2. CASE w # u
    BY <1>2, <2>2, StrategyKept
  <2> QED BY <2>1, <2>2
<1>7. ASSUME NEW w \in User PROVE MessageOK(w)'
  BY <1>1, MessageKeptOK DEF MessageKept
<1>8. ASSUME pc' \in SendingPc, NEW w \in todo' PROVE PageOK(w)'
  <2>1. w \in User /\ PageOK(w)
    BY <1>1, <1>8 DEF RunOK, OutreachTypeOK
  <2> QED BY <1>1, <1>4, <2>1, PageKeptOK DEF PageOK
<1>9. RunOK'
  BY <1>1, <1>8 DEF RunOK, CallOK, Current, IsFirst, SnapId
<1> QED BY <1>3, <1>5, <1>6, <1>7, <1>9

(* Edits, approvals and rejections (StrategyReviewStore).                   *)
LEMMA ReviewsInv ==
    ASSUME OutreachInv, NEW u \in User,
           Approves(u) \/ Rejects(u) \/ \E e \in Edit : Edits(u, e)
    PROVE  OutreachInv'
<1> USE DEF OutreachInv
<1>1. /\ strat[u] \in Strategy
      /\ approved \in [User -> SUBSET Strategy]
  BY DEF OutreachTypeOK
<1>2. strat[u].id # 0
  BY DEF StrategyOK, Approves, Rejects, Edits, Reviewable
<1>3. ASSUME NEW e \in Edit, Edits(u, e) PROVE OutreachInv'
  <2> DEFINE s == EditStrategy(strat[u], e)
  <2>1. /\ s \in Strategy /\ s.status = "draft" /\ s.id = strat[u].id
        /\ s.version = strat[u].version + 1
    BY <1>1, Edited
  <2>2. /\ strat' = [strat EXCEPT ![u] = s]
        /\ UNCHANGED <<cand, screen, approved>> /\ KeepRunner
    BY <1>3 DEF Edits
  <2> HIDE DEF s
  <2> QED BY <1>1, <1>2, <2>1, <2>2, StrategyWritten
<1>4. CASE Rejects(u)
  <2> DEFINE s == ReviewStrategy(strat[u], "rejected")
  <2>1. /\ s \in Strategy /\ s.status = "rejected" /\ s.id = strat[u].id
        /\ s.version = strat[u].version + 1
    BY <1>1, Reviewed
  <2>2. /\ strat' = [strat EXCEPT ![u] = s]
        /\ UNCHANGED <<cand, screen, approved>> /\ KeepRunner
    BY <1>4 DEF Rejects
  <2> HIDE DEF s
  <2> QED BY <1>1, <1>2, <2>1, <2>2, StrategyWritten
<1>5. CASE Approves(u)
  <2> DEFINE s == ReviewStrategy(strat[u], "approved")
  <2>1. /\ s \in Strategy /\ s.id = strat[u].id
        /\ s.version = strat[u].version + 1
    BY <1>1, Reviewed
  <2>2. /\ strat' = [strat EXCEPT ![u] = s]
        /\ UNCHANGED <<cand, screen>> /\ KeepRunner
    BY <1>5 DEF Approves
  <2>3. approved' = [approved EXCEPT ![u] = @ \cup {strat'[u]}]
    BY <1>5 DEF Approves
  <2> HIDE DEF s
  <2>4. strat'[u] = s
    BY <2>2 DEF OutreachTypeOK
  <2>5. /\ approved' \in [User -> SUBSET Strategy] /\ s \in approved'[u]
        /\ \A w \in User : approved[w] \subseteq approved'[w]
    BY <1>1, <2>1, <2>3, <2>4
  <2> QED BY <1>2, <2>1, <2>2, <2>5, StrategyWritten
<1> QED BY <1>3, <1>4, <1>5

-----------------------------------------------------------------------------
(* The invariant holds of a new job.                                        *)
LEMMA OutreachInitInv == Init => OutreachInv
<1> SUFFICES ASSUME Init PROVE OutreachInv
  OBVIOUS
<1>1. NewCandidate \in Candidate
  BY DEF NewCandidate, Candidate, QualificationStatus, UserStatus
<1>2. NoStrategy \in Strategy /\ NoStrategy.id = 0
  BY NothingIsStrategy
<1>3. NoMessage \in Message
  BY DEF NoMessage, Message, MessageStatus, Text
<1>4. OutreachTypeOK
  BY <1>1, <1>2, <1>3, OutreachAssumption
     DEF Init, OutreachTypeOK, PcState, AwaitingPc, Channel,
         OutreachAssumption
<1>5. IdsOK
  <2>1. Suggested \in SUBSET User
    BY DEF Suggested
  <2>2. Cardinality(Suggested) \in Nat
    BY <2>1, CountUsers, OutreachAssumption
  <2> QED BY <1>2, <2>2 DEF IdsOK, Init
<1>6. RunOK
  BY DEF Init, RunOK, SendingPc
<1>7. ASSUME NEW u \in User PROVE StrategyOK(u) /\ MessageOK(u)
  BY <1>2 DEF Init, StrategyOK, MessageOK, NoStrategy, NoMessage,
              NewCandidate, Channel
<1> QED BY <1>4, <1>5, <1>6, <1>7 DEF OutreachInv

(* Every step preserves the invariant.                                      *)
LEMMA OutreachInvStep == OutreachInv /\ [Next]_vars => OutreachInv'
<1> SUFFICES ASSUME OutreachInv, [Next]_vars PROVE OutreachInv'
  OBVIOUS
<1> USE OutreachAssumption
<1>1. CASE StrategyStep
  BY <1>1, RunnerMoves, ReadQualifiedPageInv, AgentFailsInv,
     AgentSuggestsInv DEF StrategyStep
<1>2. CASE GateStep
  BY <1>2, RunnerMoves, ApproveAllInv DEF GateStep
<1>3. CASE OutreachStep
  BY <1>3, ReadOutreachPageInv, PublishedInv, CommentInv, DmInv,
     CallChannelInv, ChannelAnswers, MarkContactedInv DEF OutreachStep
<1>4. CASE StageFails \/ RetryStage \/ SkipStage \/ Stop
  BY <1>4, RunnerMoves
<1>5. ASSUME NEW u \in User, ApiStep(u) PROVE OutreachInv'
  BY <1>5, ReviewCandidateInv, OpenStrategyInv, ReviewsInv DEF ApiStep
<1>6. CASE UNCHANGED vars
  <2>1. OutreachTypeOK'
    BY <1>6 DEF OutreachInv, OutreachTypeOK, vars, store, runner, local
  <2>2. RunOK'
    BY <1>6 DEF OutreachInv, RunOK, PageOK, CallOK, Current, IsFirst,
                SnapId, vars, store, runner, local
  <2> QED BY <1>6, <2>1, <2>2, LocalStep DEF vars, store
<1> QED BY <1>1, <1>2, <1>3, <1>4, <1>5, <1>6 DEF Next

(* The invariant holds in every reachable state.                            *)
LEMMA OutreachInvariance == Spec => []OutreachInv
BY OutreachInitInv, OutreachInvStep, PTL DEF Spec

-----------------------------------------------------------------------------
(* Rows, pages and the runner are well typed in every reachable state.      *)
THEOREM OutreachTypeCorrect == Spec => []OutreachTypeOK
BY OutreachInvariance, PTL DEF OutreachInv

(* No candidate is written to twice on a channel, however often stages fail *)
(* and are run again (reserve_message, _execute_reserved_message).          *)
THEOREM NobodyTwice == Spec => []OneCallPerChannel
<1>1. OutreachInv => OneCallPerChannel
  BY DEF OutreachInv, MessageOK, OneCallPerChannel
<1> QED BY <1>1, OutreachInvariance, PTL

(* Nothing is sent that nobody approved, or to a candidate that no person   *)
(* qualified (_run_campaign_outreach, StrategyReviewService).               *)
THEOREM OnlyApproved == Spec => []SentWasApproved
<1>1. OutreachInv => SentWasApproved
  BY DEF OutreachInv, MessageOK, SentWasApproved
<1> QED BY <1>1, OutreachInvariance, PTL

(* The private message follows the comment (update_job_user).               *)
THEOREM CommentFirst == Spec => []DmFollowsComment
<1>1. OutreachInv => DmFollowsComment
  BY DEF OutreachInv, MessageOK, DmFollowsComment
<1> QED BY <1>1, OutreachInvariance, PTL

(* An approval is of what the reviewer saw (StrategyReviewStore._review).   *)
THEOREM ApprovalsAreSeen == Spec => ApprovedAsSeen
<1> DEFINE Seen == \A u \in User :
                       approved'[u] # approved[u] /\ pc' = pc =>
                           /\ strat[u] = screen[u]
                           /\ strat'[u].text = screen[u].text
<1>1. ASSUME OutreachInv, [Next]_vars PROVE Seen
  <2>1. CASE UNCHANGED approved
    BY <2>1
  <2>2. CASE ApproveAll
    BY <2>2 DEF ApproveAll
  <2>3. ASSUME NEW u \in User, Approves(u) PROVE Seen
    <3>1. strat[u] \in Strategy /\ StrategyOK(u)
      BY <1>1 DEF OutreachInv, OutreachTypeOK
    <3>2. strat[u] = screen[u]
      BY <2>3, <3>1 DEF Approves, Reviewable, CanReview, StrategyOK
    <3>3. strat'[u] = ReviewStrategy(strat[u], "approved")
      BY <1>1, <2>3 DEF Approves, OutreachInv, OutreachTypeOK
    <3>4. strat'[u].text = strat[u].text
      BY <3>1, <3>3, Reviewed
    <3>5. \A w \in User \ {u} : approved'[w] = approved[w]
      BY <1>1, <2>3 DEF Approves, OutreachInv, OutreachTypeOK
    <3> QED BY <3>2, <3>4, <3>5
  <2>4. \/ UNCHANGED approved \/ ApproveAll
        \/ \E u \in User : Approves(u)
    BY <1>1
       DEF Next, StrategyStep, GateStep, OutreachStep, ApiStep, vars,
           StrategyStarts, ReadQualifiedPage, AgentFails, AgentSuggests,
           AgentDone, Gate, OpenWorkbench, WorkbenchCloses, NoOutreach,
           ReadOutreachPage, Published, Comment, Dm, Reserve, Pass,
           CallChannel, ChannelSucceeds, ChannelFails, MarkContacted,
           StageFails, RetryStage, SkipStage, Stop, ReviewCandidate,
           OpenStrategy, Edits, Rejects, KeepHistory
  <2> QED BY <2>1, <2>2, <2>3, <2>4
<1>2. OutreachInv /\ [Next]_vars => [Seen]_vars
  BY <1>1
<1> QED BY <1>2, OutreachInvariance, PTL DEF Spec, ApprovedAsSeen

-----------------------------------------------------------------------------
(* Messages that are being sent                                            *)

Sending ==
    {p \in User \X Channel : message[p[1]][p[2]].status = "sending"}

\* A run may have one message under way, and a run that ended may have left
\* it: the runs before it left at most one each.
LeavesOne == {"call", "calling", "failed"} \cup EndedPc

Allowance == IF pc \in LeavesOne THEN retries + 1 ELSE retries

\* Until the outreach stage begins, nothing is being sent.
StageAt ==
    /\ pc \in {"idle", "strategy", "agent"} => stage = 3
    /\ pc \in SendingPc \cup {"gate", "decide", "review", "outreach"} =>
           stage = 4

SettledInv ==
    /\ StageAt
    /\ stage = 3 => Sending = {}
    /\ Cardinality(Sending) <= Allowance

(* There are finitely many messages, and one that starts or ends being sent *)
(* is one more or one less (reserve_message, finish_message).               *)
LEMMA CountSending ==
    ASSUME OutreachAssumption
    PROVE  /\ IsFiniteSet(Sending) /\ Cardinality(Sending) \in Nat
           /\ \A p : /\ Cardinality(Sending \cup {p}) <= Cardinality(Sending) + 1
                     /\ p \in Sending =>
                            Cardinality(Sending \ {p}) = Cardinality(Sending) - 1
<1>1. IsFiniteSet(User)
  BY CountUsers, User \in SUBSET User
<1>2. IsFiniteSet(Channel)
  <2>1. Channel = ({} \cup {"comment"}) \cup {"dm"}
    BY DEF Channel
  <2> QED BY <2>1, FS_EmptySet, FS_AddElement
<1>3. IsFiniteSet(User \X Channel)
  BY <1>1, <1>2, FS_Product
<1>4. Sending \in SUBSET (User \X Channel)
  BY DEF Sending
<1>5. IsFiniteSet(Sending)
  BY <1>3, <1>4, FS_Subset
<1>6. Cardinality(Sending) \in Nat
  BY <1>5, FS_CardinalityType
<1>7. ASSUME NEW p
      PROVE  /\ Cardinality(Sending \cup {p}) <= Cardinality(Sending) + 1
             /\ p \in Sending =>
                    Cardinality(Sending \ {p}) = Cardinality(Sending) - 1
  <2>1. Cardinality(Sending \cup {p}) =
            IF p \in Sending THEN Cardinality(Sending)
                             ELSE Cardinality(Sending) + 1
    BY <1>5, FS_AddElement
  <2>2. Cardinality(Sending \ {p}) =
            IF p \in Sending THEN Cardinality(Sending) - 1
                             ELSE Cardinality(Sending)
    BY <1>5, FS_RemoveElement
  <2> QED BY <1>6, <2>1, <2>2
<1> QED BY <1>5, <1>6, <1>7

(* A step that touches no message keeps the count within the allowance,    *)
(* which grows when a stage is run again and starts anew with the outreach  *)
(* stage (_handle_stage_error).                                             *)
LEMMA UntouchedSettled ==
    ASSUME OutreachAssumption, OutreachInv, SettledInv,
           UNCHANGED message, StageAt',
           \/ /\ stage = 3 /\ stage' \in {3, 4} /\ retries' \in Nat
           \/ /\ UNCHANGED <<stage, retries>>
              /\ pc \in LeavesOne => pc' \in LeavesOne
           \/ /\ UNCHANGED stage /\ retries' = retries + 1
    PROVE  SettledInv'
<1>1. Sending' = Sending
  BY DEF Sending
<1>2. Cardinality(Sending) \in Nat /\ retries \in Nat
  BY CountSending DEF OutreachInv, OutreachTypeOK, OutreachAssumption
<1>3. Cardinality(Sending) <= Allowance'
  <2>1. CASE stage = 3 /\ retries' \in Nat
    BY <2>1, FS_EmptySet DEF SettledInv, Allowance
  <2>2. CASE UNCHANGED retries /\ (pc \in LeavesOne => pc' \in LeavesOne)
    BY <1>2, <2>2 DEF SettledInv, Allowance
  <2>3. CASE retries' = retries + 1
    BY <1>2, <2>3 DEF SettledInv, Allowance
  <2> QED BY <2>1, <2>2, <2>3
<1>4. stage' = 3 => Sending = {}
  BY DEF SettledInv
<1> QED BY <1>1, <1>3, <1>4 DEF SettledInv

(* The runner outside a send, and the API: no message is touched.           *)
LEMMA QuietSettled ==
    ASSUME OutreachAssumption, OutreachInv, SettledInv,
           \/ StrategyStep \/ GateStep \/ ReadOutreachPage \/ Published
           \/ \E u \in User : CallChannel(u) \/ MarkContacted(u)
           \/ StageFails \/ RetryStage \/ SkipStage \/ Stop
           \/ \E u \in User : ApiStep(u)
           \/ UNCHANGED vars
    PROVE  SettledInv'
<1> USE DEF LeavesOne, EndedPc
<1>1. StageAt /\ retries \in Nat /\ stage \in {3, 4}
  BY DEF SettledInv, OutreachInv, OutreachTypeOK, OutreachAssumption
<1>2. CASE StrategyStep
  <2>1. stage = 3 /\ UNCHANGED message /\ StageAt'
        /\ stage' \in {3, 4} /\ retries' \in Nat
    BY <1>1, <1>2
       DEF StrategyStep, StrategyStarts, ReadQualifiedPage, AgentFails,
           AgentSuggests, AgentDone, store, StageAt, SendingPc
  <2> QED BY <2>1, UntouchedSettled
<1>3. CASE GateStep \/ ReadOutreachPage \/ Published
           \/ \E u \in User : CallChannel(u) \/ MarkContacted(u)
  <2>1. /\ UNCHANGED <<message, stage, retries>> /\ StageAt'
        /\ pc \in LeavesOne => pc' \in LeavesOne
    BY <1>1, <1>3
       DEF GateStep, Gate, OpenWorkbench, WorkbenchCloses, ApproveAll,
           NoOutreach, ReadOutreachPage, Published, CallChannel,
           MarkContacted, store, StageAt, SendingPc
  <2> QED BY <2>1, UntouchedSettled
<1>4. CASE StageFails \/ Stop
  <2>1. UNCHANGED <<message, stage, retries>> /\ pc' \in {"failed", "stopped"}
    BY <1>4 DEF StageFails, Stop, store
  <2>2. StageAt'
    BY <2>1 DEF StageAt, SendingPc
  <2> QED BY <2>1, <2>2, UntouchedSettled
<1>5. CASE RetryStage
  <2>1. UNCHANGED <<message, stage>> /\ retries' = retries + 1 /\ StageAt'
    BY <1>1, <1>5 DEF RetryStage, store, StageAt, SendingPc
  <2> QED BY <2>1, UntouchedSettled
<1>6. CASE SkipStage
  <2>1. /\ UNCHANGED message /\ StageAt'
        /\ \/ stage = 3 /\ stage' = 4 /\ retries' = 0
           \/ UNCHANGED <<stage, retries>> /\ pc' = "done"
    BY <1>1, <1>6 DEF SkipStage, store, StageAt, SendingPc
  <2> QED BY <2>1, UntouchedSettled
<1>7. CASE \/ \E u \in User : ApiStep(u)
           \/ UNCHANGED vars
  <2>1. UNCHANGED <<message, pc, stage, retries>>
    BY <1>7
       DEF ApiStep, ReviewCandidate, OpenStrategy, Approves, Rejects, Edits,
           KeepRunner, runner, vars, store
  <2>2. StageAt'
    BY <1>1, <2>1 DEF StageAt
  <2> QED BY <2>1, <2>2, UntouchedSettled
<1> QED BY <1>2, <1>3, <1>4, <1>5, <1>6, <1>7

(* A row that is passed over reserves nothing (_run_campaign_outreach).     *)
LEMMA PassSettled ==
    ASSUME OutreachAssumption, OutreachInv, SettledInv,
           pc \in {"comment", "dm"}, NEW u \in User, NEW c \in Channel,
           Pass(u, c)
    PROVE  SettledInv'
<1>1. UNCHANGED <<message, stage, retries>>
      /\ pc' \in {"comment", "dm", "outreach"}
  BY DEF Pass, Advance, store
<1>2. StageAt'
  BY <1>1 DEF SettledInv, StageAt, SendingPc
<1>3. pc \notin LeavesOne
  BY DEF LeavesOne, EndedPc
<1> QED BY <1>1, <1>2, <1>3, UntouchedSettled

(* A reservation adds the message that is under way (reserve_message).      *)
LEMMA ReserveSettled ==
    ASSUME OutreachAssumption, OutreachInv, SettledInv,
           pc \in {"comment", "dm"}, NEW u \in User, NEW c \in Channel,
           Reserve(u, c)
    PROVE  SettledInv'
<1>1. /\ pc' = "call" /\ UNCHANGED <<stage, retries>>
      /\ \A w \in User, d \in Channel :
             <<w, d>> # <<u, c>> => message'[w][d] = message[w][d]
  BY DEF Reserve, OutreachInv, OutreachTypeOK
<1>2. Sending' \subseteq Sending \cup {<<u, c>>}
  BY <1>1 DEF Sending
<1>3. IsFiniteSet(Sending \cup {<<u, c>>})
  BY CountSending, FS_AddElement
<1>4. /\ Cardinality(Sending') \in Nat
      /\ Cardinality(Sending') <= Cardinality(Sending \cup {<<u, c>>})
  BY <1>2, <1>3, FS_Subset, FS_CardinalityType
<1>5. /\ Cardinality(Sending) \in Nat
      /\ Cardinality(Sending \cup {<<u, c>>}) <= Cardinality(Sending) + 1
  BY CountSending
<1>r. retries \in Nat /\ Cardinality(Sending \cup {<<u, c>>}) \in Nat
  BY <1>3, FS_CardinalityType DEF OutreachInv, OutreachTypeOK
<1>6. Cardinality(Sending) <= retries
  BY DEF SettledInv, Allowance, LeavesOne, EndedPc
<1>7. Cardinality(Sending') <= Allowance'
  BY <1>1, <1>4, <1>5, <1>6, <1>r DEF Allowance, LeavesOne
<1>8. stage = 4
  BY DEF SettledInv, StageAt, SendingPc
<1> QED BY <1>1, <1>7, <1>8 DEF SettledInv, StageAt

(* Whatever the channel does settles the message (finish_message).          *)
LEMMA AnswerSettled ==
    ASSUME OutreachAssumption, OutreachInv, SettledInv, NEW u \in User,
           \/ ChannelSucceeds(u)
           \/ \E status \in {"failed", "uncertain"} : ChannelFails(u, status)
    PROVE  SettledInv'
<1>1. /\ pc = "calling" /\ pc \in SendingPc /\ Current(u)
      /\ UNCHANGED <<stage, retries>>
      /\ pc' \in {"comment", "dm", "outreach", "contact"}
  BY DEF ChannelSucceeds, ChannelFails, Advance, SendingPc
<1>2. PICK status \in {"sent", "failed", "uncertain"} : Finish(u, status)
  BY DEF ChannelSucceeds, ChannelFails
<1>3. /\ message[u][sending].status = "sending" /\ sending \in Channel
      /\ message[u] \in [Channel -> Message]
  BY <1>1, CurrentRow DEF CallOK
<1>4. /\ message'[u][sending].status = status
      /\ \A w \in User, d \in Channel :
             <<w, d>> # <<u, sending>> => message'[w][d] = message[w][d]
  BY <1>2, <1>3 DEF Finish, OutreachInv, OutreachTypeOK, Message
<1>5. Sending' = Sending \ {<<u, sending>>} /\ <<u, sending>> \in Sending
  BY <1>3, <1>4 DEF Sending
<1>6. /\ Cardinality(Sending) \in Nat
      /\ Cardinality(Sending') = Cardinality(Sending) - 1
  BY <1>5, CountSending
<1>r. retries \in Nat
  BY DEF OutreachInv, OutreachTypeOK
<1>7. Cardinality(Sending) <= retries + 1
  BY <1>1, <1>r DEF SettledInv, Allowance, LeavesOne
<1>8. Cardinality(Sending') <= Allowance'
  BY <1>1, <1>6, <1>7, <1>r DEF Allowance
<1>9. stage = 4
  BY <1>1 DEF SettledInv, StageAt
<1> QED BY <1>1, <1>8, <1>9 DEF SettledInv, StageAt

(* Every step keeps the count within the allowance.                         *)
LEMMA SettledStep ==
    ASSUME OutreachAssumption, OutreachInv, SettledInv, [Next]_vars
    PROVE  SettledInv'
<1>1. ASSUME NEW u \in User, Comment(u) PROVE SettledInv'
  BY <1>1, PassSettled, ReserveSettled DEF Comment, Channel
<1>2. ASSUME NEW u \in User, Dm(u) PROVE SettledInv'
  BY <1>2, PassSettled, ReserveSettled DEF Dm, Channel
<1>3. CASE OutreachStep
  BY <1>1, <1>2, <1>3, QuietSettled, AnswerSettled DEF OutreachStep
<1>4. CASE ~OutreachStep
  BY <1>4, QuietSettled DEF Next
<1> QED BY <1>3, <1>4

(* A run that ends leaves at most one message in the state sending, however *)
(* it ends: one for each time the stage was run (finish_message).           *)
THEOREM EverySendIsSettled == Spec => []SendsAreSettled
<1> USE OutreachAssumption
<1>1. Init => SettledInv
  <2> SUFFICES ASSUME Init PROVE SettledInv
    OBVIOUS
  <2>1. Sending = {}
    BY DEF Init, Sending, NoMessage
  <2> QED BY <2>1, FS_EmptySet
          DEF Init, SettledInv, StageAt, SendingPc, Allowance
<1>2. OutreachInv /\ SettledInv /\ [Next]_vars => SettledInv'
  BY SettledStep
<1>3. OutreachInv /\ SettledInv => SendsAreSettled
  <2> SUFFICES ASSUME OutreachInv, SettledInv PROVE SendsAreSettled
    OBVIOUS
  <2>1. Cardinality(Sending) \in Nat /\ retries \in Nat
    BY CountSending DEF OutreachInv, OutreachTypeOK
  <2>2. Cardinality(Sending) <= retries + 1
    BY <2>1 DEF SettledInv, Allowance
  <2> QED BY <2>2 DEF SendsAreSettled, Sending
<1> QED BY <1>1, <1>2, <1>3, OutreachInvariance, PTL DEF Spec
=============================================================================
