------------------------- MODULE CandidateFilterProofs -------------------------
(***************************************************************************)
(* Theorems about the review of candidates during the filter stage, for    *)
(* any number of candidates, page size, concurrency and reviews.           *)
(*                                                                         *)
(* FilterInv is the inductive invariant.  An AI write is accepted by the   *)
(* version of the row, so what ties it to the reviews is that the version  *)
(* counts the audit rows and that a task carries the number there were     *)
(* when its page was read (TaskOK); that an AI never leaves the pending    *)
(* statuses needs the two status columns to agree, since otherwise the     *)
(* database trigger would write a qualification of its own (RowOK).        *)
(***************************************************************************)
EXTENDS CandidateFilterProperties, SequenceTheorems, WellFoundedInduction,
        TLAPS

\* The two status columns say the same, and nobody was contacted yet.
Agree(c) == c.status = LegacyStatus(c.qualification)

Alive(t) == t.at \in {"queued", "enriching", "qualifying"}

\* The audit rows of a candidate and the qualification they lead to.
Decided(trail, q) ==
    q \in Verdict =>
        \E i \in DOMAIN trail :
            /\ trail[i].action # "update_labels"
            /\ trail[i].result = q
            /\ \A k \in DOMAIN trail :
                   k > i => trail[k].action = "update_labels"

Explained(trail, q) ==
    /\ \A i \in 1..(Len(trail) - 1) :
           \/ trail[i + 1].before = trail[i].result
           \/ {trail[i].result, trail[i + 1].before} \subseteq AiPending
    /\ \A i \in DOMAIN trail :
           trail[i].before \in Verdict => trail[i].action = "update_labels"
    /\ Len(trail) > 0 =>
           \/ trail[Len(trail)].result = q
           \/ {trail[Len(trail)].result, q} \subseteq AiPending

RowOK(c, trail) ==
    /\ Agree(c)
    /\ Len(trail) = c.version
    /\ Decided(trail, c.qualification)
    /\ Explained(trail, c.qualification)

TaskOK(u) ==
    /\ task[u].at # "none" => task[u].version = seen[u]
    /\ Alive(task[u]) => task[u].score = applied[u]

UserOK(u) ==
    RowOK(cand[u], audits[u]) /\ TaskOK(u) /\ cand[u].score = applied[u]

FilterInv == FilterTypeOK /\ \A u \in User : UserOK(u)

-----------------------------------------------------------------------------
(* The writes of people and AI to a row, with the trigger that follows     *)

(* A decision of a person takes a pending row to what was asked for and     *)
(* counts as one version (transition_candidate).                            *)
LEMMA Transitioned ==
    ASSUME NEW c \in Candidate, NEW action \in ReviewAction, NEW version,
           CanTransition(c, action, version)
    PROVE  LET d == TransitionCandidate(c, action)
           IN  /\ d \in Candidate /\ Agree(d)
               /\ d.qualification = TargetOf(action)
               /\ d.version = c.version + 1 /\ d.score = c.score
               /\ c.qualification \notin Verdict
<1>1. PICK t \in QualificationStatus : t = TargetOf(action)
  BY DEF TargetOf, ReviewAction, QualificationStatus
<1>2. c.qualification \notin Verdict /\ t # c.qualification
  BY <1>1 DEF CanTransition, QualificationTransitions
<1>3. PICK s \in UserStatus \ {"contacted"} : s = LegacyStatus(t)
  BY DEF LegacyStatus, UserStatus, QualificationStatus, Verdict
<1>4. PICK n \in Nat : n = c.version + 1
  BY DEF Candidate
<1> DEFINE w == [c EXCEPT !.qualification = t, !.status = s, !.version = n]
<1>5. /\ w \in Candidate
      /\ w.qualification = t /\ w.status = s
      /\ w.version = n /\ w.score = c.score
  BY DEF Candidate
<1>6. SyncTrigger(c, w) = [w EXCEPT !.status = s]
  BY <1>2, <1>3, <1>5 DEF SyncTrigger, StatusFor
<1>7. TransitionCandidate(c, action) = [w EXCEPT !.status = s]
  BY <1>1, <1>3, <1>4, <1>6 DEF TransitionCandidate
<1>8. [w EXCEPT !.status = s] = w
  BY <1>5 DEF Candidate
<1> QED BY <1>1, <1>2, <1>3, <1>5, <1>7, <1>8, <1>4 DEF Agree

(* A change of the labels is a version of its own (update_candidate_labels). *)
LEMMA Relabelled ==
    ASSUME NEW c \in Candidate
    PROVE  LET d == UpdateLabels(c)
           IN  /\ d \in Candidate
               /\ d.qualification = c.qualification /\ d.status = c.status
               /\ d.version = c.version + 1 /\ d.score = c.score
BY DEF UpdateLabels, Candidate

(* An AI leaves a pending row pending and takes no version                  *)
(* (update_ai_qualification).                                               *)
LEMMA WrittenByAi ==
    ASSUME NEW c \in Candidate, Agree(c), c.qualification \in AiPending,
           NEW target \in AiPending
    PROVE  LET d == UpdateAiQualification(c, target)
           IN  /\ d \in Candidate /\ Agree(d)
               /\ d.qualification = target
               /\ d.version = c.version /\ d.score = c.score
BY DEF UpdateAiQualification, SyncTrigger, StatusFor, LegacyStatus, Agree,
       Candidate, QualificationStatus, UserStatus, Verdict, AiPending

-----------------------------------------------------------------------------
(* Audit rows                                                              *)

(* The audit row of a decision explains the status it leads to.             *)
LEMMA TrailDecided ==
    ASSUME NEW trail \in Seq(Audit), NEW q \in QualificationStatus \ Verdict,
           Explained(trail, q),
           NEW action \in ReviewAction, NEW r \in QualificationStatus
    PROVE  LET a == [action |-> action, before |-> q, result |-> r]
               longer == Append(trail, a)
           IN  /\ longer \in Seq(Audit) /\ Len(longer) = Len(trail) + 1
               /\ Decided(longer, r) /\ Explained(longer, r)
<1> DEFINE a == [action |-> action, before |-> q, result |-> r]
           longer == Append(trail, a)
<1>1. a \in Audit /\ longer \in Seq(Audit)
  BY DEF Audit
<1>2. /\ Len(longer) = Len(trail) + 1 /\ longer[Len(longer)] = a
      /\ \A i \in DOMAIN trail : longer[i] = trail[i]
      /\ DOMAIN longer = 1..(Len(trail) + 1) /\ DOMAIN trail = 1..Len(trail)
      /\ Len(trail) \in Nat
  BY <1>1
<1>3. Decided(longer, r)
  BY <1>2 DEF Decided, ReviewAction
<1>4. Explained(longer, r)
  BY <1>2 DEF Explained
<1> QED BY <1>1, <1>2, <1>3, <1>4

(* The audit row of a relabelling leaves the decision where it was.         *)
LEMMA TrailRelabelled ==
    ASSUME NEW trail \in Seq(Audit), NEW q \in QualificationStatus,
           Explained(trail, q), Decided(trail, q)
    PROVE  LET a == [action |-> "update_labels", before |-> q, result |-> q]
               longer == Append(trail, a)
           IN  /\ longer \in Seq(Audit) /\ Len(longer) = Len(trail) + 1
               /\ Decided(longer, q) /\ Explained(longer, q)
<1> DEFINE a == [action |-> "update_labels", before |-> q, result |-> q]
           longer == Append(trail, a)
<1>1. a \in Audit /\ longer \in Seq(Audit)
  BY DEF Audit
<1>2. /\ Len(longer) = Len(trail) + 1 /\ longer[Len(longer)] = a
      /\ \A i \in DOMAIN trail : longer[i] = trail[i]
      /\ DOMAIN longer = 1..(Len(trail) + 1) /\ DOMAIN trail = 1..Len(trail)
      /\ Len(trail) \in Nat
  BY <1>1
<1>3. Decided(longer, q)
  BY <1>2 DEF Decided
<1>4. Explained(longer, q)
  BY <1>2 DEF Explained
<1> QED BY <1>1, <1>2, <1>3, <1>4

(* A status that an AI changes stays explained.                             *)
LEMMA TrailAi ==
    ASSUME NEW trail \in Seq(Audit), NEW q \in AiPending, NEW r \in AiPending,
           Explained(trail, q)
    PROVE  Decided(trail, r) /\ Explained(trail, r)
BY DEF Explained, Decided, AiPending, Verdict

-----------------------------------------------------------------------------
(* Rows with their audit rows                                              *)

(* A row an AI may write is as well explained afterwards.                   *)
LEMMA AiRowOK ==
    ASSUME NEW c \in Candidate, NEW trail \in Seq(Audit), RowOK(c, trail),
           c.qualification \in AiPending, NEW target \in AiPending
    PROVE  LET d == UpdateAiQualification(c, target)
           IN  /\ d \in Candidate /\ RowOK(d, trail)
               /\ d.score = c.score
<1> DEFINE d == UpdateAiQualification(c, target)
<1>1. /\ d \in Candidate /\ Agree(d)
      /\ d.qualification = target
      /\ d.version = c.version /\ d.score = c.score
  BY WrittenByAi DEF RowOK
<1>2. Decided(trail, target) /\ Explained(trail, target)
  BY TrailAi DEF RowOK
<1> QED BY <1>1, <1>2 DEF RowOK

(* The scores of a row concern none of this.                                *)
LEMMA Scored ==
    ASSUME NEW c \in Candidate, NEW trail, NEW n \in Nat
    PROVE  LET d == [c EXCEPT !.score = n]
           IN  /\ d \in Candidate /\ d.score = n
               /\ d.qualification = c.qualification
               /\ d.version = c.version
               /\ RowOK(c, trail) => RowOK(d, trail)
BY DEF Candidate, RowOK, Agree

(* The last member of a page exists, since a page is finite.                *)
LEMMA CursorIsLast ==
    ASSUME FilterAssumption, NEW page \in SUBSET User, page # {}
    PROVE  CursorAfter(page) \in page
<1>1. NumUsers \in Nat
  BY DEF FilterAssumption
<1> DEFINE T == {n \in Nat : \E u \in page : n = NumUsers - u}
<1>2. T \subseteq Nat /\ T # {}
  <2>1. PICK u \in page : TRUE
    OBVIOUS
  <2>2. NumUsers - u \in T
    BY <1>1 DEF User
  <2> QED BY <2>2
<1>3. PICK n \in T : \A m \in T : <<m, n>> \notin OpToRel(<, Nat)
  BY <1>2, WFMin, NatLessThanWellFounded
<1>4. PICK u \in page : n = NumUsers - u
  OBVIOUS
<1>5. ASSUME NEW w \in page PROVE w <= u
  <2>1. NumUsers - w \in T
    BY <1>1 DEF User
  <2>2. ~(NumUsers - w < n)
    BY <1>2, <1>3, <2>1 DEF OpToRel
  <2> QED BY <1>1, <1>4, <2>2 DEF User
<1> QED BY <1>5 DEF CursorAfter

-----------------------------------------------------------------------------
(* Steps                                                                   *)

\* Nothing that UserOK looks at changes, or the task ends.
Kept(u) ==
    /\ cand'[u] = cand[u] /\ audits'[u] = audits[u]
    /\ applied'[u] = applied[u] /\ seen'[u] = seen[u]
    /\ task'[u] = task[u] \/ task'[u] = NoTask

(* A candidate that a step leaves alone stays as it should be.              *)
LEMMA KeptOK ==
    ASSUME NEW u \in User, UserOK(u), Kept(u)
    PROVE  UserOK(u)'
BY DEF UserOK, TaskOK, Kept, NoTask, Alive

\* PeopleHavePriority, for one step and one candidate.
Priority(u) ==
    cand'[u].qualification # cand[u].qualification =>
        audits'[u] # audits[u] \/ seen[u] = Len(audits[u])

(* The invariant holds of a new job.                                        *)
LEMMA FilterInitInv == FilterAssumption /\ Init => FilterInv
<1> SUFFICES ASSUME FilterAssumption, Init PROVE FilterInv
  OBVIOUS
<1>1. NewCandidate \in Candidate /\ Agree(NewCandidate)
  BY DEF NewCandidate, Candidate, Agree, LegacyStatus, QualificationStatus,
         UserStatus, Verdict
<1>2. NoTask \in Task
  BY DEF NoTask, Task, TaskState, QualificationStatus
<1>3. <<>> \in Seq(Audit)
  OBVIOUS
<1>4. FilterTypeOK
  BY <1>1, <1>2, <1>3
     DEF Init, FilterTypeOK, StageState, FilterAssumption
<1>5. RowOK(NewCandidate, <<>>)
  BY <1>1 DEF RowOK, Decided, Explained, NewCandidate, Verdict
<1>6. ASSUME NEW u \in User PROVE UserOK(u)
  BY <1>5 DEF Init, UserOK, TaskOK, NoTask, Alive, NewCandidate
<1> QED BY <1>4, <1>6 DEF FilterInv

(* The steps of the stage end tasks or begin new ones, for the rows as they *)
(* are (_run_acquisition_filter).                                           *)
LEMMA StageStepInv ==
    ASSUME FilterAssumption, FilterInv, StageStep
    PROVE  FilterInv' /\ \A u \in User : Priority(u)
<1> USE DEF FilterInv
<1>1. NoTask \in Task
  BY DEF NoTask, Task, TaskState, QualificationStatus
<1>2. NumUsers \in Nat
  BY DEF FilterAssumption
<1>3. cand' = cand
  BY DEF StageStep, StageStarts, ReadPage, LastPage, PageDone, StageFails,
         RetryStage, store
<1>4. CASE StageStarts \/ LastPage \/ PageDone \/ StageFails \/ RetryStage
  <2>1. FilterTypeOK'
    BY <1>1, <1>2, <1>4
       DEF FilterTypeOK, StageStarts, LastPage, PageDone, StageFails,
           RetryStage, store, StageState, FilterAssumption
  <2>2. ASSUME NEW u \in User PROVE Kept(u)
    BY <1>4
       DEF FilterTypeOK, StageStarts, LastPage, PageDone, StageFails,
           RetryStage, store, Kept
  <2> QED BY <1>3, <2>1, <2>2, KeptOK DEF Priority
<1>5. CASE ReadPage
  <2>1. after' \in 0..NumUsers
    <3>1. Page \in SUBSET User /\ Page # {}
      BY <1>5 DEF ReadPage, Page, Waiting
    <3>2. CursorAfter(Page) \in User
      BY <3>1, CursorIsLast
    <3> QED BY <1>2, <1>5, <3>2 DEF ReadPage, User
  <2>2. ASSUME NEW u \in User
        PROVE  TaskFor(u) \in Task /\ Len(audits[u]) \in Nat
    BY DEF FilterTypeOK, TaskFor, Task, TaskState, Candidate
  <2>3. FilterTypeOK'
    BY <1>1, <1>5, <2>1, <2>2 DEF FilterTypeOK, ReadPage, store, StageState
  <2>4. ASSUME NEW u \in User PROVE UserOK(u)'
    <3>1. UserOK(u) /\ cand[u] \in Candidate
      BY DEF FilterTypeOK
    <3>2. CASE u \in Page
      <4>1. task'[u] = TaskFor(u) /\ seen'[u] = Len(audits[u])
        BY <1>5, <3>2 DEF ReadPage
      <4>2. task'[u].version = cand[u].version /\ task'[u].score = cand[u].score
        BY <4>1 DEF TaskFor
      <4> QED BY <1>5, <3>1, <4>1, <4>2
              DEF UserOK, TaskOK, RowOK, ReadPage, store
    <3>3. CASE u \notin Page
      BY <1>5, <3>1, <3>3, KeptOK DEF Kept, ReadPage, store
    <3> QED BY <3>2, <3>3
  <2> QED BY <1>3, <2>3, <2>4 DEF Priority
<1> QED BY <1>4, <1>5 DEF StageStep

(* A write for a task that is still right about its row.                    *)
LEMMA CurrentTask ==
    ASSUME NEW u \in User, UserOK(u), task[u].at # "none",
           CanUpdateAi(cand[u], task[u].version, task[u].starting)
    PROVE  cand[u].qualification \in AiPending /\ seen[u] = Len(audits[u])
BY DEF UserOK, RowOK, TaskOK, CanUpdateAi

(* The steps of a task write a row only as the task read it                 *)
(* (process_candidate).                                                     *)
LEMMA TaskStepInv ==
    ASSUME FilterAssumption, FilterInv, NEW u \in User, TaskStep(u)
    PROVE  FilterInv' /\ \A w \in User : Priority(w)
<1> USE DEF FilterInv
<1>1. /\ cand[u] \in Candidate /\ audits[u] \in Seq(Audit) /\ UserOK(u)
      /\ applied[u] \in Nat /\ assessed[u] \in Nat /\ task[u] \in Task
  BY DEF FilterTypeOK
<1>2. /\ audits' = audits /\ screen' = screen /\ stage' = stage
      /\ after' = after /\ retries' = retries /\ seen' = seen
      /\ Alive(task[u])
  BY DEF TaskStep, TaskBegins, Enriched, EnrichmentFails,
         QualificationFails, Assessed, KeepStage, Alive
<1>3. PICK at \in TaskState : TaskGoes(u, at)
  BY DEF TaskStep, TaskBegins, Enriched, EnrichmentFails,
         QualificationFails, Assessed, TaskState
<1>4. /\ task' \in [User -> Task]
      /\ task'[u].version = task[u].version
      /\ task'[u].score = task[u].score
      /\ task'[u].at = at
      /\ \A w \in User \ {u} : task'[w] = task[w]
  BY <1>3 DEF FilterTypeOK, TaskGoes, Task
<1>5. ASSUME NEW d \in Candidate, cand' = [cand EXCEPT ![u] = d],
             RowOK(d, audits[u]),
             NEW n \in Nat, applied' = [applied EXCEPT ![u] = n],
             d.score = n,
             Alive(task'[u]) => n = applied[u],
             assessed' \in [User -> Nat],
             d.qualification # cand[u].qualification =>
                 seen[u] = Len(audits[u])
      PROVE  FilterInv' /\ \A w \in User : Priority(w)
  <2>1. FilterTypeOK'
    BY <1>2, <1>4, <1>5 DEF FilterTypeOK
  <2>2. cand'[u] = d /\ applied'[u] = n
    BY <1>5 DEF FilterTypeOK
  <2>3. UserOK(u)'
    BY <1>1, <1>2, <1>4, <1>5, <2>2 DEF UserOK, TaskOK, Alive
  <2>4. ASSUME NEW w \in User \ {u} PROVE Kept(w)
    BY <1>2, <1>4, <1>5 DEF FilterTypeOK, Kept
  <2>5. ASSUME NEW w \in User PROVE UserOK(w)'
    BY <2>3, <2>4, KeptOK
  <2>6. ASSUME NEW w \in User PROVE Priority(w)
    BY <1>5, <2>2, <2>4 DEF Priority, Kept
  <2> QED BY <2>1, <2>5, <2>6
<1>6. CASE TaskBegins(u) \/ Enriched(u)
  <2>1. cand' = cand /\ assessed' = assessed /\ applied' = applied
    BY <1>6 DEF TaskBegins, Enriched
  <2>2. /\ cand' = [cand EXCEPT ![u] = cand[u]]
        /\ applied' = [applied EXCEPT ![u] = applied[u]]
        /\ assessed' \in [User -> Nat]
    BY <2>1 DEF FilterTypeOK
  <2> QED BY <1>1, <1>5, <2>2 DEF UserOK
<1>7. ASSUME NEW target \in AiPending, WriteAi(u, target),
             assessed' = assessed, applied' = applied
      PROVE  FilterInv' /\ \A w \in User : Priority(w)
  <2>1. /\ applied' = [applied EXCEPT ![u] = applied[u]]
        /\ assessed' \in [User -> Nat]
    BY <1>7 DEF FilterTypeOK
  <2>2. CASE CanUpdateAi(cand[u], task[u].version, task[u].starting)
    <3> DEFINE d == UpdateAiQualification(cand[u], target)
    <3>1. cand' = [cand EXCEPT ![u] = d]
      BY <1>7, <2>2 DEF WriteAi
    <3>2. cand[u].qualification \in AiPending /\ seen[u] = Len(audits[u])
      BY <1>1, <1>2, <2>2, CurrentTask DEF Alive
    <3>3. d \in Candidate /\ RowOK(d, audits[u]) /\ d.score = applied[u]
      BY <1>1, <3>2, AiRowOK DEF UserOK
    <3> HIDE DEF d
    <3> QED BY <1>1, <1>5, <2>1, <3>1, <3>2, <3>3
  <2>3. CASE ~CanUpdateAi(cand[u], task[u].version, task[u].starting)
    <3>1. cand' = [cand EXCEPT ![u] = cand[u]]
      BY <1>7, <2>3 DEF WriteAi
    <3> QED BY <1>1, <1>5, <2>1, <3>1 DEF UserOK
  <2> QED BY <2>2, <2>3
<1>8. CASE EnrichmentFails(u)
  BY <1>7, <1>8 DEF EnrichmentFails, AiPending
<1>9. CASE QualificationFails(u)
  BY <1>7, <1>9 DEF QualificationFails, AiPending
<1>10. ASSUME NEW suggestion \in QualificationStatus, Assessed(u, suggestion)
       PROVE  FilterInv' /\ \A w \in User : Priority(w)
  <2> DEFINE target == Suggested(suggestion)
             id == assessed[u] + 1
             scored == [cand[u] EXCEPT !.score = id]
  <2>1. target \in AiPending /\ id \in Nat
    BY <1>1 DEF Suggested, QualificationStatus, Verdict, AiPending
  <2>2. /\ assessed' \in [User -> Nat] /\ ~Alive(task'[u])
        /\ cand' = [cand EXCEPT ![u] =
                       Assess(cand[u], task[u], target, id)]
    <3>1. assessed' \in [User -> Nat]
      BY <1>1, <1>10, <2>1 DEF Assessed, FilterTypeOK
    <3>2. ~Alive(task'[u])
      BY <1>1, <1>10 DEF Assessed, FilterTypeOK, TaskGoes, Alive, Task
    <3> QED BY <3>1, <3>2, <1>10 DEF Assessed
  <2>3. /\ scored \in Candidate /\ scored.score = id
        /\ scored.qualification = cand[u].qualification
        /\ scored.version = cand[u].version
        /\ RowOK(scored, audits[u])
    <3>1. cand[u] \in Candidate /\ RowOK(cand[u], audits[u])
      BY <1>1 DEF UserOK
    <3> QED BY <2>1, <3>1, Scored
  <2>4. CASE CanUpdateAi(cand[u], task[u].version, task[u].starting)
    <3> DEFINE d == UpdateAiQualification(scored, target)
    <3>1. cand' = [cand EXCEPT ![u] = d]
      BY <2>2, <2>4 DEF Assess
    <3>2. applied' = [applied EXCEPT ![u] = id]
      BY <1>10, <2>4 DEF Assessed
    <3>3. cand[u].qualification \in AiPending /\ seen[u] = Len(audits[u])
      BY <1>1, <1>2, <2>4, CurrentTask DEF Alive
    <3>4. d \in Candidate /\ RowOK(d, audits[u]) /\ d.score = id
      <4> HIDE DEF scored
      <4> QED BY <1>1, <2>1, <2>3, <3>3, AiRowOK
    <3> HIDE DEF d, id
    <3> QED BY <1>5, <2>1, <2>2, <3>1, <3>2, <3>3, <3>4
  <2>5. CASE ~CanUpdateAi(cand[u], task[u].version, task[u].starting)
    <3> DEFINE d == [scored EXCEPT !.score = task[u].score]
    <3>1. cand' = [cand EXCEPT ![u] = d]
      BY <2>2, <2>5 DEF Assess
    <3>2. applied' = [applied EXCEPT ![u] = applied[u]]
      BY <1>10, <2>5 DEF Assessed
    <3>3. task[u].score = applied[u] /\ task[u].score \in Nat
      BY <1>1, <1>2 DEF UserOK, TaskOK, Task
    <3>4. /\ d \in Candidate /\ RowOK(d, audits[u]) /\ d.score = applied[u]
          /\ d.qualification = cand[u].qualification
      <4> HIDE DEF scored
      <4> QED BY <2>3, <3>3, Scored
    <3> HIDE DEF d
    <3> QED BY <1>1, <1>5, <2>2, <3>1, <3>2, <3>4
  <2> QED BY <2>4, <2>5
<1> QED BY <1>6, <1>8, <1>9, <1>10 DEF TaskStep

(* The steps of people are one version and one audit row each               *)
(* (AcquisitionStore).                                                      *)
LEMMA ReviewStepInv ==
    ASSUME FilterAssumption, FilterInv, NEW u \in User, ReviewStep(u)
    PROVE  FilterInv' /\ \A w \in User : Priority(w)
<1> USE DEF FilterInv
<1>1. /\ cand[u] \in Candidate /\ audits[u] \in Seq(Audit) /\ UserOK(u)
      /\ cand[u].qualification \in QualificationStatus
      /\ cand[u].version \in Nat
  BY DEF FilterTypeOK, Candidate
<1>2. /\ assessed' = assessed /\ stage' = stage /\ after' = after
      /\ task' = task /\ retries' = retries
      /\ applied' = applied /\ seen' = seen
  BY DEF ReviewStep, OpenCandidate, ReviewCandidate, Relabel, KeepRunner,
         runner
<1>3. ASSUME NEW d \in Candidate, cand' = [cand EXCEPT ![u] = d],
             NEW a, audits' = [audits EXCEPT ![u] = Append(@, a)],
             Append(audits[u], a) \in Seq(Audit),
             Len(Append(audits[u], a)) = Len(audits[u]) + 1,
             RowOK(d, Append(audits[u], a)), d.score = cand[u].score,
             screen' = screen
      PROVE  FilterInv' /\ \A w \in User : Priority(w)
  <2>1. FilterTypeOK'
    BY <1>2, <1>3 DEF FilterTypeOK
  <2>2. cand'[u] = d /\ audits'[u] = Append(audits[u], a)
    BY <1>3 DEF FilterTypeOK
  <2>3. UserOK(u)'
    BY <1>1, <1>2, <1>3, <2>2 DEF UserOK, TaskOK, Alive
  <2>4. ASSUME NEW w \in User \ {u} PROVE Kept(w)
    BY <1>2, <1>3 DEF FilterTypeOK, Kept
  <2>5. ASSUME NEW w \in User PROVE UserOK(w)'
    BY <2>3, <2>4, KeptOK
  <2>6. audits'[u] # audits[u]
    <3>1. Len(audits'[u]) = Len(audits[u]) + 1 /\ Len(audits[u]) \in Nat
      BY <1>1, <1>3, <2>2 DEF UserOK, RowOK
    <3>2. Len(audits[u]) + 1 # Len(audits[u])
      BY <3>1
    <3> QED BY <3>1, <3>2
  <2>7. ASSUME NEW w \in User PROVE Priority(w)
    BY <2>4, <2>6 DEF Priority, Kept
  <2> QED BY <2>1, <2>5, <2>7
<1>4. CASE OpenCandidate(u)
  <2>1. cand' = cand /\ audits' = audits
    BY <1>4 DEF OpenCandidate
  <2>2. FilterTypeOK'
    BY <1>1, <1>2, <1>4, <2>1 DEF OpenCandidate, FilterTypeOK
  <2>3. ASSUME NEW w \in User PROVE Kept(w) /\ Priority(w)
    BY <1>2, <2>1 DEF Kept, Priority
  <2> QED BY <2>2, <2>3, KeptOK
<1>5. ASSUME NEW action \in ReviewAction, ReviewCandidate(u, action)
      PROVE  FilterInv' /\ \A w \in User : Priority(w)
  <2> DEFINE d == TransitionCandidate(cand[u], action)
             a == [action |-> action, before |-> cand[u].qualification,
                   result |-> d.qualification]
  <2>1. /\ d \in Candidate /\ Agree(d)
        /\ d.qualification \in QualificationStatus
        /\ d.version = cand[u].version + 1 /\ d.score = cand[u].score
        /\ cand[u].qualification \notin Verdict
    BY <1>1, <1>5, Transitioned DEF ReviewCandidate, Candidate
  <2>2. cand' = [cand EXCEPT ![u] = d] /\ cand'[u] = d /\ screen' = screen
    BY <1>5 DEF ReviewCandidate, FilterTypeOK
  <2>3. audits' = [audits EXCEPT ![u] = Append(@, a)]
    BY <1>5, <2>2 DEF ReviewCandidate, Record
  <2> HIDE DEF d
  <2>4. /\ Append(audits[u], a) \in Seq(Audit)
        /\ Len(Append(audits[u], a)) = Len(audits[u]) + 1
        /\ Decided(Append(audits[u], a), d.qualification)
        /\ Explained(Append(audits[u], a), d.qualification)
    BY <1>1, <2>1, TrailDecided DEF UserOK, RowOK
  <2>5. RowOK(d, Append(audits[u], a))
    BY <1>1, <2>1, <2>4 DEF RowOK, UserOK
  <2> HIDE DEF a
  <2> QED BY <1>3, <2>1, <2>2, <2>3, <2>4, <2>5
<1>6. CASE Relabel(u)
  <2> DEFINE d == UpdateLabels(cand[u])
             q == cand[u].qualification
             a == [action |-> "update_labels", before |-> q, result |-> q]
  <2>1. /\ d \in Candidate
        /\ d.qualification = q /\ d.status = cand[u].status
        /\ d.version = cand[u].version + 1 /\ d.score = cand[u].score
    BY <1>1, Relabelled
  <2>2. cand' = [cand EXCEPT ![u] = d] /\ cand'[u] = d /\ screen' = screen
    BY <1>6 DEF Relabel, FilterTypeOK
  <2>3. audits' = [audits EXCEPT ![u] = Append(@, a)]
    BY <1>6, <2>1, <2>2 DEF Relabel, Record
  <2> HIDE DEF d
  <2>4. /\ Append(audits[u], a) \in Seq(Audit)
        /\ Len(Append(audits[u], a)) = Len(audits[u]) + 1
        /\ Decided(Append(audits[u], a), q)
        /\ Explained(Append(audits[u], a), q)
    BY <1>1, TrailRelabelled DEF UserOK, RowOK
  <2>5. RowOK(d, Append(audits[u], a))
    BY <1>1, <2>1, <2>4 DEF RowOK, UserOK, Agree
  <2> HIDE DEF a, q
  <2> QED BY <1>3, <2>1, <2>2, <2>3, <2>4, <2>5
<1> QED BY <1>4, <1>5, <1>6 DEF ReviewStep

(* Every step preserves the invariant.                                      *)
LEMMA FilterInvStep ==
    ASSUME FilterAssumption, FilterInv, [Next]_vars
    PROVE  FilterInv' /\ \A u \in User : Priority(u)
<1>1. CASE StageStep
  BY <1>1, StageStepInv
<1>2. ASSUME NEW u \in User, TaskStep(u)
      PROVE  FilterInv' /\ \A w \in User : Priority(w)
  BY <1>2, TaskStepInv
<1>3. ASSUME NEW u \in User, ReviewStep(u)
      PROVE  FilterInv' /\ \A w \in User : Priority(w)
  BY <1>3, ReviewStepInv
<1>4. CASE UNCHANGED vars
  <2>1. FilterTypeOK'
    BY <1>4 DEF FilterInv, FilterTypeOK, vars, store, runner
  <2>2. ASSUME NEW u \in User PROVE Kept(u) /\ Priority(u)
    BY <1>4 DEF Kept, Priority, vars, store, runner
  <2> QED BY <2>1, <2>2, KeptOK DEF FilterInv
<1> QED BY <1>1, <1>2, <1>3, <1>4 DEF Next

(* The invariant holds in every reachable state.                            *)
LEMMA FilterInvariance == Spec => []FilterInv
<1>1. Init => FilterInv
  BY FilterInitInv, FilterAssumption
<1>2. FilterInv /\ [Next]_vars => FilterInv'
  BY FilterInvStep, FilterAssumption
<1> QED BY <1>1, <1>2, PTL DEF Spec

-----------------------------------------------------------------------------
(* Rows, tasks and the stage are well typed in every reachable state.       *)
THEOREM FilterTypeCorrect == Spec => []FilterTypeOK
BY FilterInvariance, PTL DEF FilterInv

(* No AI ever writes a verdict: behind every verdict is the last decision   *)
(* of a person (update_ai_qualification, transition_candidate).             *)
THEOREM VerdictsArePeople == Spec => []VerdictsArePeoples
<1>1. FilterInv => VerdictsArePeoples
  BY DEF FilterInv, UserOK, RowOK, Decided, VerdictsArePeoples
<1> QED BY <1>1, FilterInvariance, PTL

(* The audit rows explain every state of a candidate.                       *)
THEOREM TrailsExplain == Spec => []AuditsExplain
<1>1. FilterInv => AuditsExplain
  BY DEF FilterInv, UserOK, RowOK, Explained, AuditsExplain
<1> QED BY <1>1, FilterInvariance, PTL

(* A candidate shows the scores of the last assessment that was applied.    *)
THEOREM ScoresFollow == Spec => []ScoresAreApplied
<1>1. FilterInv => ScoresAreApplied
  BY DEF FilterInv, UserOK, ScoresAreApplied
<1> QED BY <1>1, FilterInvariance, PTL

(* An answer that was asked for before a review never moves the candidate   *)
(* after it (update_ai_qualification).                                      *)
THEOREM ReviewsPrevail == Spec => PeopleHavePriority
<1>1. FilterInv /\ [Next]_vars =>
          [\A u \in User :
              cand'[u].qualification # cand[u].qualification =>
                  \/ audits'[u] # audits[u]
                  \/ seen[u] = Len(audits[u])]_vars
  BY FilterInvStep, FilterAssumption DEF Priority
<1> QED BY <1>1, FilterInvariance, PTL DEF Spec, PeopleHavePriority
=============================================================================
