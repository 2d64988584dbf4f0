--------------------------- MODULE LiveEventsProofs ---------------------------
(***************************************************************************)
(* Theorems about the live events of a job, for any kinds of steps, limits *)
(* and bounds.                                                             *)
(*                                                                         *)
(* LiveInv is the inductive invariant.  A record is on its way from the    *)
(* queue of its run over a thread into the database: QueueOK and ThreadOK  *)
(* say that what is further on its way is of an earlier step, and that a   *)
(* thread which has counted the frequent events has room for one more      *)
(* (FrequentOK).  The page has the events 1..n for some n, and the page of *)
(* the stream that is being sent goes on where these end (ReaderAt).       *)
(***************************************************************************)
EXTENDS LiveEventsProperties, SequenceTheorems, FiniteSetTheorems, TLAPS

\* What a run records.
Recorded == Kind \cup {"done"}

AgentOK ==
    /\ browse # "idle" => run \in Run
    /\ browse = "idle" => queue = << >>
    /\ browse = "running" => step <= MaxSteps /\ Len(queue) < Capacity
    /\ browse = "closing" /\ queue # << >> => queue[Len(queue)].type = "done"

\* The events of a run that are written.
Written(r) == {i \in DOMAIN events : events[i].run = r}

EventOK(i) ==
    /\ events[i].run <= run
    /\ events[i].run = run /\ run # 0 => events[i].step <= step

\* A record that waits is later than the other records of the run before it.
QueueOK(p) ==
    /\ queue[p].run = run /\ queue[p].step <= step
    /\ queue[p].type \in Recorded
    /\ \A i \in Written(run) : events[i].step < queue[p].step
    /\ thread[run].at # "none" => thread[run].record.step < queue[p].step
    /\ \A q \in DOMAIN queue : p < q => queue[p].step < queue[q].step

ThreadOK(r) ==
    thread[r].at # "none" =>
        /\ r <= run /\ thread[r].record.run = r
        /\ thread[r].record.type \in Recorded
        /\ thread[r].at = "checked" => thread[r].record.type \in HighFrequency
        /\ r = run => thread[r].record.step <= step
        /\ \A i \in Written(r) : events[i].step < thread[r].record.step

TellInv ==
    /\ AgentOK
    /\ \A i \in DOMAIN events : EventOK(i)
    /\ \A p \in DOMAIN queue : QueueOK(p)
    /\ \A r \in Run : ThreadOK(r)

\* Events of one run are in the order of its steps.
OrderOK ==
    \A i, j \in DOMAIN events :
        i < j /\ events[i].run = events[j].run /\ events[i].run # 0 =>
            events[i].step < events[j].step

\* Threads that have found room for a frequent event.
Checked == {r \in Run : thread[r].at = "checked"}

FrequentOK == Frequent + Cardinality(Checked) <= MaxFrequent + run

DecisionInv ==
    /\ DecisionIsTold
    /\ checkpoint = "none" => Types(Terminal \cup {"pending"}) = {}

\* The page has the first n events.
ReaderAt(n) ==
    /\ got = 1..n
    /\ client = "streaming" <=> stream.state # "none"
    /\ stream.state # "none" =>
           /\ stream.from = n + 1 /\ n <= stream.to
           /\ stream.to <= Len(events)
    /\ stream.state = "ended" =>
           job = "over" /\ Types({"lifecycle"}) \subseteq 1..n

ReaderInv ==
    /\ \E n \in 0..Len(events) : ReaderAt(n)
    /\ job = "running" => Types({"lifecycle"}) = {}

LiveInv ==
    /\ LiveTypeOK /\ TellInv /\ OrderOK /\ FrequentOK
    /\ DecisionInv /\ ReaderInv

-----------------------------------------------------------------------------
(* Sequences of events                                                     *)

(* What is in a sequence with one more event, and where.                    *)
LEMMA OneMore ==
    ASSUME NEW s \in Seq(Event), NEW e \in Event
    PROVE  LET t == Append(s, e)
           IN  /\ t \in Seq(Event) /\ Len(s) \in Nat /\ Len(t) = Len(s) + 1
               /\ DOMAIN s = 1..Len(s) /\ DOMAIN t = 1..Len(s) + 1
               /\ \A i \in DOMAIN s : t[i] = s[i]
               /\ t[Len(s) + 1] = e
BY AppendProperties, LenProperties

(* The largest of the first n numbers.                                      *)
LEMMA LargestUpTo ==
    ASSUME NEW n \in Nat
    PROVE  Largest(1..n) = n
<1>1. CASE n = 0
  BY <1>1 DEF Largest
<1>2. CASE n # 0
  <2>1. n \in 1..n /\ \A j \in 1..n : j <= n
    BY <1>2
  <2>2. \A i \in 1..n : (\A j \in 1..n : j <= i) => i = n
    BY <2>1
  <2>3. 1..n # {}
    BY <2>1
  <2> QED BY <2>1, <2>2, <2>3 DEF Largest
<1> QED BY <1>1, <1>2

(* A set of numbers has a least one.                                        *)
LEMMA LeastExists ==
    ASSUME NEW S \in SUBSET Nat, S # {}
    PROVE  \E n \in S : \A m \in S : n <= m
<1>1. PICK n \in S : \A m \in S : <<m, n>> \notin OpToRel(<, Nat)
  BY WFMin, NatLessThanWellFounded
<1>2. ASSUME NEW m \in S PROVE n <= m
  <2>1. ~(m < n)
    BY <1>1 DEF OpToRel
  <2> QED BY <2>1
<1> QED BY <1>2

-----------------------------------------------------------------------------
(* How the events grow                                                     *)

\* Events are only added, and the end of the job once.
Grows ==
    /\ events' \in Seq(Event) /\ Len(events) <= Len(events')
    /\ \A i \in DOMAIN events : events'[i] = events[i]
    /\ job = "over" => job' = "over"
    /\ \A i \in DOMAIN events' \ DOMAIN events :
           events'[i].type = "lifecycle" => job = "running" /\ job' = "over"

(* The events that tell a decision are well typed.                          *)
LEMMA PlainType ==
    ASSUME NEW type \in Kind \cup Terminal \cup {"done", "pending", "lifecycle"}
    PROVE  /\ Plain(type) \in Event /\ Plain(type).type = type
           /\ Plain(type).run = 0
BY LiveAssumption DEF Plain, Event

(* What RecordDecision adds (_record_checkpoint_decision).                  *)
LEMMA DecisionCases ==
    ASSUME LiveTypeOK, RecordDecision
    PROVE  /\ Plain("pending") \in Event
           /\ checkpoint # "pending" => Plain(checkpoint) \in Event
           /\ \/ /\ Types(Terminal \cup {"pending"}) = {}
                 /\ checkpoint = "pending"
                 /\ events' = Append(events, Plain("pending"))
              \/ /\ Types(Terminal \cup {"pending"}) = {}
                 /\ checkpoint \in Terminal
                 /\ events' = Append(Append(events, Plain("pending")),
                                     Plain(checkpoint))
              \/ /\ Types(Terminal \cup {"pending"}) # {}
                 /\ Types(Terminal) = {} /\ checkpoint \in Terminal
                 /\ events' = Append(events, Plain(checkpoint))
<1>1. events \in Seq(Event) /\ checkpoint \in {"pending"} \cup Terminal
  BY DEF RecordDecision, LiveTypeOK
<1>2. Plain("pending") \in Event
  BY PlainType
<1>3. checkpoint # "pending" => Plain(checkpoint) \in Event
  BY <1>1, PlainType
<1>4. Types(Terminal) \subseteq Types(Terminal \cup {"pending"})
  BY DEF Types
<1>5. \A e \in Event : events \o <<e>> = Append(events, e)
  BY <1>1, AppendIsConcat
<1>6. ASSUME NEW a \in Event, NEW b \in Event
      PROVE  events \o (<<a>> \o <<b>>) = Append(Append(events, a), b)
  <2>1. /\ <<a>> \in Seq(Event) /\ <<b>> \in Seq(Event)
        /\ events \o <<a>> \in Seq(Event)
    BY <1>1, ConcatProperties
  <2>2. events \o (<<a>> \o <<b>>) = (events \o <<a>>) \o <<b>>
    BY <1>1, <2>1, ConcatAssociative
  <2>3. (events \o <<a>>) \o <<b>> = Append(events \o <<a>>, b)
    BY <2>1, AppendIsConcat
  <2> QED BY <1>5, <2>2, <2>3
<1>7. events' = events \o DecisionEvents /\ DecisionEvents # << >>
  BY DEF RecordDecision
<1>8. CASE Types(Terminal \cup {"pending"}) = {} /\ checkpoint = "pending"
  <2>1. DecisionEvents = <<Plain("pending")>> \o << >>
    BY <1>8 DEF DecisionEvents
  <2>2. DecisionEvents = <<Plain("pending")>>
    BY <1>2, <2>1
  <2> QED BY <1>2, <1>5, <1>7, <1>8, <2>2
<1>9. CASE Types(Terminal \cup {"pending"}) = {} /\ checkpoint # "pending"
  <2>1. DecisionEvents = <<Plain("pending")>> \o <<Plain(checkpoint)>>
    BY <1>4, <1>9 DEF DecisionEvents
  <2> QED BY <1>1, <1>2, <1>3, <1>6, <1>7, <1>9, <2>1
<1>10. CASE Types(Terminal \cup {"pending"}) # {}
  <2>1. DecisionEvents =
            << >> \o (IF checkpoint # "pending" /\ Types(Terminal) = {}
                      THEN <<Plain(checkpoint)>> ELSE << >>)
    BY <1>10 DEF DecisionEvents
  <2>2. checkpoint # "pending" /\ Types(Terminal) = {}
    <3>1. << >> \o << >> = << >>
      OBVIOUS
    <3> QED BY <1>7, <2>1, <3>1
  <2>3. DecisionEvents = <<Plain(checkpoint)>>
    BY <1>3, <2>1, <2>2
  <2> QED BY <1>1, <1>2, <1>3, <1>5, <1>7, <1>10, <2>2, <2>3
<1> QED BY <1>2, <1>3, <1>8, <1>9, <1>10

(* So it adds one or two events, of the decision and of no run.             *)
LEMMA DecisionAdds ==
    ASSUME LiveTypeOK, RecordDecision
    PROVE  /\ events' \in Seq(Event) /\ Len(events) <= Len(events')
           /\ \A i \in DOMAIN events : events'[i] = events[i]
           /\ \A i \in DOMAIN events' \ DOMAIN events :
                  /\ events'[i].type \in Terminal \cup {"pending"}
                  /\ events'[i].run = 0
<1> DEFINE p == Plain("pending")
           c == Plain(checkpoint)
           mid == Append(events, p)
<1>1. events \in Seq(Event) /\ Len(events) \in Nat
      /\ DOMAIN events = 1..Len(events)
  BY LenProperties DEF LiveTypeOK
<1>2. /\ p \in Event /\ p.type = "pending" /\ p.run = 0
      /\ checkpoint \in Terminal =>
             c \in Event /\ c.type = checkpoint /\ c.run = 0
  BY PlainType
<1>3. /\ mid \in Seq(Event) /\ Len(mid) = Len(events) + 1
      /\ DOMAIN mid = 1..Len(events) + 1 /\ mid[Len(events) + 1] = p
      /\ \A i \in DOMAIN events : mid[i] = events[i]
  BY <1>1, <1>2, OneMore
<1>4. \/ events' = mid
      \/ checkpoint \in Terminal /\ events' = Append(mid, c)
      \/ checkpoint \in Terminal /\ events' = Append(events, c)
  BY DecisionCases
<1> HIDE DEF p, c, mid
<1>5. CASE events' = mid
  BY <1>1, <1>2, <1>3, <1>5
<1>6. CASE checkpoint \in Terminal /\ events' = Append(mid, c)
  <2>1. /\ events' \in Seq(Event) /\ Len(events') = Len(mid) + 1
        /\ DOMAIN events' = 1..Len(mid) + 1 /\ events'[Len(mid) + 1] = c
        /\ \A i \in DOMAIN mid : events'[i] = mid[i]
    BY <1>2, <1>3, <1>6, OneMore
  <2> QED BY <1>1, <1>2, <1>3, <1>6, <2>1
<1>7. CASE checkpoint \in Terminal /\ events' = Append(events, c)
  <2>1. /\ events' \in Seq(Event) /\ Len(events') = Len(events) + 1
        /\ DOMAIN events' = 1..Len(events) + 1
        /\ events'[Len(events) + 1] = c
        /\ \A i \in DOMAIN events : events'[i] = events[i]
    BY <1>1, <1>2, <1>7, OneMore
  <2> QED BY <1>1, <1>2, <1>7, <2>1
<1> QED BY <1>4, <1>5, <1>6, <1>7

(* Every step only adds events.                                             *)
LEMMA EventsGrow ==
    ASSUME LiveAssumption, LiveInv, Next
    PROVE  Grows
<1>1. events \in Seq(Event) /\ Len(events) \in Nat
      /\ DOMAIN events = 1..Len(events) /\ job \in {"running", "over"}
  BY LenProperties DEF LiveInv, LiveTypeOK
<1>2. CASE UNCHANGED <<events, job>>
  BY <1>1, <1>2 DEF Grows
<1>3. ASSUME NEW e \in Event, events' = Append(events, e),
             e.type = "lifecycle" => job = "running" /\ job' = "over",
             job = "over" => job' = "over"
      PROVE  Grows
  BY <1>1, <1>3, OneMore DEF Grows
<1>4. CASE JobEnds
  <2>1. CASE UNCHANGED events
    <3>1. events' = events /\ job' = "over"
      BY <1>4, <2>1 DEF JobEnds
    <3>2. DOMAIN events' = DOMAIN events
      BY <3>1
    <3> QED BY <1>1, <3>1, <3>2 DEF Grows
  <2>2. CASE events' = Append(events, Plain("lifecycle"))
    BY <1>3, <1>4, <2>2, PlainType DEF JobEnds
  <2> QED BY <1>4, <2>1, <2>2 DEF JobEnds
<1>5. CASE RecordDecision
  <2>1. "lifecycle" \notin Terminal \cup {"pending"} /\ job' = job
    BY <1>5, LiveAssumption DEF RecordDecision
  <2> QED BY <1>5, <2>1, DecisionAdds DEF Grows, LiveInv
<1>6. CASE \E r \in Run : Write(r)
  <2>1. PICK r \in Run : Write(r)
    BY <1>6
  <2>2. /\ thread[r].record \in Event /\ thread[r].at # "none"
        /\ events' = Append(events, thread[r].record) /\ job' = job
    BY <2>1 DEF Write, KeepLoop, LiveInv, LiveTypeOK, Thread
  <2>3. thread[r].record.type # "lifecycle"
    BY <2>2, LiveAssumption DEF LiveInv, TellInv, ThreadOK, Recorded
  <2> QED BY <1>3, <2>2, <2>3
<1>7. CASE ~JobEnds /\ ~RecordDecision /\ ~\E r \in Run : Write(r)
  <2>1. UNCHANGED <<events, job>>
    BY <1>7 DEF Next, JobStep, AgentStep, ThreadStep, ReaderStep,
       CheckpointOpens, CheckpointEnds, RunBegins, BrowseStep, RunEnds,
       RunCancelled,
       WorkerTakes, Drained, CloseTimesOut, CheckFrequent, WriteFails,
       OpenStream, ReadPage, SendEvent, StreamLost, Poll, KeepReader,
       KeepLoop, KeepWriters, stored
  <2> QED BY <1>2, <2>1
<1> QED BY <1>4, <1>5, <1>6, <1>7

-----------------------------------------------------------------------------
(* Types                                                                   *)

(* The invariant holds at the start: nothing is recorded yet.               *)
LEMMA LiveInitInv ==
    ASSUME LiveAssumption, Init
    PROVE  LiveInv
<1>1. /\ events = << >> /\ DOMAIN events = {} /\ Len(events) = 0
      /\ queue = << >> /\ DOMAIN queue = {}
      /\ \A r \in Run : thread[r] = NoThread
  BY EmptySeq DEF Init
<1>2. \A S : Types(S) = {}
  BY <1>1 DEF Types
<1>3. NoThread \in Thread /\ NoThread.at = "none"
  BY DEF NoThread, Thread, Plain, Event
<1>4. NoStream \in Stream /\ NoStream.state = "none"
  BY DEF NoStream, Stream
<1>5. LiveTypeOK
  <2>1. events \in Seq(Event) /\ queue \in Seq(Event) /\ got \subseteq 1..0
    BY <1>1, EmptySeq DEF Init
  <2>2. 0 \in 0..MaxRuns /\ 0 \in 0..MaxSteps + 1
    BY LiveAssumption
  <2>3. thread \in [Run -> Thread] /\ stream \in Stream
    BY <1>3, <1>4 DEF Init
  <2> QED BY <1>1, <2>1, <2>2, <2>3 DEF Init, LiveTypeOK
<1>6. TellInv
  BY <1>1, <1>3 DEF Init, TellInv, AgentOK, ThreadOK
<1>7. OrderOK
  BY <1>1 DEF OrderOK
<1>8. FrequentOK
  <2>1. Checked = {} /\ Frequent = Cardinality({})
    BY <1>1, <1>2, <1>3 DEF Checked, Frequent
  <2> QED BY <2>1, FS_EmptySet, LiveAssumption DEF FrequentOK, Init
<1>9. DecisionInv
  BY <1>2 DEF DecisionInv, DecisionIsTold, Init
<1>10. ReaderInv
  <2>1. 1..0 = {}
    OBVIOUS
  <2>2. ReaderAt(0)
    BY <1>4, <2>1 DEF Init, ReaderAt
  <2> QED BY <1>1, <1>2, <2>2 DEF ReaderInv
<1> QED BY <1>5, <1>6, <1>7, <1>8, <1>9, <1>10 DEF LiveInv

(* There are finitely many events.                                          *)
LEMMA FiniteTypes ==
    ASSUME LiveTypeOK, NEW S
    PROVE  IsFiniteSet(Types(S)) /\ Cardinality(Types(S)) \in Nat
<1>1. DOMAIN events = 1..Len(events) /\ Len(events) \in Nat
  BY LenProperties DEF LiveTypeOK
<1>2. IsFiniteSet(1..Len(events))
  BY <1>1, FS_Interval
<1>3. Types(S) \subseteq 1..Len(events)
  BY <1>1 DEF Types
<1> QED BY <1>2, <1>3, FS_Subset, FS_CardinalityType

(* The steps of the browse agent keep the types.                            *)
LEMMA AgentTypes ==
    ASSUME LiveAssumption, LiveInv, AgentStep
    PROVE  LiveTypeOK'
<1> USE DEF LiveInv
<1>1. /\ queue \in Seq(Event) /\ thread \in [Run -> Thread]
      /\ run \in 0..MaxRuns /\ step \in 0..MaxSteps + 1
      /\ Capacity \in Nat /\ MaxSteps \in Nat /\ MaxRuns \in Nat
      /\ NoThread \in Thread
  BY LiveAssumption DEF LiveTypeOK, NoThread, Thread, Plain, Event
<1>2. ASSUME UNCHANGED <<events, job, checkpoint, exhausted, stream, client,
                         got>>,
             queue' \in Seq(Event), thread' \in [Run -> Thread],
             run' \in 0..MaxRuns, step' \in 0..MaxSteps + 1,
             browse' \in {"idle", "running", "closing", "cancelled"}
      PROVE  LiveTypeOK'
  BY <1>2 DEF LiveTypeOK
<1> USE DEF KeepReader, stored, reader
<1>3. CASE RunBegins
  <2>1. run' \in 0..MaxRuns /\ step' \in 0..MaxSteps + 1
    BY <1>1, <1>3 DEF RunBegins
  <2> QED BY <1>1, <1>2, <1>3, <2>1 DEF RunBegins
<1>4. CASE \E kind \in Kind : BrowseStep(kind)
  <2>1. PICK kind \in Kind : BrowseStep(kind)
    BY <1>4
  <2>2. run \in 0..MaxRuns /\ step + 1 \in 0..MaxSteps + 1
    BY <1>1, <2>1 DEF BrowseStep
  <2>3. [type |-> kind, run |-> run, step |-> step + 1] \in Event
    BY <2>2 DEF Event
  <2>4. queue' \in Seq(Event)
    BY <1>1, <2>1, <2>3, AppendProperties DEF BrowseStep
  <2> QED BY <1>1, <1>2, <2>1, <2>2, <2>4 DEF BrowseStep, LiveTypeOK
<1>5. CASE RunEnds
  <2>1. run \in 0..MaxRuns /\ step + 1 \in 0..MaxSteps + 1
    BY <1>1, <1>5 DEF RunEnds, TellInv, AgentOK
  <2>2. [type |-> "done", run |-> run, step |-> step + 1] \in Event
    BY <2>1 DEF Event
  <2>3. queue' \in Seq(Event)
    BY <1>1, <1>5, <2>2, AppendProperties DEF RunEnds
  <2> QED BY <1>1, <1>2, <1>5, <2>1, <2>3 DEF RunEnds
<1>9. CASE RunCancelled
  BY <1>1, <1>2, <1>9 DEF RunCancelled
<1>6. CASE WorkerTakes
  <2>1. Head(queue) \in Event /\ Tail(queue) \in Seq(Event)
    BY <1>1, <1>6, HeadTailProperties DEF WorkerTakes
  <2>2. [NoThread EXCEPT !.at = "begins", !.record = Head(queue)] \in Thread
    BY <1>1, <2>1 DEF Thread
  <2> QED BY <1>1, <1>2, <1>6, <2>1, <2>2 DEF WorkerTakes, LiveTypeOK
<1>7. CASE Drained
  BY <1>1, <1>2, <1>7 DEF Drained
<1>8. CASE CloseTimesOut
  <2>1. thread' \in [Run -> Thread] /\ << >> \in Seq(Event)
    BY <1>1, <1>8, EmptySeq DEF CloseTimesOut
  <2> QED BY <1>1, <1>2, <1>8, <2>1 DEF CloseTimesOut
<1> QED BY <1>3, <1>4, <1>5, <1>6, <1>7, <1>8, <1>9 DEF AgentStep

(* The threads keep them.                                                   *)
LEMMA ThreadTypes ==
    ASSUME LiveAssumption, LiveInv, NEW r \in Run, ThreadStep(r), Grows
    PROVE  LiveTypeOK'
<1> USE DEF LiveInv
<1>1. thread \in [Run -> Thread] /\ NoThread \in Thread
  BY DEF LiveTypeOK, NoThread, Thread, Plain, Event
<1>2. thread' \in [Run -> Thread]
  <2>1. CASE ThreadEnds(r)
    BY <1>1, <2>1 DEF ThreadEnds
  <2>2. CASE thread' = [thread EXCEPT ![r].at = "checked",
                                      ![r].count = Frequent]
    <3>1. Frequent \in Nat
      BY FiniteTypes DEF Frequent
    <3> QED BY <1>1, <2>2, <3>1 DEF Thread
  <2> QED BY <2>1, <2>2 DEF ThreadStep, CheckFrequent, Write, WriteFails
<1>3. UNCHANGED <<job, checkpoint, run, browse, step, queue, stream, client,
                  got>>
  BY DEF ThreadStep, CheckFrequent, Write, WriteFails, KeepLoop, agent, reader
<1>4. exhausted' \in BOOLEAN
  BY DEF ThreadStep, CheckFrequent, Write, WriteFails, LiveTypeOK
<1>5. events' \in Seq(Event) /\ got \subseteq 1..Len(events')
  BY LenProperties DEF Grows, LiveTypeOK
<1> QED BY <1>2, <1>3, <1>4, <1>5 DEF LiveTypeOK

(* So do the runner and those who decide.                                   *)
LEMMA JobTypes ==
    ASSUME LiveAssumption, LiveInv, JobStep, Grows
    PROVE  LiveTypeOK'
<1> USE DEF LiveInv
<1>1. UNCHANGED <<run, browse, step, queue, thread, stream, client, got>>
  BY DEF JobStep, JobEnds, CheckpointOpens, CheckpointEnds, RecordDecision,
         agent, reader
<1>2. /\ job' \in {"running", "over"} /\ exhausted' \in BOOLEAN
      /\ checkpoint' \in {"none", "pending"} \cup Terminal
  BY DEF JobStep, JobEnds, CheckpointOpens, CheckpointEnds, RecordDecision,
         LiveTypeOK
<1>3. events' \in Seq(Event) /\ got \subseteq 1..Len(events')
  BY LenProperties DEF Grows, LiveTypeOK
<1> QED BY <1>1, <1>2, <1>3 DEF LiveTypeOK

-----------------------------------------------------------------------------
(* The page                                                                *)

(* What the page has stays the first events, while more are recorded.       *)
LEMMA ReaderKept ==
    ASSUME LiveInv, Grows, UNCHANGED reader, job' \in {"running", "over"}
    PROVE  ReaderInv'
<1> USE DEF LiveInv
<1>1. /\ Len(events) \in Nat /\ DOMAIN events = 1..Len(events)
      /\ Len(events') \in Nat /\ DOMAIN events' = 1..Len(events')
      /\ job \in {"running", "over"}
  BY LenProperties DEF LiveTypeOK, Grows
<1>2. PICK n \in 0..Len(events) : ReaderAt(n)
  BY DEF ReaderInv
<1>3. job = "over" => Types({"lifecycle"})' = Types({"lifecycle"})
  BY <1>1 DEF Types, Grows
<1>4. ReaderAt(n)'
  <2>1. stream.state = "ended" =>
            job' = "over" /\ Types({"lifecycle"})' \subseteq 1..n
    BY <1>2, <1>3 DEF ReaderAt, Grows
  <2>2. /\ stream' = stream /\ got' = got /\ client' = client
        /\ Len(events) <= Len(events')
    BY DEF reader, Grows
  <2>3. stream.state # "none" => stream.to <= Len(events')
    BY <1>1, <1>2, <2>2 DEF ReaderAt, LiveTypeOK, Stream
  <2> QED BY <1>2, <2>1, <2>2, <2>3 DEF ReaderAt
<1>5. job' = "running" => Types({"lifecycle"})' = {}
  <2>1. job' = "running" => job = "running"
    BY <1>1 DEF Grows
  <2> QED BY <1>1, <2>1 DEF ReaderInv, Types, Grows
<1>6. n \in 0..Len(events')
  BY <1>1, <1>2 DEF Grows
<1> QED BY <1>4, <1>5, <1>6 DEF ReaderInv

(* The smaller one of two numbers.                                          *)
LEMMA SmallerOf ==
    ASSUME NEW n \in Nat, NEW m \in Nat, n <= m, NEW l \in Nat \ {0}
    PROVE  LET s == Smaller(n + l, m)
           IN  s \in Nat /\ n <= s /\ s <= m /\ (s = n => n = m)
BY DEF Smaller

(* The page and its stream take the next events only.                       *)
LEMMA ReaderMoves ==
    ASSUME LiveAssumption, LiveInv, ReaderStep
    PROVE  LiveTypeOK' /\ ReaderInv'
<1> USE DEF LiveInv
<1>1. UNCHANGED <<events, job, checkpoint, run, browse, step, queue, thread,
                  exhausted>>
  BY DEF ReaderStep, OpenStream, ReadPage, SendEvent, StreamLost, Poll,
         KeepWriters, stored, agent
<1>2. /\ Len(events) \in Nat /\ DOMAIN events = 1..Len(events)
      /\ stream \in Stream /\ PageLimit \in Nat \ {0}
      /\ client \in {"new", "streaming", "polling", "stopped"}
  BY LenProperties, LiveAssumption DEF LiveTypeOK
<1>3. PICK n \in Nat : n <= Len(events) /\ ReaderAt(n)
  BY <1>2 DEF ReaderInv
<1>4. n \in Nat /\ LastSequence = n /\ got = 1..n
  BY <1>2, <1>3, LargestUpTo DEF LastSequence, ReaderAt
<1>5. ASSUME NEW k \in Nat, k <= Len(events), ReaderAt(k)', stream' \in Stream,
             client' \in {"new", "streaming", "polling", "stopped"}
      PROVE  LiveTypeOK' /\ ReaderInv'
  <2>1. got' \subseteq 1..Len(events)
    BY <1>2, <1>5 DEF ReaderAt
  <2>2. Types({"lifecycle"})' = Types({"lifecycle"})
    BY <1>1 DEF Types
  <2> QED BY <1>1, <1>5, <2>1, <2>2 DEF LiveTypeOK, ReaderInv
<1>6. NoStream \in Stream /\ NoStream.state = "none"
  BY DEF NoStream, Stream
<1>7. Types({"lifecycle"})' = Types({"lifecycle"})
  BY <1>1 DEF Types
<1>8. CASE OpenStream
  <2>1. /\ stream' \in Stream /\ stream'.state = "open"
        /\ stream'.from = n + 1 /\ stream'.to = n
    <3>1. stream' = [NoStream EXCEPT !.state = "open", !.from = n + 1,
                                     !.to = n]
      BY <1>4, <1>8 DEF OpenStream
    <3>2. n + 1 \in Nat
      BY <1>4
    <3> QED BY <1>4, <1>6, <3>1, <3>2 DEF Stream
  <2>2. ReaderAt(n)'
    BY <1>1, <1>2, <1>3, <1>4, <1>8, <2>1 DEF OpenStream, ReaderAt
  <2> QED BY <1>3, <1>5, <1>8, <2>1, <2>2 DEF OpenStream
<1>9. CASE ReadPage
  <2>1. /\ client = "streaming" /\ stream.from = n + 1 /\ stream.to = n
        /\ stream.state = "open"
    BY <1>2, <1>3, <1>4, <1>9 DEF ReadPage, ReaderAt, Stream
  <2>2. PICK t \in Nat :
            /\ t = Smaller(n + PageLimit, Len(events))
            /\ n <= t /\ t <= Len(events) /\ (t = n => n = Len(events))
    <3> DEFINE last == Len(events)
    <3>1. last \in Nat /\ n <= last /\ PageLimit \in Nat \ {0}
      BY <1>2, <1>3
    <3> HIDE DEF last
    <3>2. LET s == Smaller(n + PageLimit, last)
          IN  s \in Nat /\ n <= s /\ s <= last /\ (s = n => n = last)
      BY <3>1, SmallerOf
    <3> QED BY <3>2 DEF last
  <2>3. PICK over \in BOOLEAN : over = (job = "over")
    OBVIOUS
  <2> DEFINE page == [state |-> "open", from |-> n + 1, to |-> t,
                      over |-> over]
  <2>4. n + 1 \in Nat /\ t \in Nat
    BY <1>2, <1>4
  <2>5. page \in Stream
    BY <2>4 DEF Stream
  <2>6. stream' = IF Ends(page) THEN [page EXCEPT !.state = "ended"] ELSE page
    BY <1>9, <2>1, <2>2, <2>3 DEF ReadPage
  <2>7. /\ stream' \in Stream /\ stream'.state \in {"open", "ended"}
        /\ stream'.from = n + 1 /\ stream'.to = t
        /\ stream'.state = "ended" => job = "over" /\ n = Len(events)
    <3>1. Ends(page) => over /\ n + 1 > t
      BY DEF Ends
    <3>2. Ends(page) => job = "over" /\ n = Len(events)
      <4>1. n + 1 > t => n = Len(events)
        BY <2>2
      <4> QED BY <2>3, <3>1, <4>1
    <3>3. [page EXCEPT !.state = "ended"] \in Stream
      BY <2>5 DEF Stream
    <3> QED BY <2>5, <2>6, <3>2, <3>3
  <2> HIDE DEF page
  <2>9. Types({"lifecycle"}) \subseteq 1..Len(events)
    BY <1>2 DEF Types
  <2>10. ReaderAt(n)'
    BY <1>1, <1>2, <1>3, <1>4, <1>7, <1>9, <2>1, <2>2, <2>7, <2>9
       DEF ReaderAt, ReadPage
  <2> QED BY <1>3, <1>5, <1>9, <2>1, <2>7, <2>10 DEF ReadPage
<1>10. CASE SendEvent
  <2>1. /\ stream.from = n + 1 /\ n + 1 <= stream.to
        /\ stream.to <= Len(events) /\ stream.state = "open"
    BY <1>3, <1>10 DEF SendEvent, ReaderAt
  <2>2. got' = 1..(n + 1) /\ client' \in {"streaming", "stopped"}
    <3>1. n + 1 > LastSequence /\ 1..n \cup {n + 1} = 1..(n + 1)
      BY <1>4
    <3>2. Accepted(n + 1) /\ client = "streaming"
      BY <1>10, <2>1 DEF SendEvent
    <3> QED BY <1>4, <3>1, <3>2 DEF Accepted
  <2>3. n + 1 \in Nat /\ n + 1 <= Len(events)
    BY <1>2, <1>4, <2>1 DEF Stream
  <2>4. CASE client' = "stopped"
    <3>1. ReaderAt(n + 1)'
      BY <1>6, <1>10, <2>2, <2>4 DEF SendEvent, ReaderAt
    <3> QED BY <1>5, <1>6, <1>10, <2>2, <2>3, <2>4, <3>1 DEF SendEvent
  <2>5. CASE client' = "streaming"
    <3>1. stream' = [stream EXCEPT !.from = @ + 1]
      BY <1>10, <2>5 DEF SendEvent
    <3>2. /\ stream' \in Stream /\ stream'.from = n + 2
          /\ stream'.to = stream.to /\ stream'.state = "open"
      BY <1>2, <1>4, <2>1, <3>1 DEF Stream
    <3>3. ReaderAt(n + 1)'
      BY <1>1, <1>2, <1>4, <2>1, <2>2, <2>5, <3>2 DEF ReaderAt
    <3> QED BY <1>5, <2>2, <2>3, <3>2, <3>3
  <2> QED BY <2>2, <2>4, <2>5
<1>11. CASE StreamLost
  <2>1. ReaderAt(n)'
    BY <1>3, <1>6, <1>11 DEF StreamLost, ReaderAt
  <2> QED BY <1>3, <1>5, <1>6, <1>11, <2>1 DEF StreamLost
<1>12. CASE Poll
  <2> DEFINE m == Smaller(n + PageLimit, Len(events))
             E == EndOf(Polled)
  <2>1. m \in Nat /\ n <= m /\ m <= Len(events) /\ Polled = (n + 1)..m
    BY <1>2, <1>3, <1>4 DEF Smaller, Polled
  <2>2. E \subseteq (n + 1)..m
    BY <2>1 DEF EndOf
  <2> HIDE DEF m, E
  <2>3. \A i : i \in got' <=> \/ i \in 1..n
                              \/ i \in (n + 1)..m /\ (\A e \in E : i <= e)
    BY <1>4, <1>12, <2>1 DEF Poll, E
  <2>4. PICK k \in Nat : n <= k /\ k <= m /\ got' = 1..k
    <3>1. CASE E = {}
      <4>1. \A i : i \in got' <=> i \in 1..m
        BY <1>3, <2>1, <2>3, <3>1
      <4>2. got' = 1..m
        BY <4>1
      <4> QED BY <2>1, <4>2
    <3>2. CASE E # {}
      <4>1. PICK k \in E : \A e \in E : k <= e
        BY <2>1, <2>2, <3>2, LeastExists
      <4>2. k \in Nat /\ n + 1 <= k /\ k <= m
        BY <1>3, <2>1, <2>2
      <4>3. \A i : i \in got' <=> i \in 1..k
        BY <1>3, <2>1, <2>2, <2>3, <4>1, <4>2
      <4>4. got' = 1..k
        BY <4>3
      <4> QED BY <1>3, <4>2, <4>4
    <3> QED BY <3>1, <3>2
  <2>5. /\ stream' = stream /\ stream.state = "none"
        /\ client' \in {"polling", "stopped"}
    BY <1>2, <1>3, <1>12 DEF Poll, ReaderAt
  <2>6. ReaderAt(k)' /\ k \in Nat /\ k <= Len(events)
    BY <1>2, <1>4, <2>1, <2>4, <2>5 DEF ReaderAt
  <2> QED BY <1>2, <1>5, <2>5, <2>6
<1> QED BY <1>8, <1>9, <1>10, <1>11, <1>12 DEF ReaderStep

-----------------------------------------------------------------------------
(* The decision                                                            *)

(* Nothing but RecordDecision tells of the decision.                        *)
LEMMA OthersTellNothing ==
    ASSUME LiveAssumption, LiveInv, Next, ~RecordDecision, Grows
    PROVE  /\ Types(Terminal \cup {"pending"})' =
                 Types(Terminal \cup {"pending"})
           /\ \/ checkpoint' = checkpoint
              \/ checkpoint = "none" /\ checkpoint' = "pending"
              \/ checkpoint = "pending" /\ checkpoint' \in Terminal
<1> USE DEF LiveInv
<1> DEFINE Told == Terminal \cup {"pending"}
<1>1. /\ events \in Seq(Event) /\ Len(events) \in Nat
      /\ DOMAIN events = 1..Len(events)
      /\ DOMAIN events' = 1..Len(events')
  BY LenProperties DEF LiveTypeOK, Grows
<1>2. ASSUME events' = events PROVE Types(Told)' = Types(Told)
  <2>1. DOMAIN events' = DOMAIN events
    BY <1>2
  <2> QED BY <1>2, <2>1 DEF Types
<1>3. ASSUME NEW e \in Event, events' = Append(events, e), e.type \notin Told
      PROVE  Types(Told)' = Types(Told)
  <2>1. /\ DOMAIN events' = 1..Len(events) + 1
        /\ \A i \in DOMAIN events : events'[i] = events[i]
        /\ events'[Len(events) + 1] = e
    BY <1>1, <1>3, OneMore
  <2> QED BY <1>1, <1>3, <2>1 DEF Types
<1>4. Types(Told)' = Types(Told)
  <2>1. CASE JobEnds
    <3>1. /\ Plain("lifecycle") \in Event
          /\ Plain("lifecycle").type \notin Told
      BY PlainType, LiveAssumption
    <3> QED BY <1>2, <1>3, <2>1, <3>1 DEF JobEnds
  <2>2. CASE \E r \in Run : Write(r)
    <3>1. PICK r \in Run : Write(r)
      BY <2>2
    <3>2. /\ thread[r].record \in Event /\ thread[r].at # "none"
          /\ events' = Append(events, thread[r].record)
      BY <3>1 DEF Write, LiveTypeOK, Thread
    <3>3. thread[r].record.type \notin Told
      BY <3>2, LiveAssumption DEF TellInv, ThreadOK, Recorded
    <3> QED BY <1>3, <3>2, <3>3
  <2>3. CASE ~JobEnds /\ ~\E r \in Run : Write(r)
    <3>1. events' = events
      BY <2>3 DEF Next, JobStep, AgentStep, ThreadStep, ReaderStep,
         CheckpointOpens, CheckpointEnds, RunBegins, BrowseStep, RunEnds,
         RunCancelled,
         WorkerTakes, Drained, CloseTimesOut, CheckFrequent, WriteFails,
         OpenStream, ReadPage, SendEvent, StreamLost, Poll, KeepReader,
         KeepLoop, KeepWriters, stored
    <3> QED BY <1>2, <3>1
  <2> QED BY <2>1, <2>2, <2>3
<1>5. \/ checkpoint' = checkpoint
      \/ checkpoint = "none" /\ checkpoint' = "pending"
      \/ checkpoint = "pending" /\ checkpoint' \in Terminal
  BY DEF Next, JobStep, AgentStep, ThreadStep, ReaderStep, JobEnds,
     CheckpointOpens, CheckpointEnds, RunBegins, BrowseStep, RunEnds,
     RunCancelled,
     WorkerTakes, Drained, CloseTimesOut, CheckFrequent, Write, WriteFails,
     OpenStream, ReadPage, SendEvent, StreamLost, Poll, KeepReader,
     KeepLoop, KeepWriters, stored
<1> QED BY <1>4, <1>5

(* What RecordDecision adds is what was missing, in order.                  *)
LEMMA DecisionRecorded ==
    ASSUME LiveAssumption, LiveInv, RecordDecision
    PROVE  DecisionInv'
<1> USE DEF LiveInv
<1> DEFINE Told == Terminal \cup {"pending"}
           last == Len(events)
           p == Plain("pending")
           c == Plain(checkpoint)
<1>1. /\ events \in Seq(Event) /\ last \in Nat /\ DOMAIN events = 1..last
      /\ checkpoint' = checkpoint /\ checkpoint # "none"
  BY LenProperties DEF LiveTypeOK, RecordDecision
<1>2. /\ p \in Event /\ p.type = "pending"
      /\ checkpoint \in Terminal => c \in Event /\ c.type = checkpoint
      /\ "pending" \notin Terminal
  BY PlainType, LiveAssumption
<1>3. CASE Types(Told) = {} /\ events' = Append(events, p)
  <2>1. /\ DOMAIN events' = 1..last + 1 /\ events'[last + 1] = p
        /\ \A i \in DOMAIN events : events'[i] = events[i]
    BY <1>1, <1>2, <1>3, OneMore
  <2> HIDE DEF p, c, last
  <2>2. Types(Told)' = {last + 1}
    BY <1>1, <1>2, <1>3, <2>1 DEF Types
  <2> QED BY <1>1, <1>2, <2>1, <2>2 DEF DecisionInv, DecisionIsTold, p
<1>4. CASE /\ Types(Told) = {} /\ checkpoint \in Terminal
           /\ events' = Append(Append(events, p), c)
  <2> DEFINE mid == Append(events, p)
  <2>1. /\ mid \in Seq(Event) /\ Len(mid) = last + 1
        /\ DOMAIN mid = 1..last + 1 /\ mid[last + 1] = p
        /\ \A i \in DOMAIN events : mid[i] = events[i]
    BY <1>1, <1>2, OneMore
  <2>2. events' = Append(mid, c)
    BY <1>4
  <2> HIDE DEF mid, p, c, last
  <2>3. /\ DOMAIN events' = 1..Len(mid) + 1 /\ events'[Len(mid) + 1] = c
        /\ \A i \in DOMAIN mid : events'[i] = mid[i]
    BY <1>2, <1>4, <2>1, <2>2, OneMore
  <2>4. /\ DOMAIN events' = 1..last + 2
        /\ events'[last + 1] = p /\ events'[last + 2] = c
        /\ \A i \in DOMAIN events : events'[i] = events[i]
    BY <1>1, <2>1, <2>3
  <2>5. Types(Told)' = {last + 1, last + 2}
    BY <1>1, <1>2, <1>4, <2>4 DEF Types
  <2>6. last + 1 < last + 2 /\ last + 1 # last + 2
    BY <1>1
  <2>7. p.type # c.type /\ c.type = checkpoint
    BY <1>2, <1>4
  <2>8. /\ \A i \in {last + 1, last + 2} : events'[i] \in {p, c}
        /\ \A i, j \in {last + 1, last + 2} :
               events'[i].type = events'[j].type => i = j
        /\ \A j \in {last + 1, last + 2} : events'[j].type # "pending" =>
               \E i \in {last + 1, last + 2} :
                   i < j /\ events'[i].type = "pending"
    BY <1>2, <2>4, <2>6, <2>7
  <2>9. p = Plain("pending") /\ c = Plain(checkpoint')
    BY <1>1 DEF p, c
  <2>10. DecisionIsTold'
    BY <2>5, <2>8, <2>9, Zenon DEF DecisionIsTold
  <2>11. DecisionInv'
    BY <1>1, <2>10 DEF DecisionInv
  <2> QED BY <2>11
<1>5. CASE /\ Types(Told) # {} /\ Types(Terminal) = {}
           /\ checkpoint \in Terminal /\ events' = Append(events, c)
  <2>1. /\ DOMAIN events' = 1..last + 1 /\ events'[last + 1] = c
        /\ \A i \in DOMAIN events : events'[i] = events[i]
    BY <1>1, <1>2, <1>5, OneMore
  <2> HIDE DEF p, c, last
  <2>2. Types(Told)' = Types(Told) \cup {last + 1}
    BY <1>1, <1>2, <1>5, <2>1 DEF Types
  <2>3. \A i \in Types(Told) : events[i].type = "pending" /\ i < last + 1
    BY <1>1, <1>5 DEF Types
  <2>4. PICK i \in Types(Told) : TRUE
    BY <1>5
  <2>5. \A j \in Types(Told) : j = i
    BY <2>3, <2>4 DEF DecisionInv, DecisionIsTold
  <2>6. events[i] = p /\ i < last + 1 /\ events'[i] = p
    <3>1. events[i] \in {p, c}
      BY <2>4 DEF DecisionInv, DecisionIsTold, p, c
    <3>2. events[i].type = "pending" /\ i < last + 1 /\ i \in DOMAIN events
      BY <2>3, <2>4 DEF Types
    <3> QED BY <1>2, <1>5, <2>1, <3>1, <3>2
  <2>7. Types(Told)' = {i, last + 1}
    BY <2>2, <2>4, <2>5
  <2>8. p.type # c.type /\ c.type = checkpoint
    BY <1>2, <1>5
  <2>9. /\ \A k \in {i, last + 1} : events'[k] \in {p, c}
        /\ \A k, j \in {i, last + 1} :
               events'[k].type = events'[j].type => k = j
        /\ \A j \in {i, last + 1} : events'[j].type # "pending" =>
               \E k \in {i, last + 1} :
                   k < j /\ events'[k].type = "pending"
    BY <1>2, <2>1, <2>6, <2>8
  <2>10. p = Plain("pending") /\ c = Plain(checkpoint')
    BY <1>1 DEF p, c
  <2> DEFINE S == {i, last + 1}
  <2>11. /\ \A k \in S : events'[k] \in {Plain("pending"), Plain(checkpoint')}
         /\ \A k, j \in S : events'[k].type = events'[j].type => k = j
         /\ \A j \in S : events'[j].type # "pending" =>
                \E k \in S : k < j /\ events'[k].type = "pending"
    BY <2>9, <2>10
  <2>12. Types(Told)' = S
    BY <2>7
  <2> HIDE DEF S
  <2> QED BY <1>1, <2>11, <2>12 DEF DecisionInv, DecisionIsTold
<1> QED BY <1>3, <1>4, <1>5, DecisionCases

(* So the decision stays told as it is.                                     *)
LEMMA DecisionStep ==
    ASSUME LiveAssumption, LiveInv, Next, Grows
    PROVE  DecisionInv'
<1>1. CASE RecordDecision
  BY <1>1, DecisionRecorded
<1>2. CASE ~RecordDecision
  <2> DEFINE Told == Types(Terminal \cup {"pending"})
  <2>1. /\ Told' = Told
        /\ \/ checkpoint' = checkpoint
           \/ checkpoint = "none" /\ checkpoint' = "pending"
           \/ checkpoint = "pending" /\ checkpoint' \in Terminal
    BY <1>2, OthersTellNothing
  <2>2. \A i \in Told : events'[i] = events[i]
    BY DEF Grows, Types
  <2>3. checkpoint = "none" => Told = {}
    BY DEF LiveInv, DecisionInv
  <2>4. checkpoint' = "none" => checkpoint = "none"
    BY <2>1, LiveAssumption
  <2> HIDE DEF Told
  <2>5. /\ \A i \in Told : events[i] \in {Plain("pending"), Plain(checkpoint)}
        /\ \A i, j \in Told : events[i].type = events[j].type => i = j
        /\ \A j \in Told : events[j].type # "pending" =>
               \E i \in Told : i < j /\ events[i].type = "pending"
    BY DEF LiveInv, DecisionInv, DecisionIsTold, Told
  <2>6. /\ \A i \in Told : events'[i] \in {Plain("pending"), Plain(checkpoint')}
        /\ \A i, j \in Told : events'[i].type = events'[j].type => i = j
        /\ \A j \in Told : events'[j].type # "pending" =>
               \E i \in Told : i < j /\ events'[i].type = "pending"
    BY <2>1, <2>2, <2>3, <2>5
  <2>7. checkpoint' = "none" => Told' = {}
    BY <2>1, <2>3, <2>4
  <2> QED BY <2>1, <2>6, <2>7 DEF DecisionInv, DecisionIsTold, Told
<1> QED BY <1>1, <1>2

-----------------------------------------------------------------------------
(* Records on their way                                                    *)

(* The numbers in events and records.                                       *)
LEMMA RecordsTyped ==
    ASSUME LiveAssumption, LiveTypeOK
    PROVE  /\ Len(events) \in Nat /\ DOMAIN events = 1..Len(events)
           /\ \A i \in DOMAIN events :
                  events[i].run \in Nat /\ events[i].step \in Nat
           /\ Len(queue) \in Nat /\ DOMAIN queue = 1..Len(queue)
           /\ \A p \in DOMAIN queue :
                  queue[p].run \in Nat /\ queue[p].step \in Nat
           /\ \A r \in Run : /\ r \in Nat \ {0}
                             /\ thread[r].record.run \in Nat
                             /\ thread[r].record.step \in Nat
           /\ run \in Nat /\ step \in Nat
           /\ MaxRuns \in Nat /\ MaxSteps \in Nat /\ Capacity \in Nat
<1>1. events \in Seq(Event) /\ queue \in Seq(Event)
  BY DEF LiveTypeOK
<1>2. \A e \in Event : e.run \in Nat /\ e.step \in Nat
  BY LiveAssumption DEF Event
<1>3. /\ \A i \in DOMAIN events : events[i] \in Event
      /\ \A p \in DOMAIN queue : queue[p] \in Event
  BY <1>1, ElementOfSeq, LenProperties
<1>4. \A r \in Run : thread[r].record \in Event
  BY DEF LiveTypeOK, Thread
<1> QED BY <1>1, <1>2, <1>3, <1>4, LenProperties, LiveAssumption
        DEF LiveTypeOK, Run

(* Other events than those of runs change nothing of this.                  *)
LEMMA TellKept ==
    ASSUME LiveAssumption, LiveInv, Grows, UNCHANGED <<agent, thread>>,
           \A i \in DOMAIN events' \ DOMAIN events : events'[i].run = 0
    PROVE  TellInv' /\ OrderOK'
<1> USE DEF LiveInv
<1>1. UNCHANGED <<run, browse, step, queue, thread>>
  BY DEF agent
<1>2. \A r \in Run : Written(r)' = Written(r)
  BY RecordsTyped, LenProperties DEF Written, Grows
<1>3. /\ \A i \in DOMAIN events : i \in DOMAIN events' /\ events'[i] = events[i]
      /\ run \in Nat /\ \A r \in Run : r # 0
      /\ \A p \in DOMAIN queue : run \in Run
  <2>1. \A i \in DOMAIN events : i \in DOMAIN events' /\ events'[i] = events[i]
    BY RecordsTyped, LenProperties DEF Grows
  <2>2. \A p \in DOMAIN queue : queue # << >>
    OBVIOUS
  <2> QED BY <2>1, <2>2, RecordsTyped DEF TellInv, AgentOK
<1>4. AgentOK'
  BY <1>1 DEF TellInv, AgentOK
<1>5. ASSUME NEW i \in DOMAIN events' PROVE EventOK(i)'
  <2>1. CASE i \in DOMAIN events
    BY <1>1, <1>3, <2>1 DEF TellInv, EventOK
  <2>2. CASE i \notin DOMAIN events
    BY <1>1, <1>3, <2>2 DEF EventOK
  <2> QED BY <2>1, <2>2
<1>6. ASSUME NEW p \in DOMAIN queue' PROVE QueueOK(p)'
  <2>1. QueueOK(p) /\ run \in Run
    BY <1>1, <1>3 DEF TellInv
  <2>2. \A i \in Written(run) : events'[i] = events[i]
    BY <1>3 DEF Written
  <2> QED BY <1>1, <1>2, <2>1, <2>2 DEF QueueOK
<1>7. ASSUME NEW r \in Run PROVE ThreadOK(r)'
  <2>1. ThreadOK(r)
    BY DEF TellInv
  <2>2. \A i \in Written(r) : events'[i] = events[i]
    BY <1>3 DEF Written
  <2> QED BY <1>1, <1>2, <2>1, <2>2 DEF ThreadOK
<1>8. OrderOK'
  <2>1. \A i \in DOMAIN events' : events'[i].run # 0 =>
            i \in DOMAIN events /\ events'[i] = events[i]
    BY <1>3
  <2> QED BY <2>1 DEF OrderOK
<1> QED BY <1>4, <1>5, <1>6, <1>7, <1>8 DEF TellInv

(* The browse agent hands over later steps, and its worker takes the first. *)
LEMMA AgentTells ==
    ASSUME LiveAssumption, LiveInv, AgentStep
    PROVE  TellInv'
<1> USE DEF LiveInv
<1>1. /\ events' = events /\ DOMAIN events' = DOMAIN events
      /\ \A r : Written(r)' = Written(r)
  <2>1. events' = events
    BY DEF AgentStep, RunBegins, BrowseStep, RunEnds,
           RunCancelled, Drained, CloseTimesOut,
           WorkerTakes, KeepReader, stored
  <2>2. DOMAIN events' = DOMAIN events
    BY <2>1
  <2> QED BY <2>1, <2>2 DEF Written
<1>2. /\ \A i \in DOMAIN events :
             events[i].run \in Nat /\ events[i].step \in Nat
      /\ Len(queue) \in Nat /\ DOMAIN queue = 1..Len(queue)
      /\ \A p \in DOMAIN queue : queue[p].run \in Nat /\ queue[p].step \in Nat
      /\ \A r \in Run : /\ r \in Nat \ {0}
                        /\ thread[r].record.step \in Nat
      /\ run \in Nat /\ step \in Nat /\ queue \in Seq(Event)
      /\ thread \in [Run -> Thread]
  BY RecordsTyped DEF LiveTypeOK
<1>3. /\ \A i \in DOMAIN events : EventOK(i)
      /\ \A p \in DOMAIN queue : QueueOK(p)
      /\ \A r \in Run : ThreadOK(r)
      /\ AgentOK
  BY DEF TellInv
<1>4. CASE RunBegins
  <2>1. /\ queue = << >> /\ queue' = << >> /\ thread' = thread
        /\ run' = run + 1 /\ step' = 0 /\ browse' = "running" /\ run < MaxRuns
    BY <1>3, <1>4 DEF RunBegins, AgentOK
  <2>2. AgentOK'
    <3>1. run' \in Run
      BY <1>2, <2>1, LiveAssumption DEF Run
    <3>2. Len(queue') = 0 /\ 0 <= MaxSteps /\ 0 < Capacity
      BY <2>1, LiveAssumption
    <3> QED BY <2>1, <3>1, <3>2 DEF AgentOK
  <2>3. ASSUME NEW i \in DOMAIN events' PROVE EventOK(i)'
    BY <1>1, <1>2, <1>3, <2>1 DEF EventOK
  <2>4. DOMAIN queue' = {}
    BY <2>1
  <2>5. ASSUME NEW r \in Run PROVE ThreadOK(r)'
    <3>1. ThreadOK(r) /\ r \in Nat
      BY <1>2, <1>3
    <3> QED BY <1>1, <1>2, <2>1, <3>1 DEF ThreadOK
  <2> QED BY <2>2, <2>3, <2>4, <2>5 DEF TellInv
<1>5. ASSUME NEW e \in Event, queue' = Append(queue, e) \/ queue' = queue,
             e.type \in Recorded, e.run = run, e.step = step + 1,
             step' = step + 1, thread' = thread, run' = run, run \in Run
      PROVE  /\ \A i \in DOMAIN events' : EventOK(i)'
             /\ \A p \in DOMAIN queue' : QueueOK(p)'
             /\ \A r \in Run : ThreadOK(r)'
  <2>1. ASSUME NEW i \in DOMAIN events' PROVE EventOK(i)'
    BY <1>1, <1>2, <1>3, <1>5 DEF EventOK
  <2>2. ASSUME NEW r \in Run PROVE ThreadOK(r)'
    BY <1>1, <1>2, <1>3, <1>5 DEF ThreadOK
  <2>3. ASSUME NEW p \in DOMAIN queue' PROVE QueueOK(p)'
    <3>1. CASE queue' = queue
      BY <1>1, <1>2, <1>3, <1>5, <3>1 DEF QueueOK
    <3>2. CASE queue' = Append(queue, e)
      <4>1. /\ DOMAIN queue' = 1..Len(queue) + 1 /\ queue'[Len(queue) + 1] = e
            /\ \A q \in DOMAIN queue : queue'[q] = queue[q]
        BY <1>2, <3>2, <1>5, OneMore
      <4>2. CASE p = Len(queue) + 1
        <5>1. \A i \in Written(run) : events[i].step < e.step
          BY <1>2, <1>3, <1>5 DEF Written, EventOK
        <5>2. thread[run].at # "none" => thread[run].record.step < e.step
          BY <1>2, <1>3, <1>5 DEF ThreadOK
        <5> QED BY <1>1, <1>2, <1>5, <4>1, <4>2, <5>1, <5>2 DEF QueueOK
      <4>3. CASE p \in DOMAIN queue
        <5>1. QueueOK(p)
          BY <1>3, <4>3
        <5>2. queue[p].step < e.step
          BY <1>2, <1>5, <4>3, <5>1 DEF QueueOK
        <5>3. \A q \in DOMAIN queue' : p < q =>
                  queue'[p].step < queue'[q].step
          <6>1. \A q \in DOMAIN queue' :
                    q \in DOMAIN queue \/ q = Len(queue) + 1
            BY <1>2, <4>1
          <6> QED BY <4>1, <4>3, <5>1, <5>2, <6>1 DEF QueueOK
        <5>4. queue'[p] = queue[p]
          BY <4>1, <4>3
        <5>5. queue[p].step <= step + 1
          BY <1>2, <4>3, <5>1 DEF QueueOK
        <5> QED BY <1>1, <1>5, <5>1, <5>3, <5>4, <5>5 DEF QueueOK
      <4> QED BY <1>2, <4>1, <4>2, <4>3
    <3> QED BY <1>5, <3>1, <3>2
  <2> QED BY <2>1, <2>2, <2>3
<1>6. CASE \E kind \in Kind : BrowseStep(kind)
  <2>1. PICK kind \in Kind : BrowseStep(kind)
    BY <1>6
  <2> DEFINE e == [type |-> kind, run |-> run, step |-> step + 1]
  <2>2. /\ queue' = Append(queue, e) \/ queue' = queue
        /\ queue' = Append(queue, e) \/ Len(queue') < Capacity
        /\ RoomForStep \/ queue' = queue
        /\ step' = step + 1 /\ run' = run /\ thread' = thread
        /\ browse = "running" /\ browse' = "running" /\ step < MaxSteps
    BY <1>3, <2>1 DEF BrowseStep, AgentOK
  <2>3. run \in Run /\ step + 1 \in 0..MaxSteps + 1
    BY <1>2, <1>3, <2>2, LiveAssumption DEF AgentOK
  <2>4. e \in Event /\ e.type \in Recorded /\ e.run = run /\ e.step = step + 1
    BY <2>3 DEF Event, Run, Recorded
  <2> HIDE DEF e
  <2>5. AgentOK'
    <3>1. Len(queue') < Capacity
      <4>1. CASE queue' = queue
        BY <1>3, <2>2, <4>1 DEF AgentOK
      <4>2. CASE queue' # queue
        <5>1. Len(queue') = Len(queue) + 1
          BY <1>2, <2>2, <2>4, <4>2, OneMore
        <5> QED BY <1>2, <2>2, <4>2, <5>1, LiveAssumption DEF RoomForStep
      <4> QED BY <4>1, <4>2
    <3> QED BY <1>2, <2>2, <2>3, <3>1, LiveAssumption DEF AgentOK
  <2> QED BY <1>5, <2>2, <2>3, <2>4, <2>5 DEF TellInv
<1>7. CASE RunEnds
  <2> DEFINE e == [type |-> "done", run |-> run, step |-> step + 1]
  <2>1. /\ queue' = Append(queue, e)
        /\ step' = step + 1 /\ run' = run /\ thread' = thread
        /\ browse = "running" /\ browse' = "closing" /\ step <= MaxSteps
    BY <1>3, <1>7 DEF RunEnds, AgentOK
  <2>2. run \in Run /\ step + 1 \in 0..MaxSteps + 1
    BY <1>2, <1>3, <2>1, LiveAssumption DEF AgentOK
  <2>3. /\ e \in Event /\ e.type \in Recorded /\ e.run = run
        /\ e.step = step + 1 /\ e.type = "done"
    BY <2>2 DEF Event, Run, Recorded
  <2> HIDE DEF e
  <2>4. AgentOK'
    <3>1. Len(queue') = Len(queue) + 1 /\ queue'[Len(queue) + 1] = e
      BY <1>2, <2>1, <2>3, OneMore
    <3> QED BY <2>1, <2>2, <2>3, <3>1 DEF AgentOK
  <2> QED BY <1>5, <2>1, <2>2, <2>3, <2>4 DEF TellInv
<1>11. CASE RunCancelled
  <2>1. /\ UNCHANGED <<run, step, queue, thread>>
        /\ browse = "running" /\ browse' = "cancelled"
    BY <1>11 DEF RunCancelled
  <2>2. AgentOK'
    BY <1>3, <2>1 DEF AgentOK
  <2>3. /\ \A i \in DOMAIN events' : EventOK(i)'
        /\ \A p \in DOMAIN queue' : QueueOK(p)'
        /\ \A r \in Run : ThreadOK(r)'
    BY <1>1, <1>3, <2>1 DEF EventOK, QueueOK, ThreadOK
  <2> QED BY <2>2, <2>3 DEF TellInv
<1>8. CASE WorkerTakes
  <2>1. /\ queue # << >> /\ queue' = Tail(queue) /\ run' = run /\ step' = step
        /\ browse' = browse /\ browse # "idle" /\ thread[run].at = "none"
        /\ thread' = [thread EXCEPT ![run] = [NoThread EXCEPT
                          !.at = "begins", !.record = Head(queue)]]
    BY <1>8 DEF WorkerTakes
  <2>2. /\ run \in Run /\ Len(queue) # 0 /\ 1 \in DOMAIN queue
        /\ Head(queue) = queue[1]
        /\ Len(queue') = Len(queue) - 1 /\ DOMAIN queue' = 1..Len(queue) - 1
        /\ \A p \in DOMAIN queue' : queue'[p] = queue[p + 1]
    <3>1. Len(queue) # 0
      BY <1>2, <2>1, EmptySeq
    <3>2. /\ Tail(queue) \in Seq(Event) /\ Len(Tail(queue)) = Len(queue) - 1
          /\ \A p \in 1..Len(Tail(queue)) : Tail(queue)[p] = queue[p + 1]
      BY <1>2, <2>1, HeadTailProperties
    <3>3. DOMAIN Tail(queue) = 1..Len(Tail(queue))
      BY <3>2, LenProperties
    <3>4. run \in Run
      BY <1>3, <2>1 DEF AgentOK
    <3> QED BY <1>2, <2>1, <3>1, <3>2, <3>3, <3>4
  <2>3. /\ thread'[run].at = "begins" /\ thread'[run].record = queue[1]
        /\ \A r \in Run \ {run} : thread'[r] = thread[r]
    BY <1>2, <2>1, <2>2 DEF NoThread
  <2>4. AgentOK'
    <3>1. ASSUME browse = "closing", queue' # << >>
          PROVE  queue'[Len(queue')].type = "done"
      <4>1. Len(queue') # 0
        BY <1>2, <2>1, <3>1, HeadTailProperties, EmptySeq
      <4>2. Len(queue') \in DOMAIN queue' /\ Len(queue') + 1 = Len(queue)
        BY <1>2, <2>2, <4>1
      <4>3. queue'[Len(queue')] = queue[Len(queue)]
        BY <2>2, <4>2
      <4> QED BY <1>3, <2>1, <3>1, <4>3 DEF AgentOK
    <3>2. browse = "running" => step <= MaxSteps /\ Len(queue') < Capacity
      BY <1>2, <1>3, <2>2, LiveAssumption DEF AgentOK
    <3> QED BY <2>1, <2>2, <3>1, <3>2 DEF AgentOK
  <2>5. ASSUME NEW i \in DOMAIN events' PROVE EventOK(i)'
    BY <1>1, <1>3, <2>1 DEF EventOK
  <2>6. ASSUME NEW p \in DOMAIN queue' PROVE QueueOK(p)'
    <3>1. p + 1 \in DOMAIN queue /\ queue'[p] = queue[p + 1] /\ 1 < p + 1
      BY <1>2, <2>2
    <3>2. QueueOK(p + 1) /\ queue[1].step < queue[p + 1].step
      BY <1>3, <2>2, <3>1 DEF QueueOK
    <3>3. \A q \in DOMAIN queue' : p < q =>
              /\ q + 1 \in DOMAIN queue /\ queue'[q] = queue[q + 1]
              /\ p + 1 < q + 1
      BY <1>2, <2>2
    <3> QED BY <1>1, <2>1, <2>3, <3>1, <3>2, <3>3 DEF QueueOK
  <2>7. ASSUME NEW r \in Run PROVE ThreadOK(r)'
    <3>1. CASE r = run
      <4>1. QueueOK(1)
        BY <1>3, <2>2
      <4> QED BY <1>1, <1>2, <2>1, <2>3, <3>1, <4>1 DEF QueueOK, ThreadOK
    <3>2. CASE r # run
      BY <1>1, <1>3, <2>1, <2>3, <3>2 DEF ThreadOK
    <3> QED BY <3>1, <3>2
  <2> QED BY <2>4, <2>5, <2>6, <2>7 DEF TellInv
<1>9. CASE Drained
  <2>1. /\ queue' = << >> /\ browse' = "idle" /\ DOMAIN queue' = {}
        /\ run' = run /\ step' = step /\ thread' = thread
    BY <1>9 DEF Drained
  <2>2. \A i \in DOMAIN events' : EventOK(i)'
    BY <1>1, <1>3, <2>1 DEF EventOK
  <2>3. \A r \in Run : ThreadOK(r)'
    BY <1>1, <1>3, <2>1 DEF ThreadOK
  <2> QED BY <2>1, <2>2, <2>3 DEF TellInv, AgentOK
<1>10. CASE CloseTimesOut
  <2>1. /\ queue' = << >> /\ browse' = "idle" /\ DOMAIN queue' = {}
        /\ run' = run /\ step' = step
        /\ \A r \in Run : thread'[r] = thread[r] \/ thread'[r] = NoThread
    BY <1>2, <1>10 DEF CloseTimesOut
  <2>2. \A i \in DOMAIN events' : EventOK(i)'
    BY <1>1, <1>3, <2>1 DEF EventOK
  <2>3. ASSUME NEW r \in Run PROVE ThreadOK(r)'
    BY <1>1, <1>3, <2>1 DEF ThreadOK, NoThread
  <2> QED BY <2>1, <2>2, <2>3 DEF TellInv, AgentOK
<1> QED BY <1>4, <1>6, <1>7, <1>8, <1>9, <1>10, <1>11 DEF AgentStep

(* A thread writes what is earlier than all that waits in its run.          *)
LEMMA ThreadTells ==
    ASSUME LiveAssumption, LiveInv, NEW r \in Run, ThreadStep(r)
    PROVE  TellInv' /\ OrderOK'
<1> USE DEF LiveInv
<1>1. UNCHANGED <<run, browse, step, queue>>
  BY DEF ThreadStep, CheckFrequent, Write, WriteFails, KeepLoop, agent
<1>2. /\ Len(events) \in Nat /\ DOMAIN events = 1..Len(events)
      /\ \A i \in DOMAIN events :
             events[i].run \in Nat /\ events[i].step \in Nat
      /\ \A p \in DOMAIN queue : queue[p].step \in Nat
      /\ \A q \in Run : q \in Nat \ {0} /\ thread[q].record.step \in Nat
      /\ run \in Nat /\ step \in Nat
      /\ events \in Seq(Event) /\ thread \in [Run -> Thread]
  BY RecordsTyped DEF LiveTypeOK
<1>3. /\ \A i \in DOMAIN events : EventOK(i)
      /\ \A p \in DOMAIN queue : QueueOK(p)
      /\ \A q \in Run : ThreadOK(q)
      /\ AgentOK /\ OrderOK
  BY DEF TellInv
<1>4. AgentOK'
  BY <1>1, <1>3 DEF AgentOK
<1>5. ASSUME NEW p \in DOMAIN queue
      PROVE  queue # << >> /\ run \in Run
  <2>1. queue # << >>
    OBVIOUS
  <2> QED BY <1>3, <2>1 DEF AgentOK
<1>6. /\ thread[r].at # "none"
      /\ \A q \in Run \ {r} : thread'[q] = thread[q]
      /\ \/ thread'[r] = NoThread
         \/ /\ thread'[r].at = "checked" /\ thread'[r].record = thread[r].record
            /\ thread[r].record.type \in HighFrequency /\ events' = events
  <2>1. CASE ThreadEnds(r)
    BY <1>2, <2>1 DEF ThreadEnds, ThreadStep, CheckFrequent, Write, WriteFails
  <2>2. CASE ~ThreadEnds(r)
    <3>1. /\ CheckFrequent(r) /\ thread[r].at = "begins"
          /\ thread[r].record.type \in HighFrequency /\ events' = events
          /\ thread' = [thread EXCEPT ![r].at = "checked",
                                     ![r].count = Frequent]
      BY <2>2 DEF ThreadStep, CheckFrequent, Write, WriteFails
    <3> QED BY <1>2, <3>1 DEF Thread
  <2> QED BY <2>1, <2>2
<1>7. CASE events' = events
  <2>1. DOMAIN events' = DOMAIN events /\ \A q : Written(q)' = Written(q)
    <3>1. DOMAIN events' = DOMAIN events
      BY <1>7
    <3> QED BY <1>7, <3>1 DEF Written
  <2>2. ASSUME NEW i \in DOMAIN events' PROVE EventOK(i)'
    BY <1>1, <1>3, <1>7, <2>1 DEF EventOK
  <2>3. ASSUME NEW p \in DOMAIN queue' PROVE QueueOK(p)'
    <3>1. QueueOK(p) /\ run \in Run
      BY <1>1, <1>3, <1>5
    <3>2. thread'[run].at # "none" =>
              /\ thread[run].at # "none"
              /\ thread'[run].record = thread[run].record
      BY <1>6, <3>1 DEF NoThread
    <3> QED BY <1>1, <1>7, <2>1, <3>1, <3>2 DEF QueueOK
  <2>4. ASSUME NEW q \in Run PROVE ThreadOK(q)'
    <3>1. ThreadOK(q)
      BY <1>3
    <3>2. CASE q = r
      BY <1>1, <1>6, <1>7, <2>1, <3>1, <3>2 DEF ThreadOK, NoThread
    <3>3. CASE q # r
      BY <1>1, <1>6, <1>7, <2>1, <3>1, <3>3 DEF ThreadOK
    <3> QED BY <3>2, <3>3
  <2>5. OrderOK'
    BY <1>3, <1>7, <2>1 DEF OrderOK
  <2> QED BY <1>4, <2>2, <2>3, <2>4, <2>5 DEF TellInv
<1>8. CASE events' # events
  <2> DEFINE e == thread[r].record
             last == Len(events) + 1
  <2>1. events' = Append(events, e) /\ thread'[r] = NoThread
    BY <1>6, <1>8 DEF ThreadStep, CheckFrequent, Write, WriteFails
  <2>2. /\ e \in Event /\ e.run = r /\ r <= run
        /\ r = run => e.step <= step
        /\ \A i \in Written(r) : events[i].step < e.step
    BY <1>2, <1>3, <1>6 DEF ThreadOK, Thread
  <2>3. /\ DOMAIN events' = 1..last /\ events'[last] = e
        /\ \A i \in DOMAIN events : events'[i] = events[i]
    BY <1>2, <2>1, <2>2, OneMore
  <2> HIDE DEF e
  <2>4. /\ Written(r)' = Written(r) \cup {last}
        /\ \A q \in Run \ {r} : Written(q)' = Written(q)
    BY <1>2, <2>2, <2>3 DEF Written
  <2>5. ASSUME NEW i \in DOMAIN events' PROVE EventOK(i)'
    <3>1. CASE i = last
      BY <1>1, <2>2, <2>3, <3>1 DEF EventOK
    <3>2. CASE i # last
      <4>1. i \in DOMAIN events
        BY <1>2, <2>3, <3>2
      <4> QED BY <1>1, <1>3, <2>3, <4>1 DEF EventOK
    <3> QED BY <3>1, <3>2
  <2>6. ASSUME NEW p \in DOMAIN queue' PROVE QueueOK(p)'
    <3>1. QueueOK(p) /\ run \in Run
      BY <1>1, <1>3, <1>5
    <3>2. \A i \in Written(run)' : events'[i].step < queue[p].step
      <4>1. CASE run = r
        <5>1. e.step < queue[p].step
          BY <1>6, <3>1, <4>1 DEF QueueOK, e
        <5>2. \A i \in Written(run) : events'[i] = events[i]
          BY <2>3 DEF Written
        <5> QED BY <1>1, <2>3, <2>4, <3>1, <4>1, <5>1, <5>2 DEF QueueOK
      <4>2. CASE run # r
        <5>1. \A i \in Written(run) : events'[i] = events[i]
          BY <2>3 DEF Written
        <5> QED BY <1>1, <2>4, <3>1, <4>2, <5>1 DEF QueueOK
      <4> QED BY <4>1, <4>2
    <3>3. thread'[run].at # "none" => thread'[run] = thread[run]
      BY <1>6, <2>1, <3>1 DEF NoThread
    <3> QED BY <1>1, <3>1, <3>2, <3>3 DEF QueueOK
  <2>7. ASSUME NEW q \in Run PROVE ThreadOK(q)'
    <3>1. CASE q = r
      BY <2>1, <3>1 DEF ThreadOK, NoThread
    <3>2. CASE q # r
      <4>1. ThreadOK(q) /\ thread'[q] = thread[q] /\ Written(q)' = Written(q)
        BY <1>3, <1>6, <2>4, <3>2
      <4>2. \A i \in Written(q) : events'[i] = events[i]
        BY <2>3 DEF Written
      <4> QED BY <1>1, <4>1, <4>2 DEF ThreadOK
    <3> QED BY <3>1, <3>2
  <2>8. OrderOK'
    <3>1. ASSUME NEW i \in DOMAIN events', NEW j \in DOMAIN events', i < j,
                 events'[i].run = events'[j].run, events'[i].run # 0
          PROVE  events'[i].step < events'[j].step
      <4>1. i \in DOMAIN events
        BY <1>2, <2>3, <3>1
      <4>2. CASE j = last
        <5>1. i \in Written(r)
          BY <2>2, <2>3, <3>1, <4>1, <4>2 DEF Written
        <5> QED BY <2>2, <2>3, <4>1, <4>2, <5>1
      <4>3. CASE j # last
        <5>1. j \in DOMAIN events
          BY <1>2, <2>3, <4>3
        <5> QED BY <1>3, <2>3, <3>1, <4>1, <5>1 DEF OrderOK
      <4> QED BY <4>2, <4>3
    <3> QED BY <3>1 DEF OrderOK
  <2> QED BY <1>4, <2>5, <2>6, <2>7, <2>8 DEF TellInv
<1> QED BY <1>7, <1>8

(* Every step keeps the records of a run in their order.                    *)
LEMMA TellStep ==
    ASSUME LiveAssumption, LiveInv, Next, Grows
    PROVE  TellInv' /\ OrderOK'
<1> USE DEF LiveInv
<1>1. CASE AgentStep
  <2>1. events' = events
    BY <1>1 DEF AgentStep, RunBegins, BrowseStep, RunEnds,
                RunCancelled, Drained,
       CloseTimesOut, WorkerTakes, KeepReader, stored
  <2>2. DOMAIN events' = DOMAIN events
    BY <2>1
  <2>3. OrderOK'
    BY <2>1, <2>2 DEF OrderOK
  <2> QED BY <1>1, <2>3, AgentTells
<1>2. CASE \E r \in Run : ThreadStep(r)
  BY <1>2, ThreadTells
<1>3. CASE JobStep \/ ReaderStep
  <2>1. UNCHANGED <<agent, thread>>
    BY <1>3 DEF JobStep, ReaderStep, JobEnds, CheckpointOpens, CheckpointEnds,
       RecordDecision, OpenStream, ReadPage, SendEvent, StreamLost, Poll,
       KeepWriters
  <2>2. \A i \in DOMAIN events' \ DOMAIN events : events'[i].run = 0
    <3>1. events \in Seq(Event) /\ Len(events) \in Nat
          /\ DOMAIN events = 1..Len(events)
      BY RecordsTyped DEF LiveTypeOK
    <3>2. CASE events' = events
      <4>1. DOMAIN events' = DOMAIN events
        BY <3>2
      <4> QED BY <4>1
    <3>3. ASSUME NEW type \in Kind \cup Terminal
                              \cup {"done", "pending", "lifecycle"},
                 events' = Append(events, Plain(type))
          PROVE  \A i \in DOMAIN events' \ DOMAIN events : events'[i].run = 0
      <4> DEFINE e == Plain(type)
      <4>1. e \in Event /\ e.run = 0 /\ events' = Append(events, e)
        BY <3>3, PlainType
      <4> HIDE DEF e
      <4>2. /\ DOMAIN events' = 1..Len(events) + 1
            /\ events'[Len(events) + 1] = e
        BY <3>1, <4>1, OneMore
      <4> QED BY <3>1, <4>1, <4>2
    <3>4. CASE RecordDecision
      BY <3>4, DecisionAdds
    <3>5. CASE JobEnds
      BY <3>2, <3>3, <3>5 DEF JobEnds
    <3>6. CASE ~RecordDecision /\ ~JobEnds
      BY <1>3, <3>2, <3>6 DEF JobStep, ReaderStep, CheckpointOpens,
         CheckpointEnds, OpenStream, ReadPage, SendEvent, StreamLost, Poll,
         KeepWriters, stored
    <3> QED BY <3>4, <3>5, <3>6
  <2> QED BY <2>1, <2>2, TellKept
<1> QED BY <1>1, <1>2, <1>3 DEF Next


-----------------------------------------------------------------------------
(* The limit of frequent events                                            *)

(* The threads that have found room are of runs that have begun.            *)
LEMMA CheckedRuns ==
    ASSUME LiveAssumption, LiveInv
    PROVE  /\ Checked \subseteq 1..run /\ run \in Nat
           /\ IsFiniteSet(Checked) /\ Cardinality(Checked) \in Nat
<1>1. Checked \subseteq 1..run /\ run \in Nat
  BY LiveAssumption DEF Checked, LiveInv, LiveTypeOK, TellInv, ThreadOK, Run
<1>2. IsFiniteSet(1..run)
  BY <1>1, FS_Interval
<1>3. IsFiniteSet(Checked)
  BY <1>1, <1>2, FS_Subset
<1> QED BY <1>1, <1>3, FS_CardinalityType

(* New events that are not frequent leave the count as it is.               *)
LEMMA OtherEvents ==
    ASSUME LiveTypeOK, Grows,
           \A i \in DOMAIN events' \ DOMAIN events :
               events'[i].type \notin HighFrequency
    PROVE  Frequent' = Frequent
<1>1. DOMAIN events = 1..Len(events) /\ DOMAIN events' = 1..Len(events')
      /\ Len(events) \in Nat /\ Len(events') \in Nat
  BY LenProperties DEF LiveTypeOK, Grows
<1>2. DOMAIN events \subseteq DOMAIN events'
  BY <1>1 DEF Grows
<1>3. Types(HighFrequency)' = Types(HighFrequency)
  BY <1>2 DEF Types, Grows
<1> QED BY <1>3 DEF Frequent

(* Fewer threads and no frequent event, or a frequent event for one thread  *)
(* less, keep the limit.                                                    *)
LEMMA FewerChecked ==
    ASSUME LiveAssumption, LiveInv, LiveTypeOK', run <= run',
           \/ Frequent' = Frequent /\ Checked' \subseteq Checked
           \/ /\ Frequent' = Frequent + 1
              /\ \E r \in Checked : Checked' = Checked \ {r}
    PROVE  FrequentOK'
<1>1. /\ IsFiniteSet(Checked) /\ Cardinality(Checked) \in Nat
      /\ Frequent \in Nat /\ MaxFrequent \in Nat
      /\ run \in Nat /\ run' \in Nat
  <2>1. Frequent \in Nat
    BY FiniteTypes DEF LiveInv, Frequent
  <2>2. run' \in Nat /\ MaxFrequent \in Nat
    BY LiveAssumption DEF LiveTypeOK
  <2> QED BY <2>1, <2>2, CheckedRuns
<1>2. Frequent + Cardinality(Checked) <= MaxFrequent + run
  BY DEF LiveInv, FrequentOK
<1>3. CASE Frequent' = Frequent /\ Checked' \subseteq Checked
  <2>1. Cardinality(Checked') \in Nat
        /\ Cardinality(Checked') <= Cardinality(Checked)
    BY <1>1, <1>3, FS_Subset, FS_CardinalityType
  <2> QED BY <1>1, <1>2, <1>3, <2>1 DEF FrequentOK
<1>4. CASE Frequent' = Frequent + 1
           /\ \E r \in Checked : Checked' = Checked \ {r}
  <2>1. Cardinality(Checked') = Cardinality(Checked) - 1
    BY <1>1, <1>4, FS_RemoveElement
  <2> QED BY <1>1, <1>2, <1>4, <2>1 DEF FrequentOK
<1> QED BY <1>3, <1>4

(* A thread finds room for one frequent event.                              *)
LEMMA RoomIsFound ==
    ASSUME LiveAssumption, LiveInv, NEW r \in Run, CheckFrequent(r),
           ~ThreadEnds(r)
    PROVE  FrequentOK'
<1>1. /\ events' = events /\ run' = run /\ thread[r].at = "begins"
      /\ thread' = [thread EXCEPT ![r].at = "checked", ![r].count = Frequent]
      /\ ~(Frequent >= MaxFrequent)
  BY DEF CheckFrequent, KeepLoop, agent
<1>2. /\ Frequent' = Frequent /\ Frequent \in Nat /\ MaxFrequent \in Nat
      /\ Checked \subseteq 1..run /\ run \in Nat
  <2>1. DOMAIN events' = DOMAIN events
    BY <1>1
  <2>2. Types(HighFrequency)' = Types(HighFrequency)
    BY <1>1, <2>1 DEF Types
  <2> QED BY <2>2, CheckedRuns, FiniteTypes, LiveAssumption
          DEF LiveInv, Frequent
<1>3. Checked' \subseteq Checked \cup {r}
  BY <1>1 DEF Checked, LiveInv, LiveTypeOK, Thread
<1>4. r \in 1..run
  BY <1>1, <1>2 DEF LiveInv, TellInv, ThreadOK, Run
<1>5. Cardinality(Checked') \in Nat /\ Cardinality(Checked') <= run
  <2>1. Checked' \subseteq 1..run
    BY <1>2, <1>3, <1>4
  <2>2. IsFiniteSet(1..run) /\ Cardinality(1..run) = run
    <3>1. 1 \in Int /\ run \in Int
      BY <1>2
    <3>2. /\ IsFiniteSet(1..run)
          /\ Cardinality(1..run) = IF 1 > run THEN 0 ELSE run - 1 + 1
      BY <3>1, FS_Interval
    <3> QED BY <1>2, <3>2
  <2>3. IsFiniteSet(Checked') /\ Cardinality(Checked') <= Cardinality(1..run)
    BY <2>1, <2>2, FS_Subset
  <2> QED BY <2>2, <2>3, FS_CardinalityType
<1> QED BY <1>1, <1>2, <1>5 DEF FrequentOK

(* No step passes the limit by more than the runs that have begun.          *)
LEMMA FrequentStep ==
    ASSUME LiveAssumption, LiveInv, Next, Grows, LiveTypeOK'
    PROVE  FrequentOK'
<1> USE DEF LiveInv
<1>1. /\ events \in Seq(Event) /\ Len(events) \in Nat
      /\ DOMAIN events = 1..Len(events) /\ thread \in [Run -> Thread]
      /\ run \in Nat
  BY LenProperties DEF LiveTypeOK
<1>2. ASSUME events' = events PROVE Frequent' = Frequent
  <2>1. DOMAIN events' = DOMAIN events
    BY <1>2
  <2> QED BY <2>1, OtherEvents
<1>3. ASSUME NEW e \in Event, events' = Append(events, e)
      PROVE  /\ e.type \notin HighFrequency => Frequent' = Frequent
             /\ e.type \in HighFrequency => Frequent' = Frequent + 1
  <2>1. /\ DOMAIN events' = 1..Len(events) + 1
        /\ \A i \in DOMAIN events : events'[i] = events[i]
        /\ events'[Len(events) + 1] = e
    BY <1>1, <1>3, OneMore
  <2>2. CASE e.type \notin HighFrequency
    BY <1>1, <2>1, <2>2, OtherEvents
  <2>3. CASE e.type \in HighFrequency
    <3>1. /\ Types(HighFrequency)' =
                 Types(HighFrequency) \cup {Len(events) + 1}
          /\ Len(events) + 1 \notin Types(HighFrequency)
      BY <1>1, <2>1, <2>3 DEF Types
    <3> DEFINE T == Types(HighFrequency)
               n == Len(events) + 1
    <3>2. IsFiniteSet(T)
      BY FiniteTypes
    <3> HIDE DEF T, n
    <3>3. Cardinality(T \cup {n}) = IF n \in T THEN Cardinality(T)
                                               ELSE Cardinality(T) + 1
      BY <3>2, FS_AddElement
    <3>4. /\ Frequent' = Cardinality(Types(HighFrequency)')
          /\ Frequent = Cardinality(T)
      BY DEF Frequent, T
    <3>5. Types(HighFrequency)' = T \cup {n} /\ n \notin T
      BY <3>1 DEF T, n
    <3> QED BY <2>3, <3>3, <3>4, <3>5
  <2> QED BY <2>2, <2>3
<1>4. CASE JobStep \/ ReaderStep
  <2>1. UNCHANGED <<run, thread>>
    BY <1>4 DEF JobStep, ReaderStep, JobEnds, CheckpointOpens, CheckpointEnds,
       RecordDecision, OpenStream, ReadPage, SendEvent, StreamLost, Poll,
       KeepWriters, agent
  <2>2. Checked' = Checked /\ run <= run'
    BY <1>1, <2>1 DEF Checked
  <2>3. Frequent' = Frequent
    <3>1. CASE RecordDecision
      <4>1. (Terminal \cup {"pending"}) \cap HighFrequency = {}
        BY LiveAssumption
      <4> QED BY <3>1, <4>1, DecisionAdds, OtherEvents
    <3>2. CASE JobEnds
      <4>1. /\ Plain("lifecycle") \in Event
            /\ Plain("lifecycle").type \notin HighFrequency
        BY PlainType, LiveAssumption
      <4> QED BY <1>2, <1>3, <3>2, <4>1 DEF JobEnds
    <3>3. CASE ~RecordDecision /\ ~JobEnds
      BY <1>2, <1>4, <3>3 DEF JobStep, ReaderStep, CheckpointOpens,
         CheckpointEnds, OpenStream, ReadPage, SendEvent, StreamLost, Poll,
         KeepWriters, stored
    <3> QED BY <3>1, <3>2, <3>3
  <2> QED BY <2>2, <2>3, FewerChecked
<1>5. CASE AgentStep
  <2>1. events' = events /\ (run' = run \/ run' = run + 1)
    BY <1>5 DEF AgentStep, RunBegins, BrowseStep, RunEnds,
                RunCancelled, Drained,
       CloseTimesOut, WorkerTakes, KeepReader, stored
  <2>2. \A r \in Run : thread'[r] = thread[r] \/ thread'[r].at # "checked"
    <3>1. CASE WorkerTakes
      BY <1>1, <3>1 DEF WorkerTakes, NoThread
    <3>2. CASE CloseTimesOut
      BY <1>1, <3>2 DEF CloseTimesOut, NoThread
    <3>3. CASE ~WorkerTakes /\ ~CloseTimesOut
      BY <1>5, <3>3 DEF AgentStep, RunBegins, BrowseStep, RunEnds,
                        RunCancelled, Drained
    <3> QED BY <3>1, <3>2, <3>3
  <2>3. Checked' \subseteq Checked
    BY <2>2 DEF Checked
  <2>4. run <= run'
    BY <1>1, <2>1
  <2> QED BY <1>2, <2>1, <2>3, <2>4, FewerChecked
<1>6. ASSUME NEW r \in Run, ThreadStep(r) PROVE FrequentOK'
  <2>1. CASE CheckFrequent(r) /\ ~ThreadEnds(r)
    BY <2>1, RoomIsFound
  <2>2. CASE ThreadEnds(r)
    <3>1. Checked' = Checked \ {r} /\ run <= run' /\ thread[r].at # "none"
      <4>1. thread'[r] = NoThread
            /\ \A q \in Run \ {r} : thread'[q] = thread[q]
        BY <1>1, <2>2 DEF ThreadEnds
      <4>2. run' = run /\ thread[r].at # "none"
        BY <1>6 DEF ThreadStep, CheckFrequent, Write, WriteFails, KeepLoop,
           agent
      <4> QED BY <1>1, <4>1, <4>2 DEF Checked, NoThread
    <3>2. CASE events' = events
      BY <1>2, <3>1, <3>2, FewerChecked
    <3>3. CASE events' # events
      <4>1. /\ Write(r) /\ thread[r].record \in Event
            /\ events' = Append(events, thread[r].record)
        BY <1>1, <1>6, <3>3 DEF ThreadStep, CheckFrequent, WriteFails, Write,
           Thread
      <4>2. CASE thread[r].at = "checked"
        <5>1. thread[r].record.type \in HighFrequency /\ r \in Checked
          BY <4>2 DEF TellInv, ThreadOK, Checked
        <5> QED BY <1>3, <3>1, <4>1, <5>1, FewerChecked
      <4>3. CASE thread[r].at # "checked"
        <5>1. thread[r].record.type \notin HighFrequency
          BY <4>1, <4>3 DEF Write
        <5> QED BY <1>3, <3>1, <4>1, <5>1, FewerChecked
      <4> QED BY <4>2, <4>3
    <3> QED BY <3>2, <3>3
  <2> QED BY <1>6, <2>1, <2>2 DEF ThreadStep, Write, WriteFails
<1> QED BY <1>4, <1>5, <1>6 DEF Next

-----------------------------------------------------------------------------
(* The invariant                                                           *)

(* No step breaks the invariant.                                            *)
LEMMA LiveNextInv ==
    ASSUME LiveAssumption, LiveInv, Next
    PROVE  LiveInv'
<1>1. Grows
  BY EventsGrow
<1>2. ASSUME ReaderStep PROVE LiveTypeOK' /\ ReaderInv'
  BY <1>2, ReaderMoves
<1>3. ASSUME ~ReaderStep PROVE LiveTypeOK' /\ ReaderInv'
  <2>1. LiveTypeOK'
    BY <1>1, <1>3, JobTypes, AgentTypes, ThreadTypes DEF Next
  <2>2. UNCHANGED reader
    BY <1>3 DEF Next, JobStep, AgentStep, ThreadStep, JobEnds,
       CheckpointOpens, CheckpointEnds, RecordDecision, RunBegins, BrowseStep,
       RunEnds,
       RunCancelled, WorkerTakes, Drained, CloseTimesOut, CheckFrequent, Write,
       WriteFails, KeepReader, KeepLoop, reader
  <2>3. job' \in {"running", "over"}
    BY <2>1 DEF LiveTypeOK
  <2> QED BY <1>1, <2>1, <2>2, <2>3, ReaderKept
<1>4. LiveTypeOK' /\ ReaderInv'
  BY <1>2, <1>3
<1> QED BY <1>1, <1>4, TellStep, FrequentStep, DecisionStep DEF LiveInv

(* A step that changes nothing keeps it.                                    *)
LEMMA LiveStutter ==
    ASSUME LiveInv, UNCHANGED vars
    PROVE  LiveInv'
<1>1. /\ events' = events /\ job' = job /\ checkpoint' = checkpoint
      /\ run' = run /\ browse' = browse /\ step' = step /\ queue' = queue
      /\ thread' = thread /\ exhausted' = exhausted /\ stream' = stream
      /\ client' = client /\ got' = got
  BY DEF vars, stored, agent, reader
<1>2. /\ \A S : Types(S)' = Types(S)
      /\ \A r : Written(r)' = Written(r)
      /\ DOMAIN events' = DOMAIN events /\ DOMAIN queue' = DOMAIN queue
  BY <1>1 DEF Types, Written
<1>3. LiveTypeOK'
  BY <1>1 DEF LiveInv, LiveTypeOK
<1>4. TellInv' /\ OrderOK'
  BY <1>1, <1>2 DEF LiveInv, TellInv, AgentOK, EventOK, QueueOK, ThreadOK,
     OrderOK
<1>5. FrequentOK'
  BY <1>1, <1>2 DEF LiveInv, FrequentOK, Frequent, Checked
<1>6. DecisionInv'
  BY <1>1, <1>2 DEF LiveInv, DecisionInv, DecisionIsTold
<1>7. ReaderInv'
  BY <1>1, <1>2 DEF LiveInv, ReaderInv, ReaderAt
<1> QED BY <1>3, <1>4, <1>5, <1>6, <1>7 DEF LiveInv

(* LiveInv is an invariant.                                                 *)
LEMMA LiveInvariance == Spec => []LiveInv
<1>1. Init => LiveInv
  BY LiveInitInv, LiveAssumption
<1>2. LiveInv /\ [Next]_vars => LiveInv'
  BY LiveNextInv, LiveStutter, LiveAssumption
<1> QED BY <1>1, <1>2, PTL DEF Spec

-----------------------------------------------------------------------------
(* The theorems                                                            *)

(* The database, the worker, its threads and the page hold what they are    *)
(* meant to hold; the page has no event that is not recorded.               *)
THEOREM LiveTypeCorrect == Spec => []LiveTypeOK
<1>1. LiveInv => LiveTypeOK
  BY DEF LiveInv
<1> QED BY <1>1, LiveInvariance, PTL

(* The page is given every event, in order and without a gap, and a stream  *)
(* ends by itself only when the end of the job was sent                     *)
(* (stream_pipeline_job_events, subscribePipelineLiveEvents).               *)
THEOREM NoEventIsMissed == Spec => []NothingIsMissed
<1>1. LiveInv => NothingIsMissed
  <2> SUFFICES ASSUME LiveInv PROVE NothingIsMissed
    OBVIOUS
  <2>1. PICK n \in 0..Len(events) : ReaderAt(n)
    BY DEF LiveInv, ReaderInv
  <2>2. n \in Nat /\ got = 1..n
    BY <2>1, LenProperties DEF LiveInv, LiveTypeOK, ReaderAt
  <2>3. LastSequence = n
    BY <2>2, LargestUpTo DEF LastSequence
  <2> QED BY <2>1, <2>2, <2>3 DEF NothingIsMissed, ReaderAt
<1> QED BY <1>1, LiveInvariance, PTL

(* The records of a run come in the order of its steps, a run that ended by *)
(* itself, not cancelled, has its last record behind the steps that still   *)
(* wait, and the limit of frequent events is passed by at most one event a  *)
(* run (_OrderedBrowseTelemetry, BrowseAgent.run, _record).                 *)
THEOREM RunsAreToldInOrder == Spec => []RunsAreTold
<1>1. LiveInv => RunsAreTold
  <2> SUFFICES ASSUME LiveInv PROVE RunsAreTold
    OBVIOUS
  <2>1. /\ Cardinality(Checked) \in Nat /\ Frequent \in Nat
        /\ run \in Nat /\ MaxFrequent \in Nat
    BY CheckedRuns, FiniteTypes, LiveAssumption DEF LiveInv, Frequent
  <2>2. Frequent <= MaxFrequent + run
    BY <2>1 DEF LiveInv, FrequentOK
  <2> QED BY <2>2 DEF LiveInv, OrderOK, TellInv, AgentOK, RunsAreTold
<1> QED BY <1>1, LiveInvariance, PTL

(* A decision is told as pending and then once as what it became            *)
(* (_record_checkpoint_decision).                                           *)
THEOREM DecisionIsToldOnce == Spec => []DecisionIsTold
<1>1. LiveInv => DecisionIsTold
  BY DEF LiveInv, DecisionInv
<1> QED BY <1>1, LiveInvariance, PTL
=============================================================================
