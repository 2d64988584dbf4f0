------------------------------ MODULE LiveEvents ------------------------------
(***************************************************************************)
(* The live events of one job.  The runner records what becomes of the job *)
(* and of its decisions, the browse agent hands its steps to a worker that *)
(* writes them in threads, and a client follows the events over a stream   *)
(* and, when the stream has ended, by polling.                             *)
(*                                                                         *)
(* A record is written in a transaction of its own that may fail: then it  *)
(* is skipped, and nobody is told.  Sequence numbers are handed out by the *)
(* database in the order of the commits; those of one job are counted here *)
(* from 1.  Runner, stream and polls share one event loop, the threads do  *)
(* not.                                                                    *)
(***************************************************************************)
EXTENDS Sequences, Naturals, FiniteSets

CONSTANTS
    Kind,            \* what a browse step does
    HighFrequency,   \* the kinds that are merged and limited
    Terminal,        \* what becomes of a decision
    MaxFrequent,     \* max_high_frequency_events
    Capacity,        \* of the queue of a run
    PageLimit,       \* events per page of the stream and of a poll
    MaxSteps,        \* bound: steps of a run
    MaxRuns          \* bound: runs of the browse agent

ASSUME LiveAssumption ==
    /\ HighFrequency \subseteq Kind
    /\ Kind \cap Terminal = {}
    /\ {"done", "pending", "lifecycle", "none"} \cap (Kind \cup Terminal) = {}
    /\ Capacity \in Nat \ {0, 1}
    /\ {MaxFrequent, PageLimit, MaxSteps, MaxRuns} \subseteq Nat \ {0}

VARIABLES
    events,      \* the database: pipeline_job_events, in order
    job,         \* the database: is the job over?
    checkpoint,  \* the database: the status of the decision
    run,         \* the browse agent: its current or last run
    browse,      \* the browse agent: what the run does
    step,        \* the browse agent: the step of the run
    queue,       \* the browse agent: records that wait for the worker
    thread,      \* the record each run has in a thread, and how far it is
    exhausted,   \* _exhausted_high_frequency_jobs has the job
    stream,      \* the generator of the stream: its page, and its state
    client,      \* the page: how it follows the events
    got          \* the sequence numbers the page was given

stored == <<events, job, checkpoint>>
agent == <<run, browse, step, queue>>
reader == <<stream, client, got>>
vars == <<stored, agent, thread, exhausted, reader>>

Run == 1..MaxRuns

\* run and step are 0 when they say nothing.
Event == [type : Kind \cup Terminal \cup {"done", "pending", "lifecycle"},
          run : 0..MaxRuns, step : 0..MaxSteps + 1]

Plain(type) == [type |-> type, run |-> 0, step |-> 0]

\* checked: the SELECTs of a merged record are done, count is their answer.
Thread == [at : {"none", "begins", "checked"}, record : Event, count : Nat]

NoThread == [at |-> "none", record |-> Plain("done"), count |-> 0]

\* The page from..to is being sent.
Stream == [state : {"none", "open", "ended"}, from : Nat, to : Nat,
           over : BOOLEAN]

NoStream == [state |-> "none", from |-> 1, to |-> 0, over |-> FALSE]

LiveTypeOK ==
    /\ events \in Seq(Event)
    /\ job \in {"running", "over"}
    /\ checkpoint \in {"none", "pending"} \cup Terminal
    /\ run \in 0..MaxRuns
    /\ browse \in {"idle", "running", "closing", "cancelled"}
    /\ step \in 0..MaxSteps + 1
    /\ queue \in Seq(Event)
    /\ thread \in [Run -> Thread]
    /\ exhausted \in BOOLEAN
    /\ stream \in Stream
    /\ client \in {"new", "streaming", "polling", "stopped"}
    /\ got \subseteq 1..Len(events)

Init ==
    /\ events = << >>
    /\ job = "running"
    /\ checkpoint = "none"
    /\ run = 0
    /\ browse = "idle"
    /\ step = 0
    /\ queue = << >>
    /\ thread = [r \in Run |-> NoThread]
    /\ exhausted = FALSE
    /\ stream = NoStream
    /\ client = "new"
    /\ got = {}

-----------------------------------------------------------------------------
(* The job and its decision                                                *)

Types(S) == {i \in DOMAIN events : events[i].type \in S}

\* The status is committed, and the event recorded at once, or skipped.
JobEnds ==
    /\ job = "running" /\ browse = "idle"
    /\ job' = "over"
    /\ \/ /\ events' = Append(events, Plain("lifecycle"))
          /\ exhausted' = FALSE
       \/ UNCHANGED <<events, exhausted>>
    /\ UNCHANGED <<checkpoint, agent, thread, reader>>

CheckpointOpens ==
    /\ job = "running" /\ checkpoint = "none"
    /\ checkpoint' = "pending"
    /\ UNCHANGED <<events, job, agent, thread, exhausted, reader>>

CheckpointEnds(status) ==
    /\ checkpoint = "pending"
    /\ checkpoint' = status
    /\ UNCHANGED <<events, job, agent, thread, exhausted, reader>>

\* Seeded fault: the end of a decision is recorded as it is.
DecisionEventsBare ==
    IF checkpoint # "pending" /\ Types(Terminal) = {}
    THEN <<Plain(checkpoint)>>
    ELSE IF Types({"pending"}) = {} THEN <<Plain("pending")>> ELSE << >>

\* What is missing of the two events, as the checkpoint is now.
DecisionEvents ==
    (IF Types(Terminal \cup {"pending"}) = {}
     THEN <<Plain("pending")>> ELSE << >>)
    \o (IF checkpoint # "pending" /\ Types(Terminal) = {}
        THEN <<Plain(checkpoint)>> ELSE << >>)

\* The gate, the API and the runner ask for it after their commits, one
\* after the other or several at once; the checkpoint decides.
RecordDecision ==
    /\ checkpoint # "none" /\ DecisionEvents # << >>
    /\ events' = events \o DecisionEvents
    /\ UNCHANGED <<job, checkpoint, agent, thread, exhausted, reader>>

-----------------------------------------------------------------------------
(* The browse agent and its worker                                         *)

KeepReader == UNCHANGED <<stored, reader>>

RunBegins ==
    /\ job = "running" /\ browse = "idle" /\ run < MaxRuns
    /\ run' = run + 1
    /\ browse' = "running"
    /\ step' = 0
    /\ UNCHANGED <<queue, thread, exhausted>> /\ KeepReader

\* Seeded fault: steps take the place that is kept for the last record.
RoomForAll == Len(queue) < Capacity

RoomForStep == Len(queue) < Capacity - 1

BrowseStep(kind) ==
    /\ browse = "running" /\ step < MaxSteps
    /\ step' = step + 1
    /\ queue' = IF RoomForStep
                THEN Append(queue, [type |-> kind, run |-> run,
                                    step |-> step + 1])
                ELSE queue
    /\ UNCHANGED <<run, browse, thread, exhausted>> /\ KeepReader

\* The last record, done or error, and then close.
RunEnds ==
    /\ browse = "running"
    /\ step' = step + 1
    /\ queue' = IF Len(queue) < Capacity
                THEN Append(queue, [type |-> "done", run |-> run,
                                    step |-> step + 1])
                ELSE queue
    /\ browse' = "closing"
    /\ UNCHANGED <<run, thread, exhausted>> /\ KeepReader

\* CancelledError passes by the handler that makes the last record: close
\* drains the steps that wait.
RunCancelled ==
    /\ browse = "running"
    /\ browse' = "cancelled"
    /\ UNCHANGED <<run, step, queue, thread, exhausted>> /\ KeepReader

Closing == browse \in {"closing", "cancelled"}

WorkerTakes ==
    /\ browse # "idle" /\ queue # << >>
    /\ thread[run].at = "none"
    /\ thread' = [thread EXCEPT ![run] = [NoThread EXCEPT
                     !.at = "begins", !.record = Head(queue)]]
    /\ queue' = Tail(queue)
    /\ UNCHANGED <<run, browse, step, exhausted>> /\ KeepReader

Drained ==
    /\ Closing /\ queue = << >> /\ thread[run].at = "none"
    /\ browse' = "idle"
    /\ UNCHANGED <<run, step, queue, thread, exhausted>> /\ KeepReader

\* close times out, or is cancelled itself: the worker is cancelled and
\* forgets the queue.  A thread that has begun goes on.
CloseTimesOut ==
    /\ Closing
    /\ browse' = "idle"
    /\ queue' = << >>
    /\ thread' \in {thread} \cup
           (IF thread[run].at = "begins"
            THEN {[thread EXCEPT ![run] = NoThread]} ELSE {})
    /\ UNCHANGED <<run, step, exhausted>> /\ KeepReader

-----------------------------------------------------------------------------
(* The threads                                                             *)

KeepLoop == UNCHANGED <<job, checkpoint, agent, reader>>

ThreadEnds(r) == thread' = [thread EXCEPT ![r] = NoThread]

Frequent == Cardinality(Types(HighFrequency))

LatestIs(type) == events # << >> /\ events[Len(events)].type = type

\* Scrolls and waits: merged into the latest event, over the limit, or to be
\* written by a later statement.
CheckFrequent(r) ==
    LET record == thread[r].record
    IN  /\ thread[r].at = "begins" /\ record.type \in HighFrequency
        /\ IF exhausted \/ LatestIs(record.type) \/ Frequent >= MaxFrequent
           THEN /\ ThreadEnds(r)
                /\ exhausted' = \/ exhausted
                                \/ /\ ~LatestIs(record.type)
                                   /\ Frequent >= MaxFrequent
           ELSE /\ thread' = [thread EXCEPT ![r].at = "checked",
                                            ![r].count = Frequent]
                /\ UNCHANGED exhausted
        /\ UNCHANGED events /\ KeepLoop

Write(r) ==
    /\ \/ thread[r].at = "checked"
       \/ thread[r].at = "begins" /\ thread[r].record.type \notin HighFrequency
    /\ events' = Append(events, thread[r].record)
    /\ exhausted' = \/ exhausted
                    \/ /\ thread[r].at = "checked"
                       /\ thread[r].count + 1 >= MaxFrequent
    /\ ThreadEnds(r)
    /\ KeepLoop

WriteFails(r) ==
    /\ thread[r].at # "none"
    /\ ThreadEnds(r)
    /\ UNCHANGED <<events, exhausted>> /\ KeepLoop

-----------------------------------------------------------------------------
(* The stream and the page                                                 *)

KeepWriters == UNCHANGED <<stored, agent, thread, exhausted>>

Largest(S) == IF S = {} THEN 0 ELSE CHOOSE i \in S : \A j \in S : j <= i

LastSequence == Largest(got)

Smaller(a, b) == IF a < b THEN a ELSE b

OpenStream ==
    /\ client = "new"
    /\ client' = "streaming"
    /\ stream' = [NoStream EXCEPT !.state = "open", !.from = LastSequence + 1,
                                  !.to = LastSequence]
    /\ UNCHANGED got /\ KeepWriters

\* Seeded fault: the stream of a job that is over ends with its next page.
EndsEarly(page) == page.over

Ends(page) == page.over /\ page.from > page.to

\* The generator has sent its page; it ends or, a little later, reads the
\* next one.
ReadPage ==
    /\ stream.state = "open" /\ stream.from > stream.to
    /\ LET page == [state |-> "open", from |-> stream.from,
                    to |-> Smaller(stream.to + PageLimit, Len(events)),
                    over |-> job = "over"]
       IN  stream' = IF Ends(page) THEN [page EXCEPT !.state = "ended"]
                                   ELSE page
    /\ UNCHANGED <<client, got>> /\ KeepWriters

\* acceptEvent: an event of the job's end is the last one.
Accepted(n) ==
    /\ got' = IF n > LastSequence THEN got \cup {n} ELSE got
    /\ client' = IF n > LastSequence /\ events[n].type = "lifecycle"
                 THEN "stopped" ELSE client

\* The page gives up the stream that it no longer needs.
SendEvent ==
    /\ stream.state = "open" /\ stream.from <= stream.to
    /\ client = "streaming"
    /\ Accepted(stream.from)
    /\ stream' = IF client' = "stopped" THEN NoStream
                 ELSE [stream EXCEPT !.from = @ + 1]
    /\ KeepWriters

\* The connection is lost with what is on its way, or the stream has ended.
StreamLost ==
    /\ client = "streaming"
    /\ client' = "polling"
    /\ stream' = NoStream
    /\ UNCHANGED got /\ KeepWriters

\* Seeded fault: a poll asks for the newest events.
PolledNewest ==
    {n \in DOMAIN events : n > LastSequence /\ n > Len(events) - PageLimit}

Polled == {n \in DOMAIN events : n > LastSequence
                                 /\ n <= LastSequence + PageLimit}

\* Seeded fault: only the newest event of a poll is looked at.
EndOfNewest(S) ==
    {n \in S : n = Largest(S) /\ events[n].type = "lifecycle"}

EndOf(S) == {n \in S : events[n].type = "lifecycle"}

\* pollOnce: events are accepted up to the one of the job's end.
Poll ==
    /\ client = "polling" /\ Polled # {}
    /\ got' = got \cup {n \in Polled : \A e \in EndOf(Polled) : n <= e}
    /\ client' = IF EndOf(Polled) # {} THEN "stopped" ELSE client
    /\ UNCHANGED stream /\ KeepWriters

-----------------------------------------------------------------------------
JobStep ==
    \/ JobEnds \/ CheckpointOpens \/ RecordDecision
    \/ \E status \in Terminal : CheckpointEnds(status)

AgentStep ==
    \/ RunBegins \/ RunEnds \/ RunCancelled \/ Drained \/ CloseTimesOut
    \/ WorkerTakes
    \/ \E kind \in Kind : BrowseStep(kind)

ThreadStep(r) == CheckFrequent(r) \/ Write(r) \/ WriteFails(r)

ReaderStep == OpenStream \/ ReadPage \/ SendEvent \/ StreamLost \/ Poll

Next ==
    \/ JobStep \/ AgentStep
    \/ \E r \in Run : ThreadStep(r)
    \/ ReaderStep

Spec == Init /\ [][Next]_vars

\* The page opens its stream, the generator goes on, a lost connection is
\* noticed, and polls go on after errors.
Fairness ==
    /\ WF_vars(OpenStream) /\ WF_vars(SendEvent \/ ReadPage)
    /\ WF_vars(stream.state = "ended" /\ StreamLost)
    /\ WF_vars(Poll)

FairSpec == Spec /\ Fairness
=============================================================================
