------------------------- MODULE LiveEventsProperties -------------------------
(***************************************************************************)
(* What the live page promises to who watches a job.                       *)
(***************************************************************************)
EXTENDS LiveEvents

(* The page is given every event once, in order and without a gap, over the *)
(* stream and the polls that follow a lost connection; and a stream that    *)
(* ended by itself has sent everything up to the end of the job             *)
(* (stream_pipeline_job_events, subscribePipelineLiveEvents).               *)
NothingIsMissed ==
    /\ got = 1..LastSequence
    /\ stream.state = "ended" => Types({"lifecycle"}) \subseteq got

(* A page that follows a job whose end was recorded learns of it and stops, *)
(* even when the stream breaks off before.                                  *)
EndIsLearned == Types({"lifecycle"}) # {} ~> client = "stopped"

(* The records of a run are written in the order of its steps, whatever is  *)
(* dropped, fails or comes late from an earlier run; a run that ended by    *)
(* itself has its last record behind the steps that still wait, which never *)
(* take its place (a cancelled run makes none); and the limit of frequent   *)
(* events is passed by late threads only (_OrderedBrowseTelemetry,          *)
(* BrowseAgent.run, _record).                                               *)
RunsAreTold ==
    /\ \A i, j \in DOMAIN events :
          i < j /\ events[i].run = events[j].run /\ events[i].run # 0 =>
              events[i].step < events[j].step
    /\ browse = "closing" /\ queue # << >> => queue[Len(queue)].type = "done"
    /\ Frequent <= MaxFrequent + run

(* A decision is told as pending and then, once, as what the checkpoint     *)
(* became, though records are skipped and asked for again                   *)
(* (_record_checkpoint_decision).                                           *)
DecisionIsTold ==
    LET told == Types(Terminal \cup {"pending"})
    IN  /\ \A i \in told : events[i] \in {Plain("pending"), Plain(checkpoint)}
        /\ \A i, j \in told : events[i].type = events[j].type => i = j
        /\ \A j \in told : events[j].type # "pending" =>
               \E i \in told : i < j /\ events[i].type = "pending"
=============================================================================
