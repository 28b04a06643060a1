----------------------------- MODULE TracedQuery -----------------------------
(***************************************************************************)
(* A query and the trace that is kept of it: KnowledgeApplication          *)
(* (services/knowledge.py) around the stream of QueryStream, or around a   *)
(* plain call; the exporter that buffers the spans that have ended         *)
(* (observability/exporter.py); TraceService.record, which takes them out  *)
(* of the buffer and stores them.                                          *)
(*                                                                         *)
(* The application's generator hands every event of the stream on, so it   *)
(* is suspended at a yield of its own exactly when the stream is.  A       *)
(* generator abandoned there ends its trace at once, while the stream and  *)
(* the query underneath are closed by tasks of their own, later; one       *)
(* cancelled while it waits for the stream ends after it.                  *)
(*                                                                         *)
(* The query ends one span per stage it has left; its root span is ended   *)
(* by the application.  The buffer holds the spans of MaxTraces traces at  *)
(* most and drops the one that has exported nothing for longest; of the    *)
(* other traces only those that exported after this one matter.            *)
(***************************************************************************)
EXTENDS QueryStream

CONSTANTS
    MaxSpans,    \* max_spans_per_trace of the exporter
    MaxTraces    \* max_traces of the exporter

ASSUME BufferAssumption == MaxSpans \in Nat \ {0} /\ MaxTraces \in Nat \ {0}

VARIABLES
    via,      \* how the query was asked: "stream" or "call"
    outer,    \* what the application is doing with it
    status,   \* trace_status: the outcome the trace will tell
    kept,     \* number of the query's spans in the buffer
    later,    \* other traces in the buffer that exported after this one
    lost,     \* spans of the query the buffer has dropped
    taken     \* what record has taken out of the buffer

bufferVars == <<kept, later, lost>>
traceVars == <<via, outer, status, bufferVars, taken>>
tracedVars == <<vars, traceVars>>

NotTaken == [stages |-> 0, root |-> FALSE]
Settled == {"stored", "lost"}

TracedInit ==
    /\ Init
    /\ via = "none" /\ outer = "idle" /\ status = "cancelled"
    /\ kept = 0 /\ later = 0 /\ lost = 0
    /\ taken = NotTaken

-----------------------------------------------------------------------------
(* The exporter. *)

(* Spans the query has ended: the present stage has not, while it runs. *)
Ended == Len(emitted)
         - (IF runner \in {"working", "cancelling"} /\ emitted # <<>> THEN 1 ELSE 0)

(* n spans of the query are exported: those that fit are kept, and the     *)
(* trace is the buffer's youngest.                                         *)
Export(n) ==
    IF n = 0
    THEN UNCHANGED bufferVars
    ELSE /\ kept' = IF kept + n < MaxSpans THEN kept + n ELSE MaxSpans
         /\ lost' = lost + n - (kept' - kept)
         /\ later' = 0

(* Another trace exports; once MaxTraces have since this one last did, it  *)
(* is the oldest of too many.                                              *)
OtherExports ==
    /\ kept > 0
    /\ IF later + 1 < MaxTraces
       THEN later' = later + 1 /\ UNCHANGED <<kept, lost>>
       ELSE later' = 0 /\ kept' = 0 /\ lost' = lost + kept
    /\ UNCHANGED <<vars, via, outer, status, taken>>

(* Another trace is recorded, and leaves the buffer. *)
OtherTaken ==
    /\ later > 0
    /\ later' = later - 1
    /\ UNCHANGED <<vars, via, outer, status, kept, lost, taken>>

-----------------------------------------------------------------------------
(* The application. *)

(* The root span ends, which exports it, and record takes the trace's      *)
(* spans before anything else can run.                                     *)
EndTrace ==
    /\ outer' = "recording"
    /\ taken' = [stages |-> kept, root |-> kept < MaxSpans]
    /\ kept' = 0 /\ later' = 0
    /\ UNCHANGED <<via, status, lost>>

StartStream ==
    /\ outer = "idle"
    /\ Open
    /\ via' = "stream" /\ outer' = "observing"
    /\ UNCHANGED <<status, bufferVars, taken>>

(* What the query and the event loop do; the spans that end meanwhile are  *)
(* exported.  A query that is called, not streamed, reports no progress.   *)
QueryStep ==
    /\ RunnerReady \/ RunCancelled \/ EventLoop
    /\ via = "call" => emitted' = emitted
    /\ Export(Ended' - Ended)
    /\ UNCHANGED <<via, outer, status, taken>>

(* The stream goes on; an event that does not end it is handed on. *)
PassOn ==
    /\ Resume \/ Check \/ Deliver \/ Beat \/ Return \/ Unwind
    /\ UNCHANGED traceVars

TimerFires == Timeout /\ UNCHANGED traceVars

ClientLeaves == via = "stream" /\ Leave /\ UNCHANGED traceVars

StatusOf(event) == IF event = "completed" THEN "answered" ELSE "error"

(* Seeded bug: only an answer is noted. *)
HandOnEndIfAnswered ==
    /\ Finish \/ Absorb
    /\ status' = IF sent' # sent /\ StatusOf(Last(sent')) = "answered"
                 THEN "answered" ELSE status
    /\ UNCHANGED <<via, outer, bufferVars, taken>>

(* The terminal event is noted before it is handed on. *)
HandOnEnd ==
    /\ Finish \/ Absorb
    /\ status' = IF sent' # sent THEN StatusOf(Last(sent')) ELSE status
    /\ UNCHANGED <<via, outer, bufferVars, taken>>

(* The server gives up the generators while they wait: the cancellation    *)
(* reaches the stream first.                                               *)
AbandonWaiting ==
    /\ at \notin Yielding
    /\ Abandon
    /\ UNCHANGED traceVars

(* It gives them up at a yield: the outermost ends first. *)
AbandonYielding ==
    /\ at \in Yielding
    /\ Abandon
    /\ EndTrace

(* The stream it iterates is over. *)
StreamOver ==
    /\ outer = "observing" /\ at = "closed"
    /\ EndTrace
    /\ UNCHANGED vars

(* execute: the query runs in the caller's task. *)
Call ==
    /\ outer = "idle"
    /\ via' = "call" /\ outer' = "calling"
    /\ runner' = "working" /\ ready' = <<"run">>
    /\ UNCHANGED <<client, streamVars, result, emitted, queue, getter, woken,
                   status, bufferVars, taken>>

CancelCall ==
    /\ outer = "calling" /\ runner = "working"
    /\ runner' = "cancelling"
    /\ UNCHANGED <<client, streamVars, result, emitted, queue, getter, loopVars,
                   traceVars>>

(* A call that is cancelled or fails keeps the status it began with. *)
CallOver ==
    /\ outer = "calling" /\ runner = "done"
    /\ outer' = "recording"
    /\ status' = IF result = "answer" THEN "answered" ELSE "error"
    /\ taken' = [stages |-> kept, root |-> kept < MaxSpans]
    /\ kept' = 0 /\ later' = 0
    /\ UNCHANGED <<vars, via, lost>>

(* persist: one attempt.  A failure is logged and forgotten, and a         *)
(* cancellation of the recording task loses the trace as well.             *)
Persist ==
    /\ outer = "recording"
    /\ outer' \in Settled
    /\ UNCHANGED <<vars, via, status, bufferVars, taken>>

Traced ==
    \/ StartStream \/ PassOn \/ HandOnEnd
    \/ StreamOver \/ Call \/ CallOver \/ Persist

TracedNext ==
    \/ Traced
    \/ QueryStep
    \/ TimerFires
    \/ AbandonWaiting \/ AbandonYielding
    \/ CancelCall
    \/ ClientLeaves
    \/ OtherExports \/ OtherTaken

Spec == TracedInit /\ [][TracedNext]_tracedVars

(* The event loop runs what is ready, the timer fires, a cancelled query   *)
(* ends, the client (or the server in its place) takes what it is sent,    *)
(* and the database answers the recording, well or badly.  Nothing is      *)
(* assumed of what a query that is not cancelled awaits.                   *)
FairSpec ==
    /\ Spec
    /\ WF_tracedVars(PassOn \/ HandOnEnd \/ StartStream)
    /\ WF_tracedVars(QueryStep /\ (EventLoop \/ RunCancelled))
    /\ WF_tracedVars(TimerFires)
    /\ WF_tracedVars(StreamOver) /\ WF_tracedVars(CallOver)
    /\ WF_tracedVars(Persist)

-----------------------------------------------------------------------------
(* The outcome a trace records is the one the client was told: the         *)
(* terminal event of its stream, or "cancelled" when none was sent; an     *)
(* answer or an error of a call.                                           *)
OutcomeIsTold ==
    outer \in {"recording"} \cup Settled =>
        IF via = "stream"
        THEN status = IF Told THEN StatusOf(Last(sent)) ELSE "cancelled"
        ELSE status = IF result = "answer" THEN "answered" ELSE "error"

(* A trace that tells an outcome was taken after the query had ended its   *)
(* last span: what it lacks the buffer had dropped, and nothing of it is   *)
(* left in the buffer, where nobody would take it.  Of a cancelled stream  *)
(* this is not so: its spans may end after its trace.                      *)
OutcomeHasWholeTrace ==
    outer \in {"recording"} \cup Settled /\ status # "cancelled" =>
        /\ taken.stages + lost = Len(emitted)
        /\ taken.root \/ taken.stages = MaxSpans
        /\ kept = 0 /\ runner = "done"

(* The stored trace of a query agrees with what its client saw.            *)
TraceTellsOutcome == OutcomeIsTold /\ OutcomeHasWholeTrace

(* A client that leaves ends the stream, and with it the query, even one   *)
(* that would never end or emit by itself; neither task of the stream is   *)
(* left, and its trace is stored or given up.                              *)
LeavingSettlesAll ==
    (via = "stream" /\ client = "gone") ~>
        /\ at = "closed" /\ runner \in {"none", "done"}
        /\ outer \in Settled
=============================================================================
