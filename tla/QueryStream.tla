----------------------------- MODULE QueryStream -----------------------------
(***************************************************************************)
(* One streamed query: QueryApiService.stream (services/query_api.py), the *)
(* task that runs the query, the task that takes its progress off a queue, *)
(* and the client, which may leave at any moment.                          *)
(*                                                                         *)
(* All of it runs on one asyncio event loop.  What a task does between two *)
(* suspensions is one action.  ready is the loop's queue of callbacks, run *)
(* in order: a step of the query ("run") or of the progress task           *)
(* ("getter"), the completion callback of asyncio.wait ("notify") and the  *)
(* stream's resumption from that wait ("wake").  What comes from outside   *)
(* the loop (I/O the query awaits, the client, a timer) may come at any    *)
(* time between them.  TracedQuery puts the actions together with the      *)
(* trace that is kept of the query.                                        *)
(***************************************************************************)
EXTENDS Naturals, Sequences, SequencesExt

CONSTANTS
    MaxEmits,           \* bound: progress events the query may emit
    SettlesInDatabase   \* the reservation is settled by a database call, as in
                        \* production; otherwise by the in-memory ledger

ASSUME SettlementAssumption == SettlesInDatabase \in BOOLEAN

Stage == <<"planning", "retrieving", "reranking", "recovering", "answering">>
Stages == ToSet(Stage)
Rank(stage) == CHOOSE i \in DOMAIN Stage : Stage[i] = stage

VARIABLES
    client,    \* "connected" or "gone"
    at,        \* where the generator is suspended
    ending,    \* why it waits for the cancelled query: "error" or "quiet"
    sent,      \* the events the client was sent, without heartbeats
    last,      \* rank of the last progress event
    runner,    \* the task that runs the query
    result,    \* how that task ended
    emitted,   \* what the query has emitted
    queue,     \* of that, what nobody has taken
    getter,    \* the progress task, or the stage it has taken; "none" when
               \* that stage has been delivered
    ready,     \* callbacks of the event loop
    woken      \* the present asyncio.wait has been woken

streamVars == <<at, ending, sent, last>>
taskVars == <<runner, result, emitted, queue, getter>>
loopVars == <<ready, woken>>
vars == <<client, streamVars, taskVars, loopVars>>

Yielding == {"yielding", "terminal"}
Terminal == {"completed", "error"}

Init ==
    /\ client = "connected"
    /\ at = "new" /\ ending = "none" /\ sent = <<>> /\ last = 0
    /\ runner = "none" /\ result = "none"
    /\ emitted = <<>> /\ queue = <<>> /\ getter = "none"
    /\ ready = <<>> /\ woken = FALSE

Holding == getter \in Stages
Notify(n) == [i \in 1 .. n |-> "notify"]

(* A task that ends calls back the wait that waits for it. *)
CallBack == IF at = "waiting" /\ ~woken THEN <<"notify">> ELSE <<>>

Cancelled(task) == IF task = "working" THEN "cancelling" ELSE task

-----------------------------------------------------------------------------
(* The query: BudgetedQueryRunner.run and what it calls. *)

(* What it awaits has come. *)
RunnerReady ==
    /\ runner = "working"
    /\ "run" \notin ToSet(ready)
    /\ ready' = Append(ready, "run")
    /\ UNCHANGED <<client, streamVars, taskVars, woken>>

(* It runs until it suspends or ends, emitting progress on the way.  put   *)
(* on the unbounded queue does not suspend; it schedules a getter that is  *)
(* blocked.  Settling in the database suspends the query after its last    *)
(* event, settling in memory does not.                                     *)
RunStep(stages, end) ==
    /\ ready # <<>> /\ Head(ready) = "run"
    /\ runner = "working"
    /\ end # "none" /\ SettlesInDatabase => stages = <<>>
    /\ Len(emitted) + Len(stages) <= MaxEmits
    /\ emitted' = emitted \o stages
    /\ queue' = queue \o stages
    /\ LET wakes == stages # <<>> /\ getter = "blocked"
       IN  /\ getter' = IF wakes THEN "scheduled" ELSE getter
           /\ ready' = Tail(ready) \o (IF wakes THEN <<"getter">> ELSE <<>>)
                                   \o (IF end # "none" THEN CallBack ELSE <<>>)
    /\ runner' = IF end # "none" THEN "done" ELSE "working"
    /\ result' = end
    /\ UNCHANGED <<client, streamVars, woken>>

(* A cancelled query settles its reservation and ends. *)
RunCancelled ==
    /\ runner = "cancelling"
    /\ runner' = "done"
    /\ result' = "cancelled"
    /\ UNCHANGED <<client, streamVars, emitted, queue, getter, loopVars>>

(* The progress task takes the next stage, or blocks until there is one. *)
GetterStep ==
    /\ ready # <<>>
    /\ Head(ready) = "getter"
    /\ IF getter = "scheduled" /\ queue # <<>>
       THEN /\ getter' = Head(queue)
            /\ queue' = Tail(queue)
            /\ ready' = Tail(ready) \o CallBack
       ELSE /\ getter' = IF getter = "scheduled" THEN "blocked" ELSE getter
            /\ ready' = Tail(ready)
            /\ UNCHANGED queue
    /\ UNCHANGED <<client, streamVars, runner, result, emitted, woken>>

-----------------------------------------------------------------------------
(* The generator. *)

Open ==
    /\ at = "new"
    /\ sent' = <<"accepted">>
    /\ at' = "yielding"
    /\ UNCHANGED <<client, ending, last, taskVars, loopVars>>

(* The client takes the event; the tasks are created after the first one,  *)
(* a new progress task after each progress event.                          *)
Resume ==
    /\ at = "yielding"
    /\ at' = "checking"
    /\ runner' = IF runner = "none" THEN "working" ELSE runner
    /\ getter' = IF getter = "none" THEN "scheduled" ELSE getter
    /\ ready' = ready \o (IF runner = "none" THEN <<"run">> ELSE <<>>)
                      \o (IF getter # getter' THEN <<"getter">> ELSE <<>>)
    /\ UNCHANGED <<client, ending, sent, last, result, emitted, queue, woken>>

(* Seeded bug: nobody asks whether the client has left. *)
CheckNothing ==
    /\ at = "checking"
    /\ at' = "waiting"
    /\ woken' = FALSE
    /\ ready' = ready \o Notify((IF runner = "done" THEN 1 ELSE 0)
                                + (IF Holding THEN 1 ELSE 0))
    /\ UNCHANGED <<client, ending, runner, sent, last, result, emitted, queue,
                   getter>>

(* The top of the loop: has the client left?  If not, wait for the query,  *)
(* for progress or for the heartbeat timer.                                *)
Check ==
    /\ at = "checking"
    /\ IF client = "gone"
       THEN /\ runner' = Cancelled(runner)
            /\ at' = "absorbing" /\ ending' = "quiet"
            /\ UNCHANGED loopVars
       ELSE /\ at' = "waiting"
            /\ woken' = FALSE
            /\ ready' = ready \o Notify((IF runner = "done" THEN 1 ELSE 0)
                                        + (IF Holding THEN 1 ELSE 0))
            /\ UNCHANGED <<ending, runner>>
    /\ UNCHANGED <<client, sent, last, result, emitted, queue, getter>>

(* A task the wait waits for is done, or its timer has run out. *)
Notified ==
    /\ ready # <<>>
    /\ Head(ready) = "notify"
    /\ IF at = "waiting" /\ ~woken
       THEN woken' = TRUE /\ ready' = Append(Tail(ready), "wake")
       ELSE ready' = Tail(ready) /\ UNCHANGED woken
    /\ UNCHANGED <<client, streamVars, taskVars>>

Timeout ==
    /\ at = "waiting" /\ ~woken
    /\ woken' = TRUE
    /\ ready' = Append(ready, "wake")
    /\ UNCHANGED <<client, streamVars, taskVars>>

Woken == ready # <<>> /\ Head(ready) = "wake" /\ ready' = Tail(ready)

(* Seeded bug: a stage may be reported twice. *)
DeliverRepeats ==
    /\ Woken
    /\ at = "waiting" /\ Holding
    /\ IF Rank(getter) < last
       THEN /\ runner' = Cancelled(runner)
            /\ at' = "absorbing" /\ ending' = "error"
            /\ UNCHANGED <<sent, last, getter>>
       ELSE /\ sent' = Append(sent, getter)
            /\ last' = Rank(getter)
            /\ getter' = "none"
            /\ at' = "yielding"
            /\ UNCHANGED <<ending, runner>>
    /\ UNCHANGED <<client, result, emitted, queue, woken>>

(* Progress that does not advance is an internal error. *)
Deliver ==
    /\ Woken
    /\ at = "waiting" /\ Holding
    /\ IF Rank(getter) <= last
       THEN /\ runner' = Cancelled(runner)
            /\ at' = "absorbing" /\ ending' = "error"
            /\ UNCHANGED <<sent, last, getter>>
       ELSE /\ sent' = Append(sent, getter)
            /\ last' = Rank(getter)
            /\ getter' = "none"
            /\ at' = "yielding"
            /\ UNCHANGED <<ending, runner>>
    /\ UNCHANGED <<client, result, emitted, queue, woken>>

(* The query has ended and no progress task is left to deliver. *)
Finish ==
    /\ Woken
    /\ at = "waiting" /\ ~Holding /\ runner = "done"
    /\ getter' = "cancelled"
    /\ sent' = Append(sent, IF result = "answer" THEN "completed" ELSE "error")
    /\ at' = "terminal"
    /\ UNCHANGED <<client, ending, last, runner, result, emitted, queue, woken>>

Beat ==
    /\ Woken
    /\ at = "waiting" /\ ~Holding /\ runner # "done"
    /\ at' = "yielding"
    /\ UNCHANGED <<client, ending, sent, last, taskVars, woken>>

(* The generator was abandoned, or the query cancelled, meanwhile. *)
WakeNobody ==
    /\ ready # <<>>
    /\ \/ Head(ready) = "wake" /\ at # "waiting"
       \/ Head(ready) = "run" /\ runner # "working"
    /\ ready' = Tail(ready)
    /\ UNCHANGED <<client, streamVars, taskVars, woken>>

(* The query it has cancelled is over. *)
Absorb ==
    /\ at = "absorbing" /\ runner = "done"
    /\ IF ending = "error"
       THEN sent' = Append(sent, "error") /\ at' = "terminal"
       ELSE at' = "unwinding" /\ UNCHANGED sent
    /\ UNCHANGED <<client, ending, last, taskVars, loopVars>>

Return ==
    /\ at = "terminal"
    /\ at' = "unwinding"
    /\ UNCHANGED <<client, ending, sent, last, taskVars, loopVars>>

(* The server closes the generator or cancels the task that iterates it.   *)
(* While it absorbs the end of the query, such a cancellation is absorbed  *)
(* with it.                                                                *)
Abandon ==
    /\ at \in {"checking", "waiting"} \cup Yielding
    /\ at' = "unwinding"
    /\ UNCHANGED <<client, ending, sent, last, taskVars, loopVars>>

(* Its finally clause: cancel the query, wait for it, cancel the getter. *)
Unwind ==
    /\ at = "unwinding"
    /\ IF runner \in {"none", "done"}
       THEN /\ at' = "closed"
            /\ getter' = IF getter \in {"scheduled", "blocked"}
                         THEN "cancelled" ELSE getter
            /\ UNCHANGED runner
       ELSE /\ runner = "working"
            /\ runner' = "cancelling"
            /\ UNCHANGED <<at, getter>>
    /\ UNCHANGED <<client, ending, sent, last, result, emitted, queue, loopVars>>

Leave ==
    /\ client = "connected"
    /\ client' = "gone"
    /\ UNCHANGED <<streamVars, taskVars, loopVars>>

Run ==
    \E n \in 0 .. 2 : \E stages \in [1 .. n -> Stages] :
        \E end \in {"none", "answer", "failure"} : RunStep(stages, end)

EventLoop == Run \/ GetterStep \/ Notified \/ WakeNobody

-----------------------------------------------------------------------------
Told == sent # <<>> /\ Last(sent) \in Terminal

(* What was sent between the acceptance and the outcome. *)
Progress == SubSeq(sent, 2, IF Told THEN Len(sent) - 1 ELSE Len(sent))

(* The order promised to clients: accepted, then advancing progress, then  *)
(* at most one of completed and error, and nothing after it.               *)
InOrder ==
    /\ sent # <<>> => sent[1] = "accepted"
    /\ \A i \in DOMAIN Progress : Progress[i] \in Stages
    /\ \A i, j \in DOMAIN Progress : i < j => Rank(Progress[i]) < Rank(Progress[j])

(* Progress is delivered in the order it was emitted, and all of it before *)
(* the terminal event, however late the stream gets to see it: an event is *)
(* left out only after one that does not advance.                          *)
NothingSkipped ==
    /\ IsPrefix(Progress, emitted)
    /\ Told =>
        \/ Progress = emitted
        \/ Rank(emitted[Len(Progress) + 1]) <= last

(* A client reads the events of its query in order, and misses none.       *)
StreamContract == InOrder /\ NothingSkipped

=============================================================================
