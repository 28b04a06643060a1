--------------------------- MODULE TracedQuery_proofs ---------------------------
(***************************************************************************)
(* A stream and its trace, for any number of events and any sizes of the   *)
(* exporter's buffer.  Why no event is lost although the end of the query  *)
(* and its last event reach the stream by different callbacks is a matter  *)
(* of their order in the event loop: Callbacks says what that order is.    *)
(***************************************************************************)
EXTENDS TracedQuery, SequenceTheorems, TLAPS

Place == {"new", "yielding", "checking", "waiting", "absorbing", "terminal",
          "unwinding", "closed"}
Event == {"accepted"} \cup Stages \cup Terminal
CallbackKind == {"run", "getter", "notify", "wake"}
Serving == {"yielding", "checking", "waiting"}
Over == {"recording"} \cup Settled

TypeOK ==
    /\ at \in Place
    /\ runner \in {"none", "working", "cancelling", "done"}
    /\ getter \in {"none", "scheduled", "blocked", "cancelled"} \cup Stages
    /\ sent \in Seq(Event) /\ emitted \in Seq(Stages) /\ queue \in Seq(Stages)
    /\ ready \in Seq(CallbackKind)
    /\ last \in Nat /\ kept \in 0 .. MaxSpans /\ lost \in Nat
    /\ via \in {"none", "stream", "call"}
    /\ outer \in {"idle", "observing", "calling"} \cup Over

(* Progress advances up to the last event sent. *)
SentInOrder ==
    /\ sent # <<>> => sent[1] = "accepted"
    /\ \A i \in DOMAIN Progress : Progress[i] \in Stages /\ Rank(Progress[i]) <= last
    /\ \A i, j \in DOMAIN Progress : i < j => Rank(Progress[i]) < Rank(Progress[j])

(* How far the generator, its two tasks and the application have come.     *)
Phases ==
    /\ at = "new" <=> sent = <<>>
    /\ Told => at \in {"terminal", "unwinding", "closed"} /\ runner = "done"
    /\ at \in {"checking", "waiting"} => runner # "none" /\ getter # "none"
    /\ at \in Serving => runner # "cancelling" /\ getter # "cancelled"
    /\ at = "new" => getter = "none"
    /\ runner = "none" => emitted = <<>>
    /\ outer = "idle" <=> via = "none"
    /\ via = "none" => at = "new" /\ runner = "none"
    /\ via = "call" => at = "new"
    /\ via = "stream" => at # "new"
    /\ at \notin {"new", "unwinding", "closed"} => outer = "observing"
    /\ outer = "observing" => via = "stream"
    /\ outer = "calling" => via = "call"
    /\ outer \in Over /\ via = "call" => runner = "done"

HeldOf(g) == IF g \in Stages THEN <<g>> ELSE <<>>

(* What the query emitted was sent, is held or is queued, in this order;   *)
(* what is held back at the end does not advance.                          *)
Delivered ==
    /\ emitted = (Progress \o HeldOf(getter)) \o queue
    /\ at = "absorbing" /\ ending = "error" => Holding /\ Rank(getter) <= last
    /\ Told => Progress = emitted \/ (Holding /\ Rank(getter) <= last)

(* The stream is woken at most once and only from its wait.  A progress    *)
(* task with work to do is scheduled, and where the query is over, or will *)
(* be before the stream wakes, it runs before the stream wakes.            *)
OneRunOneWake ==
    \A i, j \in DOMAIN ready : ready[i] = ready[j] /\ ready[i] \in {"run", "wake"} => i = j

RunOfQuery == runner = "none" => \A i \in DOMAIN ready : ready[i] # "run"

WakeOfWait ==
    \A i \in DOMAIN ready : ready[i] = "wake" =>
        (at = "waiting" /\ woken) \/ at \in {"unwinding", "closed"}

GetterRuns ==
    /\ getter = "scheduled" => \E k \in DOMAIN ready : ready[k] = "getter"
    /\ getter = "blocked" => queue = <<>>

GetterFirst ==
    getter = "scheduled" /\ at = "waiting" =>
        \A i \in DOMAIN ready :
            ready[i] = "wake" /\ (runner = "done" \/ \E r \in 1 .. i - 1 : ready[r] = "run")
                => \E k \in 1 .. i - 1 : ready[k] = "getter"

Callbacks == OneRunOneWake /\ RunOfQuery /\ WakeOfWait /\ GetterRuns /\ GetterFirst

StatusTold ==
    /\ via = "none" => status = "cancelled"
    /\ via = "stream" => status = IF Told THEN StatusOf(Last(sent)) ELSE "cancelled"
    /\ via = "call" /\ outer \in Over =>
          status = IF result = "answer" THEN "answered" ELSE "error"

(* Until the trace is taken, every span that ended is kept or was dropped. *)
Accounted ==
    /\ outer \notin Over => kept + lost = Ended
    /\ OutcomeHasWholeTrace

(* What makes the trace tell the outcome, ... *)
TraceInv == TypeOK /\ SentInOrder /\ Phases /\ StatusTold /\ Accounted

(* ... and what makes the stream tell it after all of the progress. *)
IInv == TraceInv /\ Delivered /\ Callbacks

-----------------------------------------------------------------------------
(* The stages have ranks and are no other event or state. *)
LEMMA StagesAre ==
    /\ Stages = {"planning", "retrieving", "reranking", "recovering", "answering"}
    /\ \A stage \in Stages : Rank(stage) \in 1 .. 5
<1>1. Stages = {"planning", "retrieving", "reranking", "recovering", "answering"}
  <2>1. DOMAIN Stage = 1 .. 5
      BY DEF Stage
  <2>2. /\ Stage[1] = "planning" /\ Stage[2] = "retrieving" /\ Stage[3] = "reranking"
        /\ Stage[4] = "recovering" /\ Stage[5] = "answering"
      BY DEF Stage
  <2> QED BY <2>1, <2>2 DEF Stages, ToSet
<1>2. \A stage \in Stages : \E i \in 1 .. 5 : Stage[i] = stage
    BY DEF Stages, ToSet, Stage
<1>3. DOMAIN Stage = 1 .. 5
    BY DEF Stage
<1> QED BY <1>1, <1>2, <1>3 DEF Rank

ToldOf(s) == s # <<>> /\ Last(s) \in Terminal
ProgressOf(s) == SubSeq(s, 2, IF ToldOf(s) THEN Len(s) - 1 ELSE Len(s))

LEMMA Views ==
    /\ Progress = ProgressOf(sent) /\ Progress' = ProgressOf(sent')
    /\ Told <=> ToldOf(sent)
    /\ Told' <=> ToldOf(sent')
BY DEF Progress, ProgressOf, Told, ToldOf

(* The progress among the events s that were sent. *)
LEMMA ProgressIs ==
    ASSUME NEW s \in Seq(Event), s # <<>>, s[1] = "accepted"
    PROVE  /\ ProgressOf(s) \in Seq(Event)
           /\ Len(ProgressOf(s)) = IF ToldOf(s) THEN Len(s) - 2 ELSE Len(s) - 1
           /\ \A i \in 1 .. Len(ProgressOf(s)) : ProgressOf(s)[i] = s[i + 1]
<1> DEFINE e == IF ToldOf(s) THEN Len(s) - 1 ELSE Len(s)
<1>1. Len(s) \in Nat \ {0}
    BY EmptySeq
<1>2. ToldOf(s) => Len(s) >= 2
  <2>1. Len(s) = 1 => Last(s) = "accepted"
      BY DEF Last
  <2>2. Len(s) = 1 \/ Len(s) >= 2
    <3>1. \A n \in Nat \ {0} : n = 1 \/ n >= 2
        OBVIOUS
    <3> QED BY <1>1, <3>1
  <2>3. "accepted" \notin Terminal
      BY DEF Terminal
  <2> QED BY <2>1, <2>2, <2>3 DEF ToldOf
<1>3. e \in 1 .. Len(s)
    BY <1>1, <1>2
<1>4. \A i \in 2 .. e : s[i] \in Event
    BY <1>1, <1>3, ElementOfSeq
<1> HIDE DEF e
<1>5. /\ SubSeq(s, 2, e) \in Seq(Event)
      /\ Len(SubSeq(s, 2, e)) = IF 2 <= e THEN e - 2 + 1 ELSE 0
      /\ \A i \in 1 .. e - 2 + 1 : SubSeq(s, 2, e)[i] = s[2 + i - 1]
    BY <1>1, <1>3, <1>4, SubSeqProperties
<1>6. Len(SubSeq(s, 2, e)) = e - 1
    BY <1>1, <1>3, <1>5
<1>7. \A i \in 1 .. e - 1 : SubSeq(s, 2, e)[i] = s[i + 1]
  <2> SUFFICES ASSUME NEW i \in 1 .. e - 1  PROVE SubSeq(s, 2, e)[i] = s[i + 1]
      OBVIOUS
  <2>1. i \in 1 .. e - 2 + 1 /\ 2 + i - 1 = i + 1
      BY <1>1, <1>3
  <2> QED BY <1>5, <2>1
<1>8. ProgressOf(s) = SubSeq(s, 2, e)
    BY DEF ProgressOf, e
<1>9. e - 1 = IF ToldOf(s) THEN Len(s) - 2 ELSE Len(s) - 1
    BY <1>1 DEF e
<1> QED BY <1>5, <1>6, <1>7, <1>8, <1>9

LEMMA NoProgress == ProgressOf(<<>>) = <<>> /\ ProgressOf(<<"accepted">>) = <<>>
<1>1. ~ToldOf(<<>>) /\ ~ToldOf(<<"accepted">>)
    BY DEF ToldOf, Last, Terminal
<1>2. SubSeq(<<>>, 2, 0) = <<>> /\ SubSeq(<<"accepted">>, 2, 1) = <<>>
    BY SubSeqEmpty
<1> QED BY <1>1, <1>2 DEF ProgressOf

(* A stage is sent: progress grows by it. *)
LEMMA SendStage ==
    ASSUME NEW s \in Seq(Event), s # <<>>, s[1] = "accepted", ~ToldOf(s), NEW stage \in Stages
    PROVE  /\ Append(s, stage) \in Seq(Event) /\ Append(s, stage) # <<>>
           /\ Append(s, stage)[1] = "accepted"
           /\ ~ToldOf(Append(s, stage))
           /\ ProgressOf(Append(s, stage)) = Append(ProgressOf(s), stage)
<1> DEFINE t == Append(s, stage)
<1>1. Len(s) \in Nat \ {0} /\ stage \in Event /\ stage \notin Terminal
    BY EmptySeq, StagesAre DEF Event, Terminal
<1>2. /\ t \in Seq(Event) /\ t # <<>> /\ Len(t) = Len(s) + 1
      /\ \A i \in 1 .. Len(s) : t[i] = s[i]
      /\ t[Len(s) + 1] = stage
    BY <1>1, AppendProperties
<1>3. t[1] = "accepted" /\ ~ToldOf(t)
    BY <1>1, <1>2 DEF ToldOf, Last
<1> HIDE DEF t
<1>4. /\ ProgressOf(t) \in Seq(Event) /\ Len(ProgressOf(t)) = Len(s)
      /\ \A i \in 1 .. Len(s) : ProgressOf(t)[i] = t[i + 1]
    BY <1>1, <1>2, <1>3, ProgressIs
<1>5. /\ ProgressOf(s) \in Seq(Event) /\ Len(ProgressOf(s)) = Len(s) - 1
      /\ \A i \in 1 .. Len(s) - 1 : ProgressOf(s)[i] = s[i + 1]
    BY ProgressIs
<1>6. /\ Append(ProgressOf(s), stage) \in Seq(Event)
      /\ Len(Append(ProgressOf(s), stage)) = Len(s)
      /\ \A i \in 1 .. Len(s) - 1 : Append(ProgressOf(s), stage)[i] = s[i + 1]
      /\ Append(ProgressOf(s), stage)[Len(s)] = stage
  <2> DEFINE p == ProgressOf(s)
  <2>1. p \in Seq(Event) /\ Len(p) = Len(s) - 1 /\ \A i \in 1 .. Len(p) : p[i] = s[i + 1]
      BY <1>5
  <2> HIDE DEF p
  <2>2. /\ Append(p, stage) \in Seq(Event) /\ Len(Append(p, stage)) = Len(p) + 1
        /\ \A i \in 1 .. Len(p) : Append(p, stage)[i] = p[i]
        /\ Append(p, stage)[Len(p) + 1] = stage
      BY <1>1, <2>1, AppendProperties
  <2>3. Len(Append(p, stage)) = Len(s) /\ Append(p, stage)[Len(s)] = stage
      BY <1>1, <2>1, <2>2
  <2>4. \A i \in 1 .. Len(s) - 1 : Append(p, stage)[i] = s[i + 1]
      BY <2>1, <2>2
  <2> QED BY <2>2, <2>3, <2>4 DEF p
<1>7. \A i \in 1 .. Len(s) : ProgressOf(t)[i] = Append(ProgressOf(s), stage)[i]
  <2> SUFFICES ASSUME NEW i \in 1 .. Len(s)
               PROVE  ProgressOf(t)[i] = Append(ProgressOf(s), stage)[i]
      OBVIOUS
  <2>1. i = Len(s) \/ i \in 1 .. Len(s) - 1
      BY <1>1
  <2>2. i \in 1 .. Len(s) - 1 => i + 1 \in 1 .. Len(s)
      BY <1>1
  <2> QED BY <1>2, <1>4, <1>6, <2>1, <2>2
<1>8. ProgressOf(t) = Append(ProgressOf(s), stage)
    BY <1>4, <1>6, <1>7, SeqEqual
<1> QED BY <1>2, <1>3, <1>8 DEF t

(* The outcome is sent: progress stays as it is. *)
LEMMA SendEnd ==
    ASSUME NEW s \in Seq(Event), s # <<>>, s[1] = "accepted", ~ToldOf(s), NEW end \in Terminal
    PROVE  /\ Append(s, end) \in Seq(Event) /\ Append(s, end) # <<>>
           /\ Append(s, end)[1] = "accepted"
           /\ ToldOf(Append(s, end)) /\ Last(Append(s, end)) = end
           /\ ProgressOf(Append(s, end)) = ProgressOf(s)
<1> DEFINE t == Append(s, end)
<1>1. Len(s) \in Nat \ {0} /\ end \in Event
    BY EmptySeq DEF Event
<1>2. /\ t \in Seq(Event) /\ t # <<>> /\ Len(t) = Len(s) + 1
      /\ \A i \in 1 .. Len(s) : t[i] = s[i]
      /\ t[Len(s) + 1] = end
    BY <1>1, AppendProperties
<1>3. t[1] = "accepted" /\ ToldOf(t) /\ Last(t) = end
    BY <1>1, <1>2 DEF ToldOf, Last
<1> HIDE DEF t
<1>4. /\ ProgressOf(t) \in Seq(Event) /\ Len(ProgressOf(t)) = Len(s) - 1
      /\ \A i \in 1 .. Len(s) - 1 : ProgressOf(t)[i] = t[i + 1]
  <2>1. Len(t) - 2 = Len(s) - 1
      BY <1>1, <1>2
  <2> QED BY <1>2, <1>3, <2>1, ProgressIs
<1>5. /\ ProgressOf(s) \in Seq(Event) /\ Len(ProgressOf(s)) = Len(s) - 1
      /\ \A i \in 1 .. Len(s) - 1 : ProgressOf(s)[i] = s[i + 1]
    BY ProgressIs
<1>6. \A i \in 1 .. Len(s) - 1 : ProgressOf(t)[i] = ProgressOf(s)[i]
  <2> SUFFICES ASSUME NEW i \in 1 .. Len(s) - 1  PROVE ProgressOf(t)[i] = ProgressOf(s)[i]
      OBVIOUS
  <2>1. i + 1 \in 1 .. Len(s)
      BY <1>1
  <2> QED BY <1>2, <1>4, <1>5, <2>1
<1>7. ProgressOf(t) = ProgressOf(s)
    BY <1>4, <1>5, <1>6, SeqEqual
<1> QED BY <1>2, <1>3, <1>7 DEF t
-----------------------------------------------------------------------------
(* The loop's queue r after its first callback ran and called for others,  *)
(* x, is t.                                                                *)
Shifted(r, x, t) ==
    /\ t \in Seq(CallbackKind)
    /\ DOMAIN r = 1 .. Len(r) /\ Len(r) \in Nat \ {0}
    /\ \A i \in DOMAIN t :
          \/ i \in 1 .. Len(r) - 1 /\ i + 1 \in DOMAIN r /\ t[i] = r[i + 1]
          \/ i \in Nat /\ i >= Len(r) /\ i + 1 - Len(r) \in DOMAIN x /\ t[i] = x[i + 1 - Len(r)]
    /\ \A i \in 2 .. Len(r) : i - 1 \in DOMAIN t /\ t[i - 1] = r[i]
    /\ \A k \in DOMAIN x : \E i \in DOMAIN t : t[i] = x[k]

(* r after x was scheduled is t. *)
Extended(r, x, t) ==
    /\ t \in Seq(CallbackKind)
    /\ DOMAIN r = 1 .. Len(r) /\ Len(r) \in Nat
    /\ \A i \in DOMAIN t :
          \/ i \in DOMAIN r /\ t[i] = r[i]
          \/ i \in Nat /\ i > Len(r) /\ i - Len(r) \in DOMAIN x /\ t[i] = x[i - Len(r)]
    /\ \A i \in DOMAIN r : i \in DOMAIN t /\ t[i] = r[i]
    /\ \A k \in DOMAIN x : \E i \in DOMAIN t : t[i] = x[k]

LEMMA AfterFirst ==
    ASSUME NEW r \in Seq(CallbackKind), r # <<>>, NEW x \in Seq(CallbackKind), NEW t,
           t = Tail(r) \o x
    PROVE  Shifted(r, x, t)
<1>1. /\ Tail(r) \in Seq(CallbackKind) /\ Len(Tail(r)) = Len(r) - 1
      /\ \A i \in 1 .. Len(Tail(r)) : Tail(r)[i] = r[i + 1]
      /\ Len(r) \in Nat \ {0} /\ DOMAIN r = 1 .. Len(r)
    BY HeadTailProperties, EmptySeq
<1>2. /\ t \in Seq(CallbackKind) /\ Len(t) = Len(r) - 1 + Len(x)
      /\ \A i \in 1 .. Len(Tail(r)) + Len(x) :
            t[i] = IF i <= Len(Tail(r)) THEN Tail(r)[i] ELSE x[i - Len(Tail(r))]
      /\ DOMAIN t = 1 .. Len(t) /\ Len(x) \in Nat /\ DOMAIN x = 1 .. Len(x)
    BY <1>1, ConcatProperties, LenProperties
<1>3. ASSUME NEW i \in DOMAIN t
      PROVE  \/ i \in 1 .. Len(r) - 1 /\ i + 1 \in DOMAIN r /\ t[i] = r[i + 1]
             \/ i \in Nat /\ i >= Len(r) /\ i + 1 - Len(r) \in DOMAIN x /\ t[i] = x[i + 1 - Len(r)]
  <2>1. CASE i <= Len(r) - 1
    <3>1. i \in 1 .. Len(r) - 1 /\ i + 1 \in 1 .. Len(r) /\ i \in 1 .. Len(Tail(r)) + Len(x)
        BY <1>1, <1>2, <2>1
    <3> QED BY <1>1, <1>2, <2>1, <3>1
  <2>2. CASE ~(i <= Len(r) - 1)
    <3>1. /\ i - Len(Tail(r)) \in 1 .. Len(x) /\ i \in 1 .. Len(Tail(r)) + Len(x)
          /\ i - Len(Tail(r)) = i + 1 - Len(r) /\ i >= Len(r) /\ i \in Nat
        BY <1>1, <1>2, <2>2
    <3> QED BY <1>1, <1>2, <2>2, <3>1
  <2> QED BY <2>1, <2>2
<1>4. ASSUME NEW i \in 2 .. Len(r)  PROVE i - 1 \in DOMAIN t /\ t[i - 1] = r[i]
  <2>1. /\ i - 1 \in 1 .. Len(Tail(r)) /\ i - 1 \in 1 .. Len(Tail(r)) + Len(x)
        /\ i - 1 <= Len(Tail(r)) /\ (i - 1) + 1 = i
      BY <1>1, <1>2
  <2>2. i - 1 \in DOMAIN t
      BY <1>1, <1>2
  <2> QED BY <1>1, <1>2, <2>1, <2>2
<1>5. ASSUME NEW k \in DOMAIN x  PROVE \E i \in DOMAIN t : t[i] = x[k]
  <2> DEFINE i == Len(Tail(r)) + k
  <2>1. /\ i \in 1 .. Len(Tail(r)) + Len(x) /\ ~(i <= Len(Tail(r))) /\ i - Len(Tail(r)) = k
        /\ i \in DOMAIN t
      BY <1>1, <1>2
  <2> QED BY <1>2, <2>1
<1> QED BY <1>1, <1>2, <1>3, <1>4, <1>5 DEF Shifted

LEMMA AfterMore ==
    ASSUME NEW r \in Seq(CallbackKind), NEW x \in Seq(CallbackKind), NEW t, t = r \o x
    PROVE  Extended(r, x, t)
<1>1. /\ t \in Seq(CallbackKind) /\ Len(t) = Len(r) + Len(x)
      /\ \A i \in 1 .. Len(r) + Len(x) : t[i] = IF i <= Len(r) THEN r[i] ELSE x[i - Len(r)]
      /\ DOMAIN t = 1 .. Len(t) /\ Len(x) \in Nat /\ DOMAIN x = 1 .. Len(x)
      /\ Len(r) \in Nat /\ DOMAIN r = 1 .. Len(r)
    BY ConcatProperties, LenProperties
<1>2. ASSUME NEW i \in DOMAIN t
      PROVE  \/ i \in DOMAIN r /\ t[i] = r[i]
             \/ i \in Nat /\ i > Len(r) /\ i - Len(r) \in DOMAIN x /\ t[i] = x[i - Len(r)]
  <2>1. CASE i <= Len(r)
      BY <1>1, <2>1
  <2>2. CASE ~(i <= Len(r))
    <3>1. i - Len(r) \in 1 .. Len(x) /\ i > Len(r) /\ i \in Nat
        BY <1>1, <2>2
    <3> QED BY <1>1, <2>2, <3>1
  <2> QED BY <2>1, <2>2
<1>3. ASSUME NEW i \in DOMAIN r  PROVE i \in DOMAIN t /\ t[i] = r[i]
    BY <1>1
<1>4. ASSUME NEW k \in DOMAIN x  PROVE \E i \in DOMAIN t : t[i] = x[k]
  <2> DEFINE i == Len(r) + k
  <2>1. i \in 1 .. Len(r) + Len(x) /\ ~(i <= Len(r)) /\ i - Len(r) = k /\ i \in DOMAIN t
      BY <1>1
  <2> QED BY <1>1, <2>1
<1> QED BY <1>1, <1>2, <1>3, <1>4 DEF Extended
-----------------------------------------------------------------------------
(* Steps that leave the loop's queue alone and call the stream to nothing. *)
LEMMA QuietLoop ==
    ASSUME IInv, UNCHANGED <<ready, queue>>, getter' \in {getter, "cancelled"} \cup Stages,
           runner' = "none" => runner = "none",
           at' # "waiting" \/ UNCHANGED <<at, runner, woken>>,
           at \in {"waiting", "unwinding", "closed"} =>
               UNCHANGED <<at, woken>> \/ at' \in {"unwinding", "closed"}
    PROVE  Callbacks'
<1>1. OneRunOneWake' /\ RunOfQuery'
    BY DEF IInv, Callbacks, OneRunOneWake, RunOfQuery
<1>2. WakeOfWait'
    BY DEF IInv, Callbacks, WakeOfWait
<1>3. getter' \in {"scheduled", "blocked"} => getter' = getter
    BY StagesAre
<1>4. GetterRuns'
    BY <1>3 DEF IInv, Callbacks, GetterRuns
<1>5. GetterFirst'
    BY <1>3 DEF IInv, Callbacks, GetterFirst
<1> QED BY <1>1, <1>2, <1>4, <1>5 DEF Callbacks

LEMMA Popped ==
    ASSUME IInv, ready # <<>>, NEW x \in Seq(CallbackKind), ready' = Tail(ready) \o x
    PROVE  Shifted(ready, x, ready')
<1>1. ready \in Seq(CallbackKind)
    BY DEF IInv, TraceInv, TypeOK
<1> QED BY <1>1, AfterFirst

LEMMA Scheduled ==
    ASSUME IInv, NEW x \in Seq(CallbackKind), ready' = ready \o x
    PROVE  Extended(ready, x, ready')
<1>1. ready \in Seq(CallbackKind)
    BY DEF IInv, TraceInv, TypeOK
<1> QED BY <1>1, AfterMore

(* The first callback ran, and others than these two were called for.      *)
LEMMA PopOne ==
    ASSUME IInv, ready # <<>>, NEW x \in Seq(CallbackKind),
           \A k \in DOMAIN x : x[k] \in {"getter", "notify"}, ready' = Tail(ready) \o x,
           runner' = "none" => runner = "none"
    PROVE  /\ ready' \in Seq(CallbackKind)
           /\ OneRunOneWake' /\ RunOfQuery'
           /\ UNCHANGED <<at, woken>> => WakeOfWait'
           /\ Head(ready) = "wake" => \A i \in DOMAIN ready' : ready'[i] # "wake"
           /\ Head(ready) = "run" => \A i \in DOMAIN ready' : ready'[i] # "run"
<1>1. /\ ready' \in Seq(CallbackKind)
      /\ DOMAIN ready = 1 .. Len(ready) /\ Len(ready) \in Nat \ {0}
      /\ \A i \in DOMAIN ready' :
             \/ i \in 1 .. Len(ready) - 1 /\ i + 1 \in DOMAIN ready /\ ready'[i] = ready[i + 1]
             \/ \E k \in DOMAIN x : ready'[i] = x[k]
    BY Popped DEF Shifted
<1>2. \A i \in DOMAIN ready' : ready'[i] \in {"run", "wake"} =>
          i \in Nat /\ i + 1 \in DOMAIN ready /\ ready'[i] = ready[i + 1]
  <2> SUFFICES ASSUME NEW i \in DOMAIN ready', ready'[i] \in {"run", "wake"}
               PROVE  i \in Nat /\ i + 1 \in DOMAIN ready /\ ready'[i] = ready[i + 1]
      OBVIOUS
  <2>1. ~\E k \in DOMAIN x : ready'[i] = x[k]
      OBVIOUS
  <2> QED BY <1>1, <2>1
<1>3. OneRunOneWake'
  <2> SUFFICES ASSUME NEW i \in DOMAIN ready', NEW j \in DOMAIN ready',
                      ready'[i] = ready'[j], ready'[i] \in {"run", "wake"}
               PROVE  i = j
      BY DEF OneRunOneWake
  <2>1. i + 1 = j + 1 /\ i \in Nat /\ j \in Nat
      BY <1>2 DEF IInv, Callbacks, OneRunOneWake
  <2> QED BY <2>1
<1>4. RunOfQuery' /\ (UNCHANGED <<at, woken>> => WakeOfWait')
    BY <1>2 DEF IInv, Callbacks, RunOfQuery, WakeOfWait
<1>5. ASSUME NEW i \in DOMAIN ready', Head(ready) \in {"run", "wake"}
      PROVE  ready'[i] # Head(ready)
  <2> SUFFICES ASSUME ready'[i] = Head(ready)  PROVE FALSE
      OBVIOUS
  <2>1. 1 \in DOMAIN ready /\ Head(ready) = ready[1]
      BY <1>1
  <2>2. i \in Nat /\ i + 1 \in DOMAIN ready /\ ready[i + 1] = ready[1]
      BY <1>2, <1>5, <2>1
  <2>3. i + 1 = 1
      BY <1>5, <2>1, <2>2 DEF IInv, Callbacks, OneRunOneWake
  <2>4. i \in 1 .. Len(ready')
      BY <1>1
  <2> QED BY <2>3, <2>4
<1> QED BY <1>1, <1>3, <1>4, <1>5

(* It was not the progress task's, which stays where it is in the order.   *)
LEMMA PopOther ==
    ASSUME IInv, ready # <<>>, Head(ready) # "getter", NEW x \in Seq(CallbackKind),
           \A k \in DOMAIN x : x[k] \in {"getter", "notify"}, ready' = Tail(ready) \o x,
           getter' = getter, at' = "waiting" => at = "waiting",
           runner' = "done" => runner = "done" \/ Head(ready) = "run"
    PROVE  /\ getter' = "scheduled" => \E k \in DOMAIN ready' : ready'[k] = "getter"
           /\ GetterFirst'
<1>1. /\ DOMAIN ready = 1 .. Len(ready) /\ Len(ready) \in Nat \ {0}
      /\ \A i \in DOMAIN ready' :
             \/ i \in 1 .. Len(ready) - 1 /\ i + 1 \in DOMAIN ready /\ ready'[i] = ready[i + 1]
             \/ \E k \in DOMAIN x : ready'[i] = x[k]
      /\ \A i \in 2 .. Len(ready) : i - 1 \in DOMAIN ready' /\ ready'[i - 1] = ready[i]
    BY Popped DEF Shifted
<1>2. \A i \in DOMAIN ready' : ready'[i] \in {"run", "wake"} =>
          i \in 1 .. Len(ready) - 1 /\ i + 1 \in DOMAIN ready /\ ready'[i] = ready[i + 1]
    BY <1>1
<1>3. \A k \in DOMAIN ready : ready[k] = "getter" => k \in 2 .. Len(ready)
    BY <1>1
<1>4. getter' = "scheduled" => \E k \in DOMAIN ready' : ready'[k] = "getter"
  <2> SUFFICES ASSUME getter = "scheduled"  PROVE \E k \in DOMAIN ready' : ready'[k] = "getter"
      OBVIOUS
  <2>1. PICK k \in DOMAIN ready : ready[k] = "getter"
      BY DEF IInv, Callbacks, GetterRuns
  <2> QED BY <1>1, <1>3, <2>1
<1>5. GetterFirst'
  <2> SUFFICES ASSUME getter = "scheduled", at = "waiting", NEW i \in DOMAIN ready',
                      ready'[i] = "wake",
                      runner' = "done" \/ \E r \in 1 .. i - 1 : ready'[r] = "run"
               PROVE  \E k \in 1 .. i - 1 : ready'[k] = "getter"
      BY DEF GetterFirst
  <2>1. i \in 1 .. Len(ready) - 1 /\ i + 1 \in DOMAIN ready /\ ready[i + 1] = "wake"
      BY <1>2
  <2>2. runner = "done" \/ \E r \in 1 .. (i + 1) - 1 : ready[r] = "run"
    <3>1. CASE runner' = "done"
      <4>1. Head(ready) = ready[1] /\ 1 \in 1 .. (i + 1) - 1
          BY <1>1, <2>1
      <4> QED BY <3>1, <4>1
    <3>2. CASE \E r \in 1 .. i - 1 : ready'[r] = "run"
      <4>1. PICK r \in 1 .. i - 1 : ready'[r] = "run"
          BY <3>2
      <4>2. r \in 1 .. Len(ready) - 1 /\ (r + 1) - 1 = r
          BY <1>1, <2>1
      <4>3. r \in DOMAIN ready'
        <5>1. r + 1 \in 2 .. Len(ready)
            BY <1>1, <4>2
        <5> QED BY <1>1, <4>2, <5>1
      <4>4. ready[r + 1] = "run" /\ r + 1 \in 1 .. (i + 1) - 1
          BY <1>2, <2>1, <4>1, <4>3
      <4> QED BY <4>4
    <3> QED BY <3>1, <3>2
  <2>3. PICK k \in 1 .. (i + 1) - 1 : ready[k] = "getter"
      BY <2>1, <2>2 DEF IInv, Callbacks, GetterFirst
  <2>4. k \in 2 .. Len(ready) /\ k - 1 \in 1 .. i - 1
      BY <1>1, <1>3, <2>1, <2>3
  <2> QED BY <1>1, <2>3, <2>4
<1> QED BY <1>4, <1>5
(* The calls for callbacks the actions make. *)
LEMMA Calls ==
    /\ <<>> \in Seq(CallbackKind) /\ DOMAIN <<>> = {}
    /\ \A c \in CallbackKind : <<c>> \in Seq(CallbackKind) /\ DOMAIN <<c>> = {1} /\ <<c>>[1] = c
    /\ CallBack \in Seq(CallbackKind) /\ \A k \in DOMAIN CallBack : CallBack[k] = "notify"
    /\ \A n \in Nat : Notify(n) \in Seq(CallbackKind)
                      /\ \A k \in DOMAIN Notify(n) : Notify(n)[k] = "notify"
<1>1. <<>> \in Seq(CallbackKind) /\ DOMAIN <<>> = {}
    OBVIOUS
<1>2. ASSUME NEW c \in CallbackKind
      PROVE  <<c>> \in Seq(CallbackKind) /\ DOMAIN <<c>> = {1} /\ <<c>>[1] = c
    OBVIOUS
<1>3. "notify" \in CallbackKind
    BY DEF CallbackKind
<1>4. CallBack \in Seq(CallbackKind) /\ \A k \in DOMAIN CallBack : CallBack[k] = "notify"
    BY <1>1, <1>2, <1>3 DEF CallBack
<1>5. ASSUME NEW n \in Nat
      PROVE  /\ Notify(n) \in Seq(CallbackKind)
             /\ \A k \in DOMAIN Notify(n) : Notify(n)[k] = "notify"
    BY <1>3 DEF Notify
<1> QED BY <1>1, <1>2, <1>4, <1>5

LEMMA TailOnly == ASSUME IInv, ready # <<>>  PROVE Tail(ready) = Tail(ready) \o <<>>
<1>1. Tail(ready) \in Seq(CallbackKind)
    BY HeadTailProperties DEF IInv, TraceInv, TypeOK
<1> QED BY <1>1, ConcatEmptySeq

LEMMA Rejoined ==
    ASSUME NEW r \in Seq(CallbackKind), NEW a \in Seq(CallbackKind), NEW b \in Seq(CallbackKind)
    PROVE  (r \o a) \o b = r \o (a \o b)
BY ConcatAssociative

LEMMA QueryCallbacks ==
    ASSUME IInv, SettlesInDatabase, NEW stages \in Seq(Stages),
           NEW end \in {"none", "answer", "failure"}, RunStep(stages, end)
    PROVE  Callbacks'
<1> DEFINE wakes == stages # <<>> /\ getter = "blocked"
           a == IF wakes THEN <<"getter">> ELSE <<>>
           b == IF end # "none" THEN CallBack ELSE <<>>
           x == a \o b
<1>1. /\ a \in Seq(CallbackKind) /\ b \in Seq(CallbackKind)
      /\ \A k \in DOMAIN a : a[k] = "getter"
      /\ \A k \in DOMAIN b : b[k] = "notify"
      /\ wakes => 1 \in DOMAIN a /\ a[1] = "getter"
    BY Calls DEF CallbackKind
<1>2. /\ ready' = (Tail(ready) \o a) \o b /\ ready # <<>> /\ Head(ready) = "run"
      /\ getter' = IF wakes THEN "scheduled" ELSE getter
      /\ queue' = queue \o stages /\ UNCHANGED <<at, woken>>
      /\ runner' = IF end # "none" THEN "done" ELSE "working"
      /\ wakes => end = "none"
    BY DEF RunStep, streamVars
<1> HIDE DEF a, b, wakes
<1>3. ready' = Tail(ready) \o x
  <2>1. Tail(ready) \in Seq(CallbackKind)
      BY <1>2, HeadTailProperties DEF IInv, TraceInv, TypeOK
  <2>2. (Tail(ready) \o a) \o b = Tail(ready) \o (a \o b)
      BY <1>1, <2>1, Rejoined
  <2> QED BY <1>2, <2>2
<1>4. Extended(a, b, x)
    BY <1>1, AfterMore
<1>5. /\ x \in Seq(CallbackKind)
      /\ \A k \in DOMAIN x : x[k] \in {"getter", "notify"}
      /\ wakes => \E k \in DOMAIN x : x[k] = "getter"
    BY <1>1, <1>4 DEF Extended
<1> HIDE DEF x
<1>6. /\ OneRunOneWake' /\ RunOfQuery' /\ WakeOfWait'
      /\ \A i \in DOMAIN ready' : ready'[i] # "run"
      /\ Shifted(ready, x, ready')
    BY <1>2, <1>3, <1>5, PopOne, Popped
<1>7. CASE wakes
  <2>1. PICK k \in DOMAIN x : x[k] = "getter"
      BY <1>5, <1>7
  <2>2. PICK place \in DOMAIN ready' : ready'[place] = x[k]
      BY <1>6, <2>1 DEF Shifted
  <2>3. GetterRuns'
      BY <1>2, <1>7, <2>1, <2>2 DEF GetterRuns
  <2>4. GetterFirst'
    <3> SUFFICES ASSUME NEW i \in DOMAIN ready', ready'[i] = "wake",
                        \E r \in 1 .. i - 1 : ready'[r] = "run"
                 PROVE  FALSE
        BY <1>2, <1>7 DEF GetterFirst
    <3>1. PICK r \in 1 .. i - 1 : ready'[r] = "run"
        OBVIOUS
    <3>2. r \in DOMAIN ready'
        BY <1>6 DEF Shifted
    <3> QED BY <1>6, <3>1, <3>2
  <2> QED BY <1>6, <2>3, <2>4 DEF Callbacks
<1>8. CASE ~wakes
  <2>1. GetterFirst' /\ (getter' = "scheduled" => \E k \in DOMAIN ready' : ready'[k] = "getter")
      BY <1>2, <1>3, <1>5, <1>8, PopOther
  <2>2. getter' = "blocked" => queue' = <<>>
    <3> SUFFICES ASSUME getter' = "blocked"  PROVE queue' = <<>>
        OBVIOUS
    <3>1. stages = <<>> /\ queue = <<>>
        BY <1>2, <1>8 DEF wakes, IInv, Callbacks, GetterRuns
    <3> QED BY <1>2, <3>1
  <2> QED BY <1>6, <2>1, <2>2 DEF Callbacks, GetterRuns
<1> QED BY <1>7, <1>8

LEMMA GetterCallbacks == ASSUME IInv, GetterStep  PROVE Callbacks'
<1> DEFINE takes == getter = "scheduled" /\ queue # <<>>
           x == IF takes THEN CallBack ELSE <<>>
<1>1. /\ x \in Seq(CallbackKind) /\ \A k \in DOMAIN x : x[k] \in {"getter", "notify"}
      /\ ready' = Tail(ready) \o x /\ ready # <<>> /\ UNCHANGED <<at, woken, runner>>
    BY Calls, TailOnly DEF GetterStep, streamVars
<1>2. OneRunOneWake' /\ RunOfQuery' /\ WakeOfWait'
  <2> HIDE DEF x
  <2> QED BY <1>1, PopOne
<1>3. getter' # "scheduled"
  <2>1. CASE takes
    <3>1. Head(queue) \in Stages
        BY <2>1, HeadTailProperties DEF IInv, TraceInv, TypeOK
    <3> QED BY <2>1, <3>1, StagesAre DEF GetterStep
  <2>2. CASE ~takes
      BY <2>2 DEF GetterStep
  <2> QED BY <2>1, <2>2
<1>4. getter' = "blocked" => queue' = <<>>
  <2>1. CASE takes
    <3>1. Head(queue) \in Stages
        BY <2>1, HeadTailProperties DEF IInv, TraceInv, TypeOK
    <3> QED BY <2>1, <3>1, StagesAre DEF GetterStep
  <2>2. CASE ~takes
      BY <2>2 DEF GetterStep, IInv, Callbacks, GetterRuns
  <2> QED BY <2>1, <2>2
<1> QED BY <1>2, <1>3, <1>4 DEF Callbacks, GetterRuns, GetterFirst
(* A callback that wakes or schedules nobody. *)
LEMMA IdleCallbacks ==
    ASSUME IInv, ready # <<>>, Head(ready) # "getter", ready' = Tail(ready),
           UNCHANGED <<at, woken, getter, queue, runner>>
    PROVE  Callbacks'
<1>1. ready' = Tail(ready) \o <<>> /\ <<>> \in Seq(CallbackKind) /\ DOMAIN <<>> = {}
    BY TailOnly, Calls
<1>2. OneRunOneWake' /\ RunOfQuery' /\ WakeOfWait'
    BY <1>1, PopOne
<1>3. GetterFirst' /\ (getter' = "scheduled" => \E k \in DOMAIN ready' : ready'[k] = "getter")
    BY <1>1, PopOther
<1>4. getter' = "blocked" => queue' = <<>>
    BY DEF IInv, Callbacks, GetterRuns
<1> QED BY <1>2, <1>3, <1>4 DEF Callbacks, GetterRuns

(* Nobody has woken the stream that waits: only once is it called. *)
LEMMA NotWoken == ASSUME IInv, at = "waiting", ~woken  PROVE \A i \in DOMAIN ready : ready[i] # "wake"
BY DEF IInv, Callbacks, WakeOfWait

LEMMA WakeCallbacks ==
    ASSUME IInv, at = "waiting", ~woken, woken' = TRUE,
           UNCHANGED <<at, getter, queue, runner>>,
           \/ ready # <<>> /\ Head(ready) = "notify" /\ ready' = Append(Tail(ready), "wake")
           \/ ready' = Append(ready, "wake")
    PROVE  Callbacks'
<1> DEFINE old == IF ready' = Append(ready, "wake") THEN ready ELSE Tail(ready)
<1>1. /\ old \in Seq(CallbackKind) /\ ready' = Append(old, "wake") /\ "wake" \in CallbackKind
      /\ ready \in Seq(CallbackKind)
  <2>1. ready \in Seq(CallbackKind) /\ "wake" \in CallbackKind
      BY DEF IInv, TraceInv, TypeOK, CallbackKind
  <2>2. ready # <<>> => Tail(ready) \in Seq(CallbackKind)
      BY <2>1, HeadTailProperties
  <2> QED BY <2>1, <2>2
<1>2. /\ \A i \in DOMAIN old : \E j \in DOMAIN ready : old[i] = ready[j]
      /\ \A i, j \in DOMAIN old : old[i] = old[j] /\ old[i] = "run" => i = j
      /\ \A j \in DOMAIN ready : ready[j] = "getter" => \E i \in DOMAIN old : old[i] = "getter"
  <2>1. CASE old = ready
      BY <2>1 DEF IInv, Callbacks, OneRunOneWake
  <2>2. CASE old # ready
    <3>1. ready # <<>> /\ Head(ready) = "notify" /\ old = Tail(ready)
        BY <2>2
    <3> HIDE DEF old
    <3>2. /\ Len(old) = Len(ready) - 1 /\ \A i \in 1 .. Len(old) : old[i] = ready[i + 1]
          /\ DOMAIN old = 1 .. Len(old) /\ DOMAIN ready = 1 .. Len(ready) /\ Len(ready) \in Nat \ {0}
          /\ ready[1] = "notify"
        BY <1>1, <3>1, HeadTailProperties, LenProperties, EmptySeq
    <3>3. \A i \in DOMAIN old : i \in Nat /\ i + 1 \in DOMAIN ready /\ old[i] = ready[i + 1]
        BY <3>2
    <3>4. ASSUME NEW i \in DOMAIN old, NEW j \in DOMAIN old, old[i] = old[j], old[i] = "run"
          PROVE  i = j
      <4>1. i \in Nat /\ j \in Nat /\ i + 1 = j + 1
          BY <3>3, <3>4 DEF IInv, Callbacks, OneRunOneWake
      <4> QED BY <4>1
    <3>5. ASSUME NEW j \in DOMAIN ready, ready[j] = "getter"
          PROVE  \E i \in DOMAIN old : old[i] = "getter"
      <4>1. j - 1 \in 1 .. Len(old) /\ (j - 1) + 1 = j
          BY <3>2, <3>5
      <4> QED BY <3>2, <3>5, <4>1
    <3> QED BY <3>3, <3>4, <3>5
  <2> QED BY <2>1, <2>2
<1> HIDE DEF old
<1>3. /\ DOMAIN ready' = 1 .. Len(old) + 1 /\ DOMAIN old = 1 .. Len(old) /\ Len(old) \in Nat
      /\ \A i \in DOMAIN old : ready'[i] = old[i]
      /\ ready'[Len(old) + 1] = "wake"
    BY <1>1, AppendProperties, LenProperties
<1>4. \A i \in DOMAIN ready' : ready'[i] = "wake" => i = Len(old) + 1
  <2> SUFFICES ASSUME NEW i \in DOMAIN ready', i # Len(old) + 1  PROVE ready'[i] # "wake"
      OBVIOUS
  <2>1. i \in DOMAIN old
      BY <1>3
  <2> QED BY <1>2, <1>3, <2>1, NotWoken
<1>5. \A i \in DOMAIN ready' : ready'[i] = "run" => i \in DOMAIN old /\ old[i] = "run"
    BY <1>3
<1>6. OneRunOneWake'
    BY <1>2, <1>4, <1>5 DEF OneRunOneWake
<1>7. RunOfQuery'
    BY <1>2, <1>5 DEF RunOfQuery, IInv, Callbacks
<1>8. WakeOfWait'
    BY DEF WakeOfWait
<1>9. getter = "scheduled" => \E k \in DOMAIN old : ready'[k] = "getter"
    BY <1>2, <1>3 DEF IInv, Callbacks, GetterRuns
<1>10. GetterRuns'
  <2>1. DOMAIN old \subseteq DOMAIN ready'
      BY <1>3
  <2> QED BY <1>9, <2>1 DEF IInv, Callbacks, GetterRuns
<1>11. GetterFirst'
  <2> SUFFICES ASSUME getter = "scheduled", NEW i \in DOMAIN ready', ready'[i] = "wake"
               PROVE  \E k \in 1 .. i - 1 : ready'[k] = "getter"
      BY DEF GetterFirst
  <2>1. 1 .. i - 1 = DOMAIN old
      BY <1>3, <1>4
  <2> QED BY <1>9, <2>1
<1> QED BY <1>6, <1>7, <1>8, <1>10, <1>11 DEF Callbacks

LEMMA NotifiedCallbacks == ASSUME IInv, Notified  PROVE Callbacks'
<1>1. CASE at = "waiting" /\ ~woken
    BY <1>1, WakeCallbacks DEF Notified, streamVars, taskVars
<1>2. CASE ~(at = "waiting" /\ ~woken)
    BY <1>2, IdleCallbacks DEF Notified, streamVars, taskVars
<1> QED BY <1>1, <1>2

LEMMA WakeNobodyCallbacks == ASSUME IInv, WakeNobody  PROVE Callbacks'
BY IdleCallbacks DEF WakeNobody, streamVars, taskVars

(* The query has what it awaits. *)
LEMMA ReadyCallbacks == ASSUME IInv, RunnerReady  PROVE Callbacks'
<1>1. /\ ready \in Seq(CallbackKind) /\ "run" \in CallbackKind
      /\ ready' = Append(ready, "run") /\ UNCHANGED <<at, woken, getter, queue, runner>>
      /\ runner = "working"
    BY DEF IInv, TraceInv, TypeOK, CallbackKind, RunnerReady, streamVars, taskVars
<1>2. \A i \in DOMAIN ready : ready[i] # "run"
    BY <1>1 DEF RunnerReady, ToSet
<1>3. /\ DOMAIN ready' = 1 .. Len(ready) + 1 /\ DOMAIN ready = 1 .. Len(ready) /\ Len(ready) \in Nat
      /\ \A i \in DOMAIN ready : ready'[i] = ready[i]
      /\ ready'[Len(ready) + 1] = "run"
    BY <1>1, AppendProperties, LenProperties
<1>4. \A i \in DOMAIN ready' : i \in DOMAIN ready \/ i = Len(ready) + 1
    BY <1>3
<1>5. OneRunOneWake' /\ RunOfQuery' /\ WakeOfWait'
    BY <1>1, <1>2, <1>3, <1>4 DEF OneRunOneWake, RunOfQuery, WakeOfWait, IInv, Callbacks
<1>6. GetterRuns'
  <2>1. DOMAIN ready \subseteq DOMAIN ready'
      BY <1>3
  <2> QED BY <1>1, <1>3, <2>1 DEF GetterRuns, IInv, Callbacks
<1>7. GetterFirst'
  <2> SUFFICES ASSUME getter = "scheduled", at = "waiting", NEW i \in DOMAIN ready',
                      ready'[i] = "wake",
                      runner = "done" \/ \E r \in 1 .. i - 1 : ready'[r] = "run"
               PROVE  \E k \in 1 .. i - 1 : ready'[k] = "getter"
      BY <1>1 DEF GetterFirst
  <2>1. i \in DOMAIN ready /\ ready[i] = "wake"
      BY <1>3, <1>4
  <2>2. 1 .. i - 1 \subseteq DOMAIN ready
      BY <1>3, <2>1
  <2>3. FALSE
      BY <1>1, <1>2, <1>3, <2>2
  <2> QED BY <2>3
<1> QED BY <1>5, <1>6, <1>7 DEF Callbacks
(* The stream's own steps.  While it does not wait, no wake is under way.  *)
LEMMA NoWake ==
    ASSUME IInv, at \notin {"waiting", "unwinding", "closed"}
    PROVE  \A i \in DOMAIN ready : ready[i] # "wake"
BY DEF IInv, Callbacks, WakeOfWait

(* It schedules others than a wake, while none is under way. *)
LEMMA CallOthers ==
    ASSUME IInv, NEW x \in Seq(CallbackKind), ready' = ready \o x,
           \A k \in DOMAIN x : x[k] # "wake",
           \A i \in DOMAIN ready : ready[i] # "wake",
           \A k, l \in DOMAIN x : x[k] = "run" /\ x[l] = "run" => k = l,
           (\E k \in DOMAIN x : x[k] = "run") => runner = "none",
           runner' = "none" => runner = "none" /\ \A k \in DOMAIN x : x[k] # "run",
           getter' = "scheduled" => getter = "scheduled" \/ \E k \in DOMAIN x : x[k] = "getter",
           getter' = "blocked" => getter = "blocked" /\ queue' = queue
    PROVE  Callbacks'
<1>1. Extended(ready, x, ready')
    BY Scheduled
<1>2. \A i \in DOMAIN ready' : ready'[i] # "wake"
    BY <1>1 DEF Extended
<1>3. OneRunOneWake'
  <2> SUFFICES ASSUME NEW i \in DOMAIN ready', NEW j \in DOMAIN ready',
                      ready'[i] = "run", ready'[j] = "run"
               PROVE  i = j
      BY <1>2 DEF OneRunOneWake
  <2>1. CASE runner = "none"
    <3>1. \A k \in DOMAIN ready : ready[k] # "run"
        BY <2>1 DEF IInv, Callbacks, RunOfQuery
    <3>2. /\ i \in Nat /\ i - Len(ready) \in DOMAIN x /\ x[i - Len(ready)] = "run"
          /\ j \in Nat /\ j - Len(ready) \in DOMAIN x /\ x[j - Len(ready)] = "run"
          /\ Len(ready) \in Nat
        BY <1>1, <3>1 DEF Extended
    <3>3. i - Len(ready) = j - Len(ready)
        BY <3>2
    <3> QED BY <3>2, <3>3
  <2>2. CASE runner # "none"
    <3>1. i \in DOMAIN ready /\ ready[i] = "run" /\ j \in DOMAIN ready /\ ready[j] = "run"
        BY <1>1, <2>2 DEF Extended
    <3> QED BY <3>1 DEF IInv, Callbacks, OneRunOneWake
  <2> QED BY <2>1, <2>2
<1>4. RunOfQuery'
    BY <1>1 DEF RunOfQuery, IInv, Callbacks, Extended
<1>5. WakeOfWait' /\ GetterFirst'
    BY <1>2 DEF WakeOfWait, GetterFirst
<1>6. GetterRuns'
  <2>1. getter' = "blocked" => queue' = <<>>
      BY DEF IInv, Callbacks, GetterRuns
  <2>2. ASSUME getter' = "scheduled"  PROVE \E i \in DOMAIN ready' : ready'[i] = "getter"
    <3>1. CASE \E k \in DOMAIN x : x[k] = "getter"
        BY <1>1, <3>1 DEF Extended
    <3>2. CASE getter = "scheduled"
      <4>1. PICK k \in DOMAIN ready : ready[k] = "getter"
          BY <3>2 DEF IInv, Callbacks, GetterRuns
      <4> QED BY <1>1, <4>1 DEF Extended
    <3> QED BY <2>2, <3>1, <3>2
  <2> QED BY <2>1, <2>2 DEF GetterRuns
<1> QED BY <1>3, <1>4, <1>5, <1>6 DEF Callbacks

LEMMA ResumeCallbacks == ASSUME IInv, Resume  PROVE Callbacks'
<1> DEFINE a == IF runner = "none" THEN <<"run">> ELSE <<>>
           b == IF getter # getter' THEN <<"getter">> ELSE <<>>
           x == a \o b
<1>1. /\ a \in Seq(CallbackKind) /\ b \in Seq(CallbackKind)
      /\ DOMAIN a = (IF runner = "none" THEN {1} ELSE {}) /\ \A k \in DOMAIN a : a[k] = "run"
      /\ \A k \in DOMAIN b : b[k] = "getter"
      /\ getter # getter' => 1 \in DOMAIN b
    BY Calls DEF CallbackKind
<1>2. /\ ready' = (ready \o a) \o b /\ UNCHANGED queue
      /\ at = "yielding" /\ at' = "checking"
      /\ runner' = IF runner = "none" THEN "working" ELSE runner
      /\ getter' = IF getter = "none" THEN "scheduled" ELSE getter
      /\ ready \in Seq(CallbackKind)
    BY DEF Resume, IInv, TraceInv, TypeOK
<1> HIDE DEF a, b
<1>3. ready' = ready \o x
  <2>1. (ready \o a) \o b = ready \o (a \o b)
      BY <1>1, <1>2, Rejoined
  <2> QED BY <1>2, <2>1
<1>4. Extended(a, b, x)
    BY <1>1, AfterMore
<1>5. /\ x \in Seq(CallbackKind)
      /\ \A k \in DOMAIN x : x[k] \in {"run", "getter"}
      /\ \A k \in DOMAIN x : x[k] = "run" => k = 1 /\ runner = "none"
      /\ getter # getter' => \E k \in DOMAIN x : x[k] = "getter"
    BY <1>1, <1>4 DEF Extended
<1> HIDE DEF x
<1>6. \A i \in DOMAIN ready : ready[i] # "wake"
    BY <1>2, NoWake
<1>7. getter' = "scheduled" => getter = "scheduled" \/ \E k \in DOMAIN x : x[k] = "getter"
    BY <1>5
<1>8. getter' = "blocked" => getter = "blocked" /\ queue' = queue
    BY <1>2
<1>9. runner' # "none"
    BY <1>2
<1>10. /\ \A k \in DOMAIN x : x[k] # "wake"
       /\ \A k, l \in DOMAIN x : x[k] = "run" /\ x[l] = "run" => k = l
       /\ (\E k \in DOMAIN x : x[k] = "run") => runner = "none"
    BY <1>5
<1> QED BY <1>3, <1>5, <1>6, <1>7, <1>8, <1>9, <1>10, CallOthers

LEMMA CheckCallbacks == ASSUME IInv, Check  PROVE Callbacks'
<1>1. CASE client = "gone"
    BY <1>1, QuietLoop DEF Check, Cancelled, loopVars
<1>2. CASE client # "gone"
  <2> DEFINE n == (IF runner = "done" THEN 1 ELSE 0) + (IF Holding THEN 1 ELSE 0)
  <2>1. n \in Nat
      OBVIOUS
  <2>2. ready' = ready \o Notify(n) /\ UNCHANGED <<getter, queue, runner>> /\ at = "checking"
      BY <1>2 DEF Check
  <2> HIDE DEF n
  <2>3. \A k \in DOMAIN Notify(n) : Notify(n)[k] = "notify"
      BY <2>1, Calls
  <2>4. Notify(n) \in Seq(CallbackKind)
      BY <2>1, Calls
  <2>5. \A i \in DOMAIN ready : ready[i] # "wake"
      BY <2>2, NoWake
  <2> QED BY <2>2, <2>3, <2>4, <2>5, CallOthers
<1> QED BY <1>1, <1>2

(* The stream has woken and waits no more. *)
LEMMA AwakeCallbacks ==
    ASSUME IInv, Woken, at' # "waiting", UNCHANGED queue,
           getter' \in {getter, "none", "cancelled"},
           runner' = "none" => runner = "none"
    PROVE  Callbacks'
<1>1. /\ ready' = Tail(ready) \o <<>> /\ <<>> \in Seq(CallbackKind) /\ DOMAIN <<>> = {}
      /\ ready # <<>> /\ Head(ready) = "wake"
    BY TailOnly, Calls DEF Woken
<1>2. OneRunOneWake' /\ RunOfQuery' /\ \A i \in DOMAIN ready' : ready'[i] # "wake"
    BY <1>1, PopOne
<1>3. WakeOfWait' /\ GetterFirst'
    BY <1>2 DEF WakeOfWait, GetterFirst
<1>4. getter' = "scheduled" => \E k \in DOMAIN ready' : ready'[k] = "getter"
  <2> SUFFICES ASSUME getter' = "scheduled"  PROVE \E k \in DOMAIN ready' : ready'[k] = "getter"
      OBVIOUS
  <2>1. PICK k \in DOMAIN ready : ready[k] = "getter"
      BY DEF IInv, Callbacks, GetterRuns
  <2>2. Shifted(ready, <<>>, ready')
      BY <1>1, Popped
  <2>3. k \in 2 .. Len(ready)
      BY <1>1, <2>1, <2>2 DEF Shifted
  <2> QED BY <2>1, <2>2, <2>3 DEF Shifted
<1>5. getter' = "blocked" => queue' = <<>>
    BY DEF IInv, Callbacks, GetterRuns
<1> QED BY <1>2, <1>3, <1>4, <1>5 DEF Callbacks, GetterRuns

LEMMA CallCallbacks == ASSUME IInv, Call  PROVE Callbacks'
<1>1. ready' = <<"run">> /\ runner' = "working" /\ UNCHANGED <<at, getter, queue>>
    BY DEF Call, streamVars
<1>2. at = "new" /\ getter = "none"
    BY DEF Call, IInv, TraceInv, Phases
<1>3. DOMAIN ready' = {1} /\ ready'[1] = "run"
    BY <1>1
<1> QED BY <1>1, <1>2, <1>3
        DEF Callbacks, OneRunOneWake, RunOfQuery, WakeOfWait, GetterRuns, GetterFirst
-----------------------------------------------------------------------------
(* The steps, and what none of them but the named ones changes.            *)
QueryMoves == RunnerReady \/ RunCancelled \/ EventLoop
Passes == Resume \/ Check \/ Deliver \/ Beat \/ Return \/ Unwind
Ends == Finish \/ Absorb
Application == StreamOver \/ CallOver \/ Persist \/ ClientLeaves \/ OtherExports \/ OtherTaken

LEMMA Steps ==
    ASSUME TracedNext
    PROVE  \/ StartStream \/ Call \/ CancelCall \/ QueryStep \/ PassOn \/ TimerFires
           \/ HandOnEnd \/ AbandonWaiting \/ AbandonYielding \/ Application
BY DEF TracedNext, Traced, Application

LEMMA ApplicationKeeps ==
    ASSUME Application  PROVE UNCHANGED <<streamVars, taskVars, loopVars>>
BY DEF Application, StreamOver, CallOver, Persist, ClientLeaves, Leave, OtherExports,
       OtherTaken, vars

LEMMA TypeInit == TracedInit => TypeOK
BY BufferAssumption DEF TracedInit, Init, TypeOK, Place, CallbackKind

LEMMA SomeStages ==
    Run => \E stages \in Seq(Stages), end \in {"none", "answer", "failure"} : RunStep(stages, end)
<1> SUFFICES ASSUME NEW n \in 0 .. 2, NEW stages \in [1 .. n -> Stages],
                    NEW end \in {"none", "answer", "failure"}, RunStep(stages, end)
             PROVE  \E st \in Seq(Stages), e \in {"none", "answer", "failure"} : RunStep(st, e)
    BY DEF Run
<1>1. stages \in Seq(Stages)
    BY SeqDef
<1> QED BY <1>1

(* The callbacks are callbacks. *)
LEMMA LoopTyped == ASSUME TypeOK, TracedNext  PROVE ready' \in Seq(CallbackKind)
<1>1. /\ ready \in Seq(CallbackKind)
      /\ ready # <<>> => Tail(ready) \in Seq(CallbackKind)
      /\ {"run", "getter", "notify", "wake"} = CallbackKind
  <2>1. ready \in Seq(CallbackKind)
      BY DEF TypeOK
  <2> QED BY <2>1, HeadTailProperties DEF CallbackKind
<1>2. CASE UNCHANGED ready
    BY <1>1, <1>2
<1>3. CASE StartStream \/ CancelCall \/ AbandonWaiting \/ AbandonYielding \/ Application \/ HandOnEnd
  <2>1. CASE Finish
      BY <1>1, <2>1 DEF Finish, Woken
  <2>2. CASE ~Finish
    <3>1. UNCHANGED ready
        BY <1>3, <2>2, ApplicationKeeps
           DEF StartStream, Open, CancelCall, AbandonWaiting, AbandonYielding, Abandon,
               HandOnEnd, Absorb, loopVars
    <3> QED BY <1>1, <3>1
  <2> QED BY <2>1, <2>2
<1>4. CASE Call
  <2>1. ready' = <<"run">>
      BY <1>4 DEF Call
  <2> QED BY <1>1, <2>1, Calls
<1>5. CASE QueryStep
  <2>1. CASE RunnerReady
      BY <1>1, <2>1, AppendProperties DEF RunnerReady
  <2>2. CASE RunCancelled
      BY <1>1, <2>2 DEF RunCancelled, loopVars
  <2>3. CASE Run
    <3>1. PICK stages \in Seq(Stages), end \in {"none", "answer", "failure"} : RunStep(stages, end)
        BY <2>3, SomeStages
    <3> DEFINE a == IF stages # <<>> /\ getter = "blocked" THEN <<"getter">> ELSE <<>>
               b == IF end # "none" THEN CallBack ELSE <<>>
    <3>2. a \in Seq(CallbackKind) /\ b \in Seq(CallbackKind)
        BY <1>1, Calls
    <3>3. ready' = (Tail(ready) \o a) \o b /\ ready # <<>>
        BY <3>1 DEF RunStep
    <3> HIDE DEF a, b
    <3>4. Tail(ready) \o a \in Seq(CallbackKind)
        BY <1>1, <3>2, <3>3, ConcatProperties
    <3> QED BY <3>2, <3>3, <3>4, ConcatProperties
  <2>4. CASE GetterStep
    <3> DEFINE x == IF getter = "scheduled" /\ queue # <<>> THEN CallBack ELSE <<>>
    <3>1. x \in Seq(CallbackKind)
        BY Calls
    <3>2. ready' = Tail(ready) \o x \/ ready' = Tail(ready)
        BY <2>4 DEF GetterStep
    <3> HIDE DEF x
    <3> QED BY <1>1, <2>4, <3>1, <3>2, ConcatProperties DEF GetterStep
  <2>5. CASE Notified
      BY <1>1, <2>5, AppendProperties DEF Notified
  <2>6. CASE WakeNobody
      BY <1>1, <2>6 DEF WakeNobody
  <2> QED BY <1>5, <2>1, <2>2, <2>3, <2>4, <2>5, <2>6 DEF QueryStep, EventLoop
<1>6. CASE PassOn
  <2>1. CASE Resume
    <3> DEFINE a == IF runner = "none" THEN <<"run">> ELSE <<>>
               b == IF getter # getter' THEN <<"getter">> ELSE <<>>
    <3>1. a \in Seq(CallbackKind) /\ b \in Seq(CallbackKind)
        BY <1>1, Calls
    <3>2. ready' = (ready \o a) \o b
        BY <2>1 DEF Resume
    <3> HIDE DEF a, b
    <3>3. ready \o a \in Seq(CallbackKind)
        BY <1>1, <3>1, ConcatProperties
    <3> QED BY <3>1, <3>2, <3>3, ConcatProperties
  <2>2. CASE Check /\ client # "gone"
    <3> DEFINE n == (IF runner = "done" THEN 1 ELSE 0) + (IF Holding THEN 1 ELSE 0)
    <3>1. n \in Nat /\ ready' = ready \o Notify(n)
        BY <2>2 DEF Check
    <3> HIDE DEF n
    <3>2. Notify(n) \in Seq(CallbackKind)
        BY <3>1, Calls
    <3> QED BY <1>1, <3>1, <3>2, ConcatProperties
  <2>3. CASE Deliver \/ Beat
      BY <1>1, <2>3 DEF Deliver, Beat, Woken
  <2>4. CASE (Check /\ client = "gone") \/ Return \/ Unwind
      BY <1>1, <2>4 DEF Check, Return, Unwind, loopVars
  <2> QED BY <1>6, <2>1, <2>2, <2>3, <2>4 DEF PassOn
<1>7. CASE TimerFires
    BY <1>1, <1>7, AppendProperties DEF TimerFires, Timeout
<1> QED BY <1>3, <1>4, <1>5, <1>6, <1>7, Steps
(* What a step of the event loop leaves alone or may change. *)
LEMMA LoopMoves ==
    ASSUME TypeOK, QueryStep
    PROVE  /\ UNCHANGED <<client, streamVars, via, outer, status, taken>>
           /\ emitted' \in Seq(Stages) /\ queue' \in Seq(Stages)
           /\ runner' = runner \/ (runner = "working" /\ runner' = "done")
                \/ (runner = "cancelling" /\ runner' = "done")
           /\ \/ UNCHANGED <<emitted, runner, result>>
              \/ /\ runner = "working" /\ runner' \in {"working", "done"}
                 /\ \E stages \in Seq(Stages) : emitted' = emitted \o stages
              \/ runner = "cancelling" /\ UNCHANGED emitted
           /\ \/ getter' = getter
              \/ getter = "blocked" /\ getter' = "scheduled"
              \/ getter = "scheduled" /\ getter' \in {"blocked"} \cup Stages
           /\ Export(Ended' - Ended)
<1>1. emitted \in Seq(Stages) /\ queue \in Seq(Stages)
    BY DEF TypeOK
<1>2. /\ UNCHANGED <<via, outer, status, taken>> /\ Export(Ended' - Ended)
      /\ RunnerReady \/ RunCancelled \/ Run \/ GetterStep \/ Notified \/ WakeNobody
    BY DEF QueryStep, EventLoop
<1>3. CASE RunnerReady \/ Notified \/ WakeNobody
  <2>1. UNCHANGED <<client, streamVars, taskVars>>
      BY <1>3 DEF RunnerReady, Notified, WakeNobody
  <2> QED BY <1>1, <1>2, <2>1 DEF streamVars, taskVars
<1>4. CASE RunCancelled
  <2>1. /\ UNCHANGED <<client, at, ending, sent, last, emitted, queue, getter>>
        /\ runner = "cancelling" /\ runner' = "done"
      BY <1>4 DEF RunCancelled, streamVars
  <2> QED BY <1>1, <1>2, <2>1 DEF streamVars
<1>5. CASE Run
  <2>1. PICK stages \in Seq(Stages), end \in {"none", "answer", "failure"} : RunStep(stages, end)
      BY <1>5, SomeStages
  <2>2. /\ UNCHANGED <<client, at, ending, sent, last>>
        /\ runner = "working" /\ runner' \in {"working", "done"}
        /\ emitted' = emitted \o stages /\ queue' = queue \o stages
        /\ getter' = getter \/ (getter = "blocked" /\ getter' = "scheduled")
      BY <2>1 DEF RunStep, streamVars
  <2>3. emitted' \in Seq(Stages) /\ queue' \in Seq(Stages)
      BY <1>1, <2>2, ConcatProperties
  <2> QED BY <1>2, <2>2, <2>3 DEF streamVars
<1>6. CASE GetterStep
  <2>1. /\ UNCHANGED <<client, at, ending, sent, last, runner, result, emitted>>
        /\ \/ getter = "scheduled" /\ queue # <<>> /\ getter' = Head(queue) /\ queue' = Tail(queue)
           \/ queue' = queue /\ getter' = IF getter = "scheduled" THEN "blocked" ELSE getter
      BY <1>6 DEF GetterStep, streamVars
  <2>2. queue # <<>> => Head(queue) \in Stages /\ Tail(queue) \in Seq(Stages)
      BY <1>1, HeadTailProperties
  <2> QED BY <1>1, <1>2, <2>1, <2>2 DEF streamVars
<1> QED BY <1>2, <1>3, <1>4, <1>5, <1>6

(* The spans that end while the query moves are exported, and counted. *)
LEMMA ExportCounts ==
    ASSUME TypeOK, NEW n \in Nat, Export(n)
    PROVE  /\ kept' \in 0 .. MaxSpans /\ lost' \in Nat
           /\ kept' + lost' = kept + lost + n
           /\ n = 0 => UNCHANGED <<kept, lost>>
<1>1. kept \in 0 .. MaxSpans /\ lost \in Nat /\ MaxSpans \in Nat
    BY BufferAssumption DEF TypeOK
<1>2. CASE n = 0
    BY <1>1, <1>2 DEF Export, bufferVars
<1>3. CASE n # 0
  <2>1. /\ kept' = IF kept + n < MaxSpans THEN kept + n ELSE MaxSpans
        /\ lost' = lost + n - (kept' - kept)
      BY <1>3 DEF Export
  <2>2. kept' \in 0 .. MaxSpans /\ kept' - kept \in 0 .. n
      BY <1>1, <2>1
  <2> QED BY <1>1, <1>3, <2>1, <2>2
<1> QED BY <1>2, <1>3

LEMMA EndedGrows ==
    ASSUME TypeOK, Phases, QueryStep
    PROVE  /\ Ended' - Ended \in Nat /\ Ended \in Nat /\ Ended' \in Nat
           /\ runner \notin {"working", "cancelling"} => Ended' = Ended
<1>1. Len(emitted) \in Nat /\ Len(emitted') \in Nat
    BY LoopMoves DEF TypeOK
<1>2. (emitted = <<>> <=> Len(emitted) = 0) /\ (emitted' = <<>> <=> Len(emitted') = 0)
    BY LoopMoves, EmptySeq DEF TypeOK
<1>3. Ended \in Nat
    BY <1>1, <1>2 DEF Ended
<1>4. Ended' \in Nat
    BY <1>1, <1>2 DEF Ended
<1>5. CASE UNCHANGED <<emitted, runner>>
    BY <1>1, <1>3, <1>5 DEF Ended
<1>6. CASE runner = "working" /\ \E stages \in Seq(Stages) : emitted' = emitted \o stages
  <2>1. PICK stages \in Seq(Stages) : emitted' = emitted \o stages
      BY <1>6
  <2>2. Len(emitted') >= Len(emitted)
      BY <2>1, ConcatProperties, LenProperties DEF TypeOK
  <2> QED BY <1>1, <1>2, <1>3, <1>6, <2>2 DEF Ended
<1>7. CASE runner = "cancelling" /\ UNCHANGED emitted
    BY <1>1, <1>2, <1>3, <1>7 DEF Ended
<1> QED BY <1>3, <1>4, <1>5, <1>6, <1>7, LoopMoves
LEMMA TypeStep == ASSUME TypeOK, Phases, [TracedNext]_tracedVars  PROVE TypeOK'
<1>1. CASE UNCHANGED tracedVars
    BY <1>1 DEF TypeOK, tracedVars, traceVars, bufferVars, vars, streamVars, taskVars, loopVars
<1>2. CASE QueryStep
  <2>1. ready' \in Seq(CallbackKind)
      BY <1>2, LoopTyped DEF TracedNext
  <2>2. kept' \in 0 .. MaxSpans /\ lost' \in Nat
      BY <1>2, EndedGrows, LoopMoves, ExportCounts
  <2>3. /\ UNCHANGED <<at, sent, last, via, outer>>
        /\ emitted' \in Seq(Stages) /\ queue' \in Seq(Stages)
        /\ runner' \in {runner, "done"}
        /\ getter' \in {getter, "scheduled", "blocked"} \cup Stages
      BY <1>2, LoopMoves DEF streamVars
  <2> QED BY <2>1, <2>2, <2>3 DEF TypeOK
<1>3. CASE TracedNext /\ ~QueryStep
  <2>1. ready' \in Seq(CallbackKind)
      BY <1>3, LoopTyped
  <2> DEFINE Rest == /\ at' \in Place
                     /\ runner' \in {"none", "working", "cancelling", "done"}
                     /\ getter' \in {"none", "scheduled", "blocked", "cancelled"} \cup Stages
                     /\ emitted' \in Seq(Stages) /\ queue' \in Seq(Stages)
             Sends == sent' \in Seq(Event) /\ last' \in Nat
             Trace == /\ kept' \in 0 .. MaxSpans /\ lost' \in Nat
                      /\ via' \in {"none", "stream", "call"}
                      /\ outer' \in {"idle", "observing", "calling"} \cup Over
  <2>2. CASE StartStream
    <3>1. Rest
        BY <2>2 DEF StartStream, Open, TypeOK, Place, taskVars
    <3>2. Sends
        BY <2>2 DEF StartStream, Open, TypeOK, Event
    <3>3. Trace
        BY <2>2 DEF StartStream, TypeOK, bufferVars
    <3> QED BY <2>1, <3>1, <3>2, <3>3 DEF TypeOK
  <2>3. CASE Call \/ CancelCall
    <3>1. Rest
        BY <2>3 DEF Call, CancelCall, TypeOK, Place, streamVars, taskVars
    <3>2. Sends
        BY <2>3 DEF Call, CancelCall, TypeOK, streamVars
    <3>3. Trace
        BY <2>3 DEF Call, CancelCall, TypeOK, traceVars, bufferVars
    <3> QED BY <2>1, <3>1, <3>2, <3>3 DEF TypeOK
  <2>4. CASE PassOn
    <3>1. Rest
        BY <2>4 DEF PassOn, Resume, Check, Deliver, Beat, Return, Unwind, Cancelled, TypeOK,
                    Place, taskVars
    <3>2. Sends
      <4>1. CASE Deliver
        <5>1. Holding /\ sent \in Seq(Event) /\ last \in Nat
            BY <4>1 DEF Deliver, TypeOK
        <5>2. getter \in Event /\ Rank(getter) \in Nat
            BY <5>1, StagesAre DEF Holding, Event
        <5>3. Append(sent, getter) \in Seq(Event)
            BY <5>1, <5>2, AppendProperties
        <5> QED BY <4>1, <5>1, <5>2, <5>3 DEF Deliver
      <4>2. CASE ~Deliver
          BY <2>4, <4>2 DEF PassOn, Resume, Check, Beat, Return, Unwind, TypeOK
      <4> QED BY <4>1, <4>2
    <3>3. Trace
        BY <2>4 DEF PassOn, TypeOK, traceVars, bufferVars
    <3> QED BY <2>1, <3>1, <3>2, <3>3 DEF TypeOK
  <2>5. CASE HandOnEnd
    <3>1. Rest
        BY <2>5 DEF HandOnEnd, Finish, Absorb, TypeOK, Place, taskVars
    <3>2. Sends
      <4>1. /\ UNCHANGED last /\ \/ sent' = Append(sent, "completed")
                                 \/ sent' = Append(sent, "error")
                                 \/ UNCHANGED sent
          BY <2>5 DEF HandOnEnd, Finish, Absorb
      <4>2. sent \in Seq(Event) /\ last \in Nat /\ {"completed", "error"} \subseteq Event
          BY DEF TypeOK, Event, Terminal
      <4> QED BY <4>1, <4>2, AppendProperties
    <3>3. Trace
        BY <2>5 DEF HandOnEnd, TypeOK, bufferVars
    <3> QED BY <2>1, <3>1, <3>2, <3>3 DEF TypeOK
  <2>6. CASE TimerFires \/ AbandonWaiting \/ AbandonYielding
    <3>1. Rest
        BY <2>6 DEF TimerFires, Timeout, AbandonWaiting, AbandonYielding, Abandon, TypeOK, Place,
                    streamVars, taskVars
    <3>2. Sends
        BY <2>6 DEF TimerFires, Timeout, AbandonWaiting, AbandonYielding, Abandon, TypeOK,
                    streamVars
    <3>3. Trace
        BY <2>6, BufferAssumption
           DEF TimerFires, AbandonWaiting, AbandonYielding, EndTrace, TypeOK, traceVars,
               bufferVars, Over
    <3> QED BY <2>1, <3>1, <3>2, <3>3 DEF TypeOK
  <2>7. CASE Application
    <3>1. Rest /\ Sends
        BY <2>7, ApplicationKeeps DEF TypeOK, streamVars, taskVars
    <3>2. kept' \in 0 .. MaxSpans /\ lost' \in Nat
        BY <2>7, BufferAssumption
           DEF Application, StreamOver, CallOver, Persist, ClientLeaves, OtherExports, OtherTaken,
               EndTrace, TypeOK, traceVars, bufferVars
    <3>3. /\ via' \in {"none", "stream", "call"}
          /\ outer' \in {"idle", "observing", "calling"} \cup Over
        BY <2>7 DEF Application, StreamOver, CallOver, Persist, ClientLeaves, OtherExports,
                    OtherTaken, EndTrace, TypeOK, traceVars, Over
    <3> QED BY <2>1, <3>1, <3>2, <3>3 DEF TypeOK
  <2> QED BY <1>3, <2>2, <2>3, <2>4, <2>5, <2>6, <2>7, Steps
<1> QED BY <1>1, <1>2, <1>3
LEMMA SameSent == UNCHANGED sent => Progress' = Progress /\ Told' = Told
BY DEF Progress, Told

(* A stage that advances is sent. *)
LEMMA Advances ==
    ASSUME TypeOK, SentInOrder, Phases, Deliver, ~(Rank(getter) <= last)
    PROVE  /\ ~Told' /\ Progress' = Append(Progress, getter)
           /\ getter \in Stages /\ sent' # <<>> /\ sent'[1] = "accepted"
           /\ last' = Rank(getter) /\ last' > last /\ last' \in Nat
<1>1. /\ sent \in Seq(Event) /\ sent # <<>> /\ sent[1] = "accepted" /\ ~ToldOf(sent)
      /\ getter \in Stages /\ sent' = Append(sent, getter) /\ last' = Rank(getter)
      /\ last \in Nat /\ Rank(getter) \in 1 .. 5
    BY Views, StagesAre DEF Deliver, TypeOK, SentInOrder, Phases, Holding
<1>2. /\ ~ToldOf(sent') /\ ProgressOf(sent') = Append(ProgressOf(sent), getter)
      /\ sent' # <<>> /\ sent'[1] = "accepted"
    BY <1>1, SendStage
<1> QED BY <1>1, <1>2, Views

(* The outcome is sent. *)
LEMMA Concludes ==
    ASSUME TypeOK, SentInOrder, Phases, Finish \/ (Absorb /\ ending = "error")
    PROVE  /\ Told' /\ Progress' = Progress /\ sent' # sent
           /\ sent' # <<>> /\ sent'[1] = "accepted"
<1>1. /\ sent \in Seq(Event) /\ sent # <<>> /\ sent[1] = "accepted" /\ ~ToldOf(sent)
    BY Views DEF Finish, Absorb, TypeOK, SentInOrder, Phases
<1>2. PICK end \in Terminal : sent' = Append(sent, end)
    BY DEF Finish, Absorb, Terminal
<1>3. /\ ToldOf(sent') /\ ProgressOf(sent') = ProgressOf(sent)
      /\ sent' # <<>> /\ sent'[1] = "accepted"
    BY <1>1, <1>2, SendEnd
<1> QED BY <1>1, <1>3, Views

LEMMA SentStep ==
    ASSUME TypeOK, SentInOrder, Phases, [TracedNext]_tracedVars
    PROVE  SentInOrder'
<1>1. CASE UNCHANGED <<sent, last>>
  <2>1. Progress' = Progress
      BY <1>1, SameSent
  <2> QED BY <1>1, <2>1 DEF SentInOrder
<1>2. CASE StartStream
  <2>1. sent' = <<"accepted">>
      BY <1>2 DEF StartStream, Open
  <2>2. Progress' = <<>>
      BY <2>1, Views, NoProgress
  <2> QED BY <2>1, <2>2 DEF SentInOrder
<1>3. CASE Deliver /\ ~(Rank(getter) <= last)
  <2>1. /\ Progress' = Append(Progress, getter) /\ getter \in Stages
        /\ sent' # <<>> /\ sent'[1] = "accepted"
        /\ last' = Rank(getter) /\ last' > last /\ last' \in Nat
      BY <1>3, Advances
  <2>2. Progress \in Seq(Event)
    <3>1. sent \in Seq(Event) /\ sent # <<>> /\ sent[1] = "accepted"
        BY <1>3 DEF Deliver, TypeOK, SentInOrder, Phases
    <3>2. ProgressOf(sent) \in Seq(Event)
        BY <3>1, ProgressIs
    <3> QED BY <3>2, Views
  <2>3. /\ DOMAIN Progress = 1 .. Len(Progress) /\ Len(Progress) \in Nat
        /\ DOMAIN Progress' = 1 .. Len(Progress) + 1
        /\ \A i \in DOMAIN Progress : Progress'[i] = Progress[i]
        /\ Progress'[Len(Progress) + 1] = getter
      BY <2>1, <2>2, AppendProperties, LenProperties, StagesAre DEF Event
  <2>4. last \in Nat /\ \A stage \in Stages : Rank(stage) \in Nat
      BY StagesAre DEF TypeOK
  <2>5. \A i \in DOMAIN Progress' : i \in DOMAIN Progress \/ i = Len(Progress) + 1
      BY <2>3
  <2>6. ASSUME NEW i \in DOMAIN Progress'
        PROVE  Progress'[i] \in Stages /\ Rank(Progress'[i]) <= last'
    <3>1. CASE i \in DOMAIN Progress
      <4>1. Progress[i] \in Stages /\ Rank(Progress[i]) <= last
          BY <3>1 DEF SentInOrder
      <4>2. Rank(Progress[i]) \in Nat
          BY <2>4, <4>1
      <4> QED BY <2>1, <2>3, <2>4, <3>1, <4>1, <4>2
    <3>2. CASE i = Len(Progress) + 1
        BY <2>1, <2>3, <3>2
    <3> QED BY <2>5, <3>1, <3>2
  <2>7. ASSUME NEW i \in DOMAIN Progress', NEW j \in DOMAIN Progress', i < j
        PROVE  Rank(Progress'[i]) < Rank(Progress'[j])
    <3>1. i \in DOMAIN Progress
        BY <2>3, <2>7
    <3>2. CASE j \in DOMAIN Progress
        BY <2>3, <2>7, <3>1, <3>2 DEF SentInOrder
    <3>3. CASE j = Len(Progress) + 1
      <4>1. Progress[i] \in Stages /\ Rank(Progress[i]) <= last
          BY <3>1 DEF SentInOrder
      <4>2. Rank(Progress[i]) \in Nat
          BY <2>4, <4>1
      <4> QED BY <2>1, <2>3, <2>4, <3>1, <3>3, <4>1, <4>2
    <3> QED BY <2>5, <3>2, <3>3
  <2> QED BY <2>1, <2>6, <2>7 DEF SentInOrder
<1>4. CASE Finish \/ (Absorb /\ ending = "error")
  <2>1. Progress' = Progress /\ sent' # <<>> /\ sent'[1] = "accepted"
      BY <1>4, Concludes
  <2>2. UNCHANGED last
      BY <1>4 DEF Finish, Absorb
  <2> QED BY <2>1, <2>2 DEF SentInOrder
<1>5. TracedNext /\ ~StartStream /\ ~(Deliver /\ ~(Rank(getter) <= last))
      /\ ~(Finish \/ (Absorb /\ ending = "error")) => UNCHANGED <<sent, last>>
  <2> SUFFICES ASSUME TracedNext, ~StartStream, ~(Deliver /\ ~(Rank(getter) <= last)),
                      ~(Finish \/ (Absorb /\ ending = "error"))
               PROVE  UNCHANGED <<sent, last>>
      OBVIOUS
  <2>1. CASE QueryStep
      BY <2>1, LoopMoves DEF streamVars
  <2>2. CASE Application
      BY <2>2, ApplicationKeeps DEF streamVars
  <2>3. CASE PassOn
      BY <2>3 DEF PassOn, Resume, Check, Deliver, Beat, Return, Unwind
  <2>4. CASE Call \/ CancelCall \/ TimerFires
      BY <2>4 DEF Call, CancelCall, TimerFires, Timeout, streamVars
  <2>5. CASE HandOnEnd \/ AbandonWaiting \/ AbandonYielding
      BY <2>5 DEF HandOnEnd, AbandonWaiting, AbandonYielding, Absorb, Abandon
  <2> QED BY <2>1, <2>2, <2>3, <2>4, <2>5, Steps
<1>6. UNCHANGED tracedVars => UNCHANGED <<sent, last>>
    BY DEF tracedVars, vars, streamVars
<1> QED BY <1>1, <1>2, <1>3, <1>4, <1>5, <1>6
LEMMA NotToldBefore ==
    ASSUME TypeOK, Phases, at \notin {"terminal", "unwinding", "closed"} \/ runner # "done"
    PROVE  ~Told
BY DEF Phases

LEMMA PhaseStep ==
    ASSUME TypeOK, SentInOrder, Phases, [TracedNext]_tracedVars
    PROVE  Phases'
<1>1. CASE UNCHANGED tracedVars
  <2>1. Told' = Told
      BY <1>1, SameSent DEF tracedVars, vars, streamVars
  <2> QED BY <1>1, <2>1
          DEF Phases, Over, Settled, Serving, tracedVars, traceVars, vars, streamVars, taskVars
<1>2. CASE QueryStep
  <2>1. /\ UNCHANGED <<at, sent, via, outer>> /\ Told' = Told
        /\ runner' = runner \/ (runner \in {"working", "cancelling"} /\ runner' = "done")
        /\ runner = "none" => UNCHANGED emitted
        /\ \/ getter' = getter
           \/ getter = "blocked" /\ getter' = "scheduled"
           \/ getter = "scheduled" /\ getter' \in {"blocked"} \cup Stages
      BY <1>2, LoopMoves, SameSent DEF streamVars
  <2>2. (getter' = "none" <=> getter = "none") /\ (getter' = "cancelled" <=> getter = "cancelled")
      BY <2>1, StagesAre
  <2> QED BY <2>1, <2>2 DEF Phases, Over, Settled, Serving
<1>3. CASE StartStream
  <2>1. sent' = <<"accepted">> /\ ~Told'
      BY <1>3, Views DEF StartStream, Open, ToldOf, Last, Terminal
  <2>2. sent' # <<>>
      BY <2>1
  <2> QED BY <1>3, <2>1, <2>2 DEF StartStream, Open, Phases, Over, Settled, Serving, taskVars
<1>4. CASE Call
  <2>1. Told' = Told
      BY <1>4, SameSent DEF Call, streamVars
  <2> QED BY <1>4, <2>1 DEF Call, Phases, Over, Settled, Serving, streamVars
<1>5. CASE CancelCall
  <2>1. Told' = Told
      BY <1>5, SameSent DEF CancelCall, streamVars
  <2> QED BY <1>5, <2>1 DEF CancelCall, Phases, Over, Settled, Serving, streamVars, traceVars
<1>6. CASE PassOn
  <2>1. CASE Deliver /\ ~(Rank(getter) <= last)
    <3>1. ~Told' /\ sent' # <<>>
        BY <2>1, Advances
    <3> QED BY <1>6, <2>1, <3>1 DEF PassOn, Deliver, Phases, Over, Settled, Serving, traceVars
  <2>2. CASE ~(Deliver /\ ~(Rank(getter) <= last))
    <3>1. UNCHANGED sent
        BY <1>6, <2>2 DEF PassOn, Resume, Check, Deliver, Beat, Return, Unwind
    <3>2. Told' = Told
        BY <3>1, SameSent
    <3>3. UNCHANGED <<via, outer, emitted>>
        BY <1>6 DEF PassOn, traceVars, Resume, Check, Deliver, Beat, Return, Unwind, taskVars
    <3>4. CASE Resume \/ Check
        BY <3>1, <3>2, <3>3, <3>4 DEF Resume, Check, Cancelled, Phases, Over, Settled, Serving
    <3>5. CASE Deliver
        BY <2>2, <3>1, <3>2, <3>3, <3>5 DEF Deliver, Cancelled, Phases, Over, Settled, Serving
    <3>6. CASE Beat
        BY <3>1, <3>2, <3>3, <3>6 DEF Beat, Phases, Over, Settled, Serving, taskVars
    <3>7. CASE Return \/ Unwind
        BY <3>1, <3>2, <3>3, <3>7 DEF Return, Unwind, Phases, Over, Settled, Serving, taskVars
    <3> QED BY <1>6, <3>4, <3>5, <3>6, <3>7 DEF PassOn
  <2> QED BY <2>1, <2>2
<1>7. CASE HandOnEnd
  <2>1. CASE Finish \/ (Absorb /\ ending = "error")
    <3>1. Told' /\ sent' # <<>>
        BY <2>1, Concludes
    <3> QED BY <1>7, <2>1, <3>1 DEF HandOnEnd, Finish, Absorb, Phases, Over, Settled, Serving, taskVars
  <2>2. CASE Absorb /\ ending # "error"
    <3>1. Told' = Told
        BY <2>2, SameSent DEF Absorb
    <3> QED BY <1>7, <2>2, <3>1 DEF HandOnEnd, Absorb, Phases, Over, Settled, Serving, taskVars
  <2> QED BY <1>7, <2>1, <2>2 DEF HandOnEnd
<1>8. CASE TimerFires \/ AbandonWaiting \/ AbandonYielding
  <2>1. Told' = Told
      BY <1>8, SameSent DEF TimerFires, Timeout, AbandonWaiting, AbandonYielding, Abandon, streamVars
  <2>2. CASE TimerFires
      BY <2>1, <2>2 DEF TimerFires, Timeout, Phases, Over, Settled, Serving, streamVars, taskVars, traceVars
  <2>3. CASE AbandonWaiting
      BY <2>1, <2>3 DEF AbandonWaiting, Abandon, Phases, Over, Settled, Serving, taskVars, traceVars, Yielding
  <2>4. CASE AbandonYielding
      BY <2>1, <2>4 DEF AbandonYielding, Abandon, EndTrace, Phases, Over, Settled, Serving, taskVars, Yielding
  <2> QED BY <1>8, <2>2, <2>3, <2>4
<1>9. CASE Application
  <2>1. UNCHANGED <<at, sent, runner, emitted, getter>> /\ Told' = Told
      BY <1>9, ApplicationKeeps, SameSent DEF streamVars, taskVars
  <2>2. /\ UNCHANGED via
        /\ \/ UNCHANGED outer
           \/ outer' \in Over /\ outer \in {"observing", "calling"} /\ (outer = "calling" => runner = "done")
              /\ (outer = "observing" => at = "closed")
           \/ outer' \in Over /\ outer \in Over
      BY <1>9 DEF Application, StreamOver, CallOver, Persist, ClientLeaves, OtherExports,
                  OtherTaken, EndTrace, traceVars, Over
  <2> QED BY <2>1, <2>2 DEF Phases, Over, Settled, Serving
<1> QED BY <1>1, <1>2, <1>3, <1>4, <1>5, <1>6, <1>7, <1>8, <1>9, Steps
LEMMA StatusStep ==
    ASSUME TraceInv, [TracedNext]_tracedVars
    PROVE  StatusTold'
<1>1. TypeOK /\ SentInOrder /\ Phases /\ StatusTold
    BY DEF TraceInv
<1>2. CASE /\ UNCHANGED <<sent, via, status>>
           /\ via = "call" /\ outer' \in Over => outer \in Over /\ UNCHANGED result
  <2>1. Told' = Told
      BY <1>2, SameSent
  <2> QED BY <1>1, <1>2, <2>1 DEF StatusTold
<1>3. CASE StartStream
  <2>1. sent' = <<"accepted">> /\ ~Told'
      BY <1>3, Views DEF StartStream, Open, ToldOf, Last, Terminal
  <2>2. via = "none" /\ via' = "stream" /\ UNCHANGED status
      BY <1>1, <1>3 DEF StartStream, Phases
  <2> QED BY <1>1, <2>1, <2>2 DEF StatusTold
<1>4. CASE HandOnEnd
  <2>1. via = "stream" /\ UNCHANGED via
      BY <1>1, <1>4 DEF HandOnEnd, Finish, Absorb, Phases
  <2>2. CASE Finish \/ (Absorb /\ ending = "error")
    <3>1. Told' /\ sent' # sent
        BY <1>1, <2>2, Concludes
    <3>2. status' = StatusOf(Last(sent'))
        BY <1>4, <3>1 DEF HandOnEnd
    <3> QED BY <2>1, <3>1, <3>2 DEF StatusTold
  <2>3. CASE Absorb /\ ending # "error"
    <3>1. UNCHANGED sent
        BY <2>3 DEF Absorb
    <3>2. Told' = Told /\ UNCHANGED status
        BY <1>4, <3>1, SameSent DEF HandOnEnd
    <3> QED BY <1>1, <2>1, <3>1, <3>2 DEF StatusTold
  <2> QED BY <1>4, <2>2, <2>3 DEF HandOnEnd
<1>5. CASE CallOver
  <2>1. /\ via = "call" /\ UNCHANGED <<via, result>>
        /\ status' = IF result = "answer" THEN "answered" ELSE "error"
      BY <1>1, <1>5 DEF CallOver, Phases, vars, taskVars
  <2> QED BY <2>1 DEF StatusTold
<1>6. CASE Call
  <2>1. via' = "call" /\ outer' = "calling"
      BY <1>6 DEF Call
  <2> QED BY <2>1 DEF StatusTold, Over, Settled
<1>7. CASE Deliver /\ PassOn
  <2>1. via = "stream" /\ UNCHANGED <<via, status>> /\ ~Told
      BY <1>1, <1>7 DEF Deliver, PassOn, Phases, traceVars
  <2>2. ~Told'
    <3>1. CASE Rank(getter) <= last
      <4>1. UNCHANGED sent
          BY <1>7, <3>1 DEF Deliver
      <4> QED BY <2>1, <4>1, SameSent
    <3>2. CASE ~(Rank(getter) <= last)
        BY <1>1, <1>7, <3>2, Advances
    <3> QED BY <3>1, <3>2
  <2> QED BY <1>1, <2>1, <2>2 DEF StatusTold
<1>8. ASSUME TracedNext, ~StartStream, ~HandOnEnd, ~CallOver, ~Call, ~(Deliver /\ PassOn)
      PROVE  /\ UNCHANGED <<sent, via, status>>
             /\ via = "call" /\ outer' \in Over => outer \in Over /\ UNCHANGED result
  <2>1. CASE QueryStep
    <3>1. UNCHANGED <<sent, via, outer, status>>
        BY <1>1, <2>1, LoopMoves DEF streamVars
    <3>2. via = "call" /\ outer \in Over => runner = "done"
        BY <1>1 DEF Phases
    <3>3. runner = "done" => UNCHANGED result
        BY <1>1, <2>1, LoopMoves
    <3> QED BY <3>1, <3>2, <3>3
  <2>2. CASE Application
    <3>1. UNCHANGED <<sent, result>>
        BY <2>2, ApplicationKeeps DEF streamVars, taskVars
    <3>2. /\ UNCHANGED <<via, status>>
          /\ outer' \in Over => outer \in Over \/ outer = "observing"
        BY <1>8, <2>2 DEF Application, StreamOver, Persist, ClientLeaves, OtherExports,
                          OtherTaken, EndTrace, traceVars, Over
    <3> QED BY <1>1, <3>1, <3>2 DEF Phases
  <2>3. CASE PassOn
      BY <1>8, <2>3 DEF PassOn, Resume, Check, Beat, Return, Unwind, traceVars, taskVars
  <2>4. CASE CancelCall \/ TimerFires \/ AbandonWaiting
      BY <2>4 DEF CancelCall, TimerFires, Timeout, AbandonWaiting, Abandon, traceVars, streamVars,
                  taskVars
  <2>5. CASE AbandonYielding
      BY <1>1, <2>5 DEF AbandonYielding, Abandon, EndTrace, Phases, Yielding
  <2> QED BY <1>8, <2>1, <2>2, <2>3, <2>4, <2>5, Steps
<1>9. UNCHANGED tracedVars =>
          /\ UNCHANGED <<sent, via, status>>
          /\ via = "call" /\ outer' \in Over => outer \in Over /\ UNCHANGED result
    BY DEF tracedVars, traceVars, vars, streamVars, taskVars
<1> QED BY <1>2, <1>3, <1>4, <1>5, <1>6, <1>7, <1>8, <1>9

(* The buffer gives up the trace that has an outcome: all of its spans had *)
(* ended.                                                                  *)
LEMMA TakenWhole ==
    ASSUME TypeOK, Accounted, outer \notin Over, runner = "done",
           taken' = [stages |-> kept, root |-> kept < MaxSpans],
           kept' = 0, UNCHANGED <<lost, emitted, runner>>
    PROVE  /\ taken'.stages + lost' = Len(emitted')
           /\ taken'.root \/ taken'.stages = MaxSpans
           /\ kept' = 0 /\ runner' = "done"
<1>1. kept \in 0 .. MaxSpans /\ MaxSpans \in Nat /\ Len(emitted) \in Nat
    BY BufferAssumption DEF TypeOK
<1>2. kept + lost = Len(emitted)
  <2>1. Ended = Len(emitted) - 0
      BY DEF Ended
  <2> QED BY <1>1, <2>1 DEF Accounted
<1>3. kept = MaxSpans \/ kept < MaxSpans
    BY <1>1
<1> QED BY <1>1, <1>2, <1>3

LEMMA AccountedStep ==
    ASSUME TraceInv, [TracedNext]_tracedVars
    PROVE  Accounted'
<1>1. /\ TypeOK /\ SentInOrder /\ Phases /\ StatusTold
      /\ Accounted /\ OutcomeHasWholeTrace
    BY DEF TraceInv, Accounted
<1>2. CASE UNCHANGED <<emitted, runner, kept, lost, outer, status, taken>>
  <2>1. Ended' = Ended
      BY <1>2 DEF Ended
  <2> QED BY <1>1, <1>2, <2>1 DEF Accounted, OutcomeHasWholeTrace
<1>3. CASE QueryStep
  <2>1. /\ UNCHANGED <<outer, status, taken>> /\ kept' + lost' = kept + lost + (Ended' - Ended)
        /\ (Ended' - Ended) \in Nat /\ Ended \in Nat
        /\ Ended' - Ended = 0 => UNCHANGED <<kept, lost>>
        /\ runner = "done" => Ended' = Ended
      BY <1>1, <1>3, LoopMoves, EndedGrows, ExportCounts
  <2>2. /\ runner' = runner \/ runner # "done"
        /\ runner = "done" => UNCHANGED emitted
      BY <1>1, <1>3, LoopMoves
  <2>3. OutcomeHasWholeTrace'
    <3>1. CASE runner = "done"
      <4>1. Ended' - Ended = 0
          BY <2>1, <3>1
      <4> QED BY <1>1, <2>1, <2>2, <3>1, <4>1 DEF OutcomeHasWholeTrace
    <3>2. CASE runner # "done"
        BY <1>1, <2>1, <3>2 DEF OutcomeHasWholeTrace, Over
    <3> QED BY <3>1, <3>2
  <2>4. outer' \notin Over => kept' + lost' = Ended'
    <3>1. Ended' = Ended + (Ended' - Ended)
      <4>1. Ended' \in Nat
          BY <1>1, <1>3, EndedGrows
      <4>2. \A a, b \in Nat : a = b + (a - b)
          OBVIOUS
      <4> QED BY <2>1, <4>1, <4>2, Zenon
    <3> QED BY <1>1, <2>1, <3>1 DEF Accounted
  <2> QED BY <2>3, <2>4 DEF Accounted
<1>4. CASE AbandonYielding \/ StreamOver
  <2>1. /\ outer = "observing" /\ outer' = "recording" /\ UNCHANGED <<emitted, runner, status, lost>>
        /\ taken' = [stages |-> kept, root |-> kept < MaxSpans] /\ kept' = 0
      BY <1>1, <1>4 DEF AbandonYielding, Abandon, Yielding, StreamOver, EndTrace, Phases, vars,
                        taskVars
  <2>2. status' # "cancelled" => runner = "done"
      BY <1>1, <2>1 DEF Phases, StatusTold
  <2>3. OutcomeHasWholeTrace'
    <3>1. CASE runner = "done"
        BY <1>1, <2>1, <3>1, TakenWhole DEF OutcomeHasWholeTrace, Over, Settled
    <3>2. CASE runner # "done"
        BY <2>2, <3>2 DEF OutcomeHasWholeTrace
    <3> QED BY <3>1, <3>2
  <2> QED BY <2>1, <2>3 DEF Accounted, Over
<1>5. CASE CallOver
  <2>1. /\ outer = "calling" /\ runner = "done" /\ outer' = "recording"
        /\ UNCHANGED <<emitted, runner, lost>>
        /\ taken' = [stages |-> kept, root |-> kept < MaxSpans] /\ kept' = 0
      BY <1>5 DEF CallOver, vars, taskVars
  <2>2. OutcomeHasWholeTrace'
      BY <1>1, <2>1, TakenWhole DEF OutcomeHasWholeTrace, Over, Settled
  <2> QED BY <2>1, <2>2 DEF Accounted, Over
<1>6. CASE OtherExports
  <2>1. kept' + lost' = kept + lost
    <3>1. kept \in 0 .. MaxSpans /\ lost \in Nat /\ MaxSpans \in Nat
        BY <1>1, BufferAssumption DEF TypeOK
    <3> QED BY <1>6, <3>1 DEF OtherExports
  <2>2. UNCHANGED <<emitted, runner, outer, status, taken>> /\ kept > 0
      BY <1>6 DEF OtherExports, vars, taskVars
  <2>3. Ended' = Ended
      BY <2>2 DEF Ended
  <2>4. OutcomeHasWholeTrace'
      BY <1>1, <2>2 DEF OutcomeHasWholeTrace
  <2> QED BY <1>1, <2>1, <2>2, <2>3, <2>4 DEF Accounted
<1>7. CASE Persist
  <2>1. outer = "recording" /\ outer' \in Settled /\ UNCHANGED <<emitted, runner, status, taken, kept, lost>>
      BY <1>7 DEF Persist, vars, taskVars, bufferVars
  <2> QED BY <1>1, <2>1 DEF Accounted, OutcomeHasWholeTrace, Over
<1>8. CASE StartStream \/ Call
  <2>1. /\ outer = "idle" /\ outer' \notin Over /\ UNCHANGED <<emitted, kept, lost>>
        /\ runner' = runner \/ runner = "none"
      BY <1>1, <1>8 DEF StartStream, Open, Call, taskVars, bufferVars, Over, Settled, Phases
  <2>2. emitted = <<>>
      BY <1>1, <2>1 DEF Phases
  <2>3. Ended' = Ended
      BY <2>1, <2>2 DEF Ended
  <2>4. OutcomeHasWholeTrace'
      BY <2>1 DEF OutcomeHasWholeTrace, Over
  <2> QED BY <1>1, <2>1, <2>3, <2>4 DEF Accounted, Over, Settled
<1>9. CASE HandOnEnd
  <2>1. /\ outer = "observing" /\ UNCHANGED <<emitted, runner, kept, lost, outer>>
      BY <1>1, <1>9 DEF HandOnEnd, Finish, Absorb, Phases, taskVars, bufferVars
  <2>2. Ended' = Ended
      BY <2>1 DEF Ended
  <2>3. OutcomeHasWholeTrace'
      BY <2>1 DEF OutcomeHasWholeTrace, Settled
  <2> QED BY <1>1, <2>1, <2>2, <2>3 DEF Accounted
<1>10. CASE PassOn \/ CancelCall
  <2>1. /\ UNCHANGED <<emitted, kept, lost, outer, status, taken>>
        /\ \/ runner' = runner
           \/ runner = "none" /\ at = "yielding"
           \/ runner = "working" /\ runner' = "cancelling"
      BY <1>10 DEF PassOn, CancelCall, Resume, Check, Deliver, Beat, Return, Unwind, Cancelled,
                   taskVars, traceVars, bufferVars
  <2>2. Ended' = Ended
    <3>1. runner = "none" => emitted = <<>>
        BY <1>1 DEF Phases
    <3> QED BY <2>1, <3>1 DEF Ended
  <2>3. OutcomeHasWholeTrace'
    <3>1. CASE runner = "done"
        BY <1>1, <2>1, <3>1 DEF OutcomeHasWholeTrace
    <3>2. CASE runner # "done"
        BY <1>1, <2>1, <3>2 DEF OutcomeHasWholeTrace
    <3> QED BY <3>1, <3>2
  <2> QED BY <1>1, <2>1, <2>2, <2>3 DEF Accounted
<1>11. CASE TimerFires \/ AbandonWaiting \/ ClientLeaves
    BY <1>2, <1>11 DEF TimerFires, Timeout, AbandonWaiting, Abandon, ClientLeaves, Leave, traceVars,
                       taskVars, bufferVars
<1>12. CASE OtherTaken
    BY <1>2, <1>12 DEF OtherTaken, vars, taskVars
<1>13. CASE UNCHANGED tracedVars
    BY <1>2, <1>13 DEF tracedVars, traceVars, vars, taskVars, bufferVars
<1> QED BY <1>3, <1>4, <1>5, <1>6, <1>7, <1>8, <1>9, <1>10, <1>11, <1>12, <1>13, Steps
        DEF Application
-----------------------------------------------------------------------------
LEMMA CallbackStep ==
    ASSUME IInv, SettlesInDatabase, [TracedNext]_tracedVars
    PROVE  Callbacks'
<1>1. /\ at \in Serving => runner # "cancelling"
      /\ at \notin {"new", "unwinding", "closed"} => outer = "observing"
      /\ outer = "calling" => at = "new"
    BY DEF IInv, TraceInv, Phases
<1>2. CASE UNCHANGED <<at, woken, runner, getter, ready, queue>>
    BY <1>2, QuietLoop
<1>3. CASE QueryStep
  <2>1. CASE RunnerReady
      BY <2>1, ReadyCallbacks
  <2>2. CASE RunCancelled
      BY <1>1, <2>2, QuietLoop DEF RunCancelled, Serving, streamVars, loopVars
  <2>3. CASE Run
      BY <2>3, SomeStages, QueryCallbacks
  <2>4. CASE GetterStep \/ Notified \/ WakeNobody
      BY <2>4, GetterCallbacks, NotifiedCallbacks, WakeNobodyCallbacks
  <2> QED BY <1>3, <2>1, <2>2, <2>3, <2>4 DEF QueryStep, EventLoop
<1>4. CASE StartStream
    BY <1>4, QuietLoop DEF StartStream, Open, taskVars, loopVars
<1>5. CASE PassOn
  <2>1. CASE Resume \/ Check
      BY <2>1, ResumeCallbacks, CheckCallbacks
  <2>2. CASE Deliver
    <3>1. /\ Woken /\ at' # "waiting" /\ UNCHANGED queue /\ getter' \in {getter, "none"}
          /\ runner' = "none" => runner = "none"
        BY <2>2 DEF Deliver, Cancelled
    <3> QED BY <3>1, AwakeCallbacks
  <2>3. CASE Beat
      BY <2>3, AwakeCallbacks DEF Beat, taskVars
  <2>4. CASE Return
      BY <2>4, QuietLoop DEF Return, taskVars, loopVars
  <2>5. CASE Unwind
    <3>1. /\ UNCHANGED <<ready, queue, woken>> /\ getter' \in {getter, "cancelled"}
          /\ at = "unwinding" /\ at' \in {"unwinding", "closed"}
          /\ runner' = "none" => runner = "none"
        BY <2>5 DEF Unwind, loopVars
    <3> QED BY <3>1, QuietLoop
  <2> QED BY <1>5, <2>1, <2>2, <2>3, <2>4, <2>5 DEF PassOn
<1>6. CASE TimerFires
  <2>1. /\ at = "waiting" /\ ~woken /\ woken' = TRUE /\ ready' = Append(ready, "wake")
        /\ UNCHANGED <<at, getter, queue, runner>>
      BY <1>6 DEF TimerFires, Timeout, streamVars, taskVars
  <2> QED BY <2>1, WakeCallbacks
<1>7. CASE HandOnEnd
  <2>1. CASE Finish
      BY <2>1, AwakeCallbacks DEF Finish
  <2>2. CASE Absorb
      BY <2>2, QuietLoop DEF Absorb, taskVars, loopVars
  <2> QED BY <1>7, <2>1, <2>2 DEF HandOnEnd
<1>8. CASE AbandonWaiting \/ AbandonYielding
    BY <1>8, QuietLoop DEF AbandonWaiting, AbandonYielding, Abandon, taskVars, loopVars
<1>9. CASE Call
    BY <1>9, CallCallbacks
<1>10. CASE CancelCall
    BY <1>1, <1>10, QuietLoop DEF CancelCall, streamVars, loopVars
<1>11. CASE Application
    BY <1>2, <1>11, ApplicationKeeps DEF streamVars, taskVars, loopVars
<1>12. CASE UNCHANGED tracedVars
    BY <1>2, <1>12 DEF tracedVars, vars, streamVars, taskVars, loopVars
<1> QED BY <1>3, <1>4, <1>5, <1>6, <1>7, <1>8, <1>9, <1>10, <1>11, <1>12, Steps

(* When the query has ended and the stream wakes for it, the progress task *)
(* has run already: nothing is left that it could hand over.               *)
LEMMA NothingLeft ==
    ASSUME IInv, Finish
    PROVE  queue = <<>> /\ HeldOf(getter) = <<>> /\ getter = "blocked"
<1>1. /\ getter \in {"scheduled", "blocked"}
      /\ ready # <<>> /\ Head(ready) = "wake" /\ runner = "done" /\ at = "waiting"
  <2>1. /\ at = "waiting" /\ getter \notin Stages /\ runner = "done"
        /\ ready # <<>> /\ Head(ready) = "wake"
      BY DEF Finish, Woken, Holding
  <2> QED BY <2>1 DEF IInv, TraceInv, TypeOK, Phases, Serving
<1>2. getter # "scheduled"
  <2> SUFFICES ASSUME getter = "scheduled"  PROVE FALSE
      OBVIOUS
  <2>1. 1 \in DOMAIN ready /\ ready[1] = "wake"
    <3>1. ready \in Seq(CallbackKind)
        BY DEF IInv, TraceInv, TypeOK
    <3>2. Len(ready) \in Nat \ {0} /\ DOMAIN ready = 1 .. Len(ready)
        BY <1>1, <3>1, EmptySeq, LenProperties
    <3> QED BY <1>1, <3>1, <3>2
  <2>2. \E k \in 1 .. 1 - 1 : ready[k] = "getter"
      BY <1>1, <2>1 DEF IInv, Callbacks, GetterFirst
  <2> QED BY <2>2
<1> QED BY <1>1, <1>2, StagesAre DEF IInv, Callbacks, GetterRuns, HeldOf
LEMMA ProgressTyped ==
    ASSUME TypeOK, SentInOrder, Phases
    PROVE  Progress \in Seq(Stages) /\ Progress \in Seq(Event)
<1>1. CASE sent = <<>>
  <2>1. Progress = <<>>
      BY <1>1, Views, NoProgress
  <2> QED BY <2>1
<1>2. CASE sent # <<>>
  <2>1. ProgressOf(sent) \in Seq(Event)
      BY <1>2, ProgressIs DEF TypeOK, SentInOrder
  <2>2. Progress \in Seq(Event) /\ \A i \in DOMAIN Progress : Progress[i] \in Stages
      BY <2>1, Views DEF SentInOrder
  <2>3. Progress \in [1 .. Len(Progress) -> Stages] /\ Len(Progress) \in Nat
      BY <2>2, LenProperties
  <2> QED BY <2>2, <2>3, SeqDef
<1> QED BY <1>1, <1>2

LEMMA HeldTyped == \A g : HeldOf(g) \in Seq(Stages)
BY DEF HeldOf

LEMMA StagesJoin ==
    ASSUME NEW p \in Seq(Stages), NEW q \in Seq(Stages), NEW r \in Seq(Stages)
    PROVE  (p \o q) \o r = p \o (q \o r) /\ p \o q \in Seq(Stages)
BY ConcatAssociative, ConcatProperties

LEMMA HeadAndTail ==
    ASSUME NEW q \in Seq(Stages), q # <<>>
    PROVE  q = <<Head(q)>> \o Tail(q)
<1> DEFINE t == <<Head(q)>> \o Tail(q)
<1>1. /\ Head(q) \in Stages /\ Tail(q) \in Seq(Stages) /\ Len(Tail(q)) = Len(q) - 1
      /\ \A i \in 1 .. Len(Tail(q)) : Tail(q)[i] = q[i + 1]
      /\ Len(q) \in Nat \ {0} /\ Head(q) = q[1]
    BY HeadTailProperties, EmptySeq
<1>2. <<Head(q)>> \in Seq(Stages) /\ Len(<<Head(q)>>) = 1 /\ <<Head(q)>>[1] = q[1]
    BY <1>1
<1>3. /\ t \in Seq(Stages) /\ Len(t) = 1 + Len(Tail(q))
      /\ \A i \in 1 .. 1 + Len(Tail(q)) :
            t[i] = IF i <= 1 THEN <<Head(q)>>[i] ELSE Tail(q)[i - 1]
    BY <1>1, <1>2, ConcatProperties
<1> HIDE DEF t
<1>4. Len(t) = Len(q)
    BY <1>1, <1>3
<1>5. ASSUME NEW i \in 1 .. Len(q)  PROVE t[i] = q[i]
  <2>1. CASE i = 1
      BY <1>1, <1>2, <1>3, <2>1
  <2>2. CASE i # 1
    <3>1. i - 1 \in 1 .. Len(Tail(q)) /\ ~(i <= 1) /\ (i - 1) + 1 = i /\ i \in 1 .. 1 + Len(Tail(q))
        BY <1>1, <2>2
    <3> QED BY <1>1, <1>3, <3>1
  <2> QED BY <2>1, <2>2
<1>6. t = q
    BY <1>3, <1>4, <1>5, SeqEqual
<1> QED BY <1>6 DEF t

LEMMA DeliveredStep ==
    ASSUME IInv, SettlesInDatabase, [TracedNext]_tracedVars
    PROVE  Delivered'
<1>1. /\ TypeOK /\ SentInOrder /\ Phases /\ Delivered
      /\ emitted \in Seq(Stages) /\ queue \in Seq(Stages)
      /\ Progress \in Seq(Stages) /\ HeldOf(getter) \in Seq(Stages)
  <2>1. TypeOK /\ SentInOrder /\ Phases /\ Delivered
      BY DEF IInv, TraceInv
  <2> QED BY <2>1, ProgressTyped, HeldTyped DEF TypeOK
<1>2. CASE /\ UNCHANGED <<emitted, queue, sent, last>>
           /\ getter' = getter \/ {getter, getter'} \cap Stages = {}
           /\ at' = "absorbing" /\ ending' = "error" =>
                  Holding /\ getter' = getter /\ Rank(getter) <= last
  <2>1. Progress' = Progress /\ Told' = Told /\ HeldOf(getter') = HeldOf(getter)
      BY <1>2, SameSent DEF HeldOf
  <2>2. Holding => getter' = getter
      BY <1>2 DEF Holding
  <2> QED BY <1>1, <1>2, <2>1, <2>2 DEF Delivered, Holding
<1>3. CASE QueryStep
  <2>1. /\ UNCHANGED <<at, ending, sent, last>> /\ Progress' = Progress /\ Told' = Told
      BY <1>1, <1>3, LoopMoves, SameSent DEF streamVars
  <2>2. at = "absorbing" /\ ending = "error" => Holding /\ Rank(getter) <= last
      BY <1>1 DEF Delivered
  <2>3. CASE RunnerReady \/ RunCancelled \/ Notified \/ WakeNobody
    <3>1. UNCHANGED <<emitted, queue, getter>>
        BY <2>3 DEF RunnerReady, RunCancelled, Notified, WakeNobody, taskVars
    <3> QED BY <1>2, <2>1, <2>2, <3>1
  <2>4. CASE Run
    <3>1. PICK stages \in Seq(Stages), end \in {"none", "answer", "failure"} : RunStep(stages, end)
        BY <2>4, SomeStages
    <3>2. /\ emitted' = emitted \o stages /\ queue' = queue \o stages /\ runner = "working"
          /\ getter' = getter \/ (getter = "blocked" /\ getter' = "scheduled")
        BY <3>1 DEF RunStep
    <3>3. HeldOf(getter') = HeldOf(getter) /\ (Holding => getter' = getter)
        BY <3>2, StagesAre DEF HeldOf, Holding
    <3>4. emitted' = (Progress \o HeldOf(getter)) \o (queue \o stages)
      <4>1. Progress \o HeldOf(getter) \in Seq(Stages)
          BY <1>1, StagesJoin
      <4>2. ((Progress \o HeldOf(getter)) \o queue) \o stages =
                (Progress \o HeldOf(getter)) \o (queue \o stages)
          BY <1>1, <4>1, StagesJoin
      <4> QED BY <1>1, <3>2, <4>2 DEF Delivered
    <3>5. ~Told
        BY <1>1, <3>2 DEF Phases
    <3> QED BY <2>1, <2>2, <3>2, <3>3, <3>4, <3>5 DEF Delivered, Holding
  <2>5. CASE GetterStep
    <3>1. CASE getter = "scheduled" /\ queue # <<>>
      <4>1. UNCHANGED emitted /\ getter' = Head(queue) /\ queue' = Tail(queue)
          BY <2>5, <3>1 DEF GetterStep
      <4>2. /\ Head(queue) \in Stages /\ Tail(queue) \in Seq(Stages)
            /\ queue = <<Head(queue)>> \o Tail(queue)
          BY <1>1, <3>1, HeadTailProperties, HeadAndTail
      <4>3. HeldOf(getter) = <<>> /\ HeldOf(getter') = <<Head(queue)>> /\ ~Holding
          BY <3>1, <4>1, <4>2, StagesAre DEF HeldOf, Holding
      <4>4. emitted' = (Progress' \o HeldOf(getter')) \o queue'
        <5>1. emitted = Progress \o queue
            BY <1>1, <4>3, ConcatEmptySeq DEF Delivered
        <5>2. <<Head(queue)>> \in Seq(Stages)
            BY <4>2
        <5>3. (Progress \o <<Head(queue)>>) \o Tail(queue) = Progress \o (<<Head(queue)>> \o Tail(queue))
            BY <1>1, <4>2, <5>2, StagesJoin
        <5> QED BY <2>1, <4>1, <4>2, <4>3, <5>1, <5>3
      <4> QED BY <1>1, <2>1, <2>2, <4>1, <4>3, <4>4 DEF Delivered
    <3>2. CASE ~(getter = "scheduled" /\ queue # <<>>)
      <4>1. /\ UNCHANGED <<emitted, queue>>
            /\ getter' = IF getter = "scheduled" THEN "blocked" ELSE getter
          BY <2>5, <3>2 DEF GetterStep
      <4>2. getter' = getter \/ {getter, getter'} \cap Stages = {}
          BY <4>1, StagesAre
      <4>3. Holding => getter' = getter
          BY <4>1, StagesAre DEF Holding
      <4> QED BY <1>2, <2>1, <2>2, <4>1, <4>2, <4>3
    <3> QED BY <3>1, <3>2
  <2> QED BY <1>3, <2>3, <2>4, <2>5 DEF QueryStep, EventLoop
<1>4. CASE StartStream
  <2>1. /\ UNCHANGED <<emitted, queue, getter>> /\ sent = <<>> /\ sent' = <<"accepted">>
        /\ at' = "yielding"
      BY <1>1, <1>4 DEF StartStream, Open, taskVars, Phases
  <2>2. Progress' = Progress
      BY <2>1, Views, NoProgress
  <2>3. ~Told'
      BY <2>1, Views DEF ToldOf, Last, Terminal
  <2> QED BY <1>1, <2>1, <2>2, <2>3 DEF Delivered
<1>5. CASE PassOn
  <2>1. CASE Deliver /\ ~(Rank(getter) <= last)
    <3>1. /\ ~Told' /\ Progress' = Append(Progress, getter) /\ getter \in Stages
          /\ getter' = "none" /\ UNCHANGED <<emitted, queue>> /\ at' = "yielding"
        BY <1>1, <2>1, Advances DEF Deliver
    <3>2. HeldOf(getter) = <<getter>> /\ HeldOf(getter') = <<>>
        BY <3>1, StagesAre DEF HeldOf
    <3>3. Progress' = Progress \o <<getter>> /\ Progress' \in Seq(Stages)
        BY <1>1, <3>1, AppendIsConcat, AppendProperties
    <3>4. Progress' \o <<>> = Progress'
        BY <3>3, ConcatEmptySeq
    <3>5. emitted' = (Progress' \o HeldOf(getter')) \o queue'
        BY <1>1, <3>1, <3>2, <3>3, <3>4 DEF Delivered
    <3> QED BY <3>1, <3>5 DEF Delivered
  <2>2. CASE Deliver /\ Rank(getter) <= last
      BY <1>2, <2>2 DEF Deliver
  <2>3. CASE Resume
    <3>1. getter' = getter \/ (getter = "none" /\ getter' = "scheduled")
        BY <2>3 DEF Resume
    <3>2. getter' = getter \/ {getter, getter'} \cap Stages = {}
        BY <3>1, StagesAre
    <3> QED BY <1>2, <2>3, <3>2 DEF Resume
  <2>4. CASE Check \/ Beat \/ Return
    <3>1. at' = "absorbing" => ending' = "quiet"
        BY <2>4 DEF Check, Beat, Return
    <3> QED BY <1>2, <2>4, <3>1 DEF Check, Beat, Return, taskVars
  <2>5. CASE Unwind
    <3>1. getter' = getter \/ (getter \in {"scheduled", "blocked"} /\ getter' = "cancelled")
        BY <2>5 DEF Unwind
    <3>2. getter' = getter \/ {getter, getter'} \cap Stages = {}
        BY <3>1, StagesAre
    <3>3. UNCHANGED <<emitted, queue, sent, last>> /\ at' # "absorbing"
        BY <2>5 DEF Unwind
    <3> QED BY <1>2, <3>2, <3>3
  <2> QED BY <1>5, <2>1, <2>2, <2>3, <2>4, <2>5 DEF PassOn
<1>6. CASE HandOnEnd
  <2>1. CASE Finish
    <3>1. Told' /\ Progress' = Progress
        BY <1>1, <2>1, Concludes
    <3>2. /\ UNCHANGED <<emitted, queue, last>> /\ getter' = "cancelled" /\ at' = "terminal"
        BY <2>1 DEF Finish
    <3>3. queue = <<>> /\ HeldOf(getter) = <<>> /\ HeldOf(getter') = <<>>
        BY <2>1, <3>2, NothingLeft, StagesAre DEF HeldOf
    <3>4. emitted = Progress /\ (Progress \o <<>>) \o <<>> = Progress
        BY <1>1, <3>3, ConcatEmptySeq DEF Delivered
    <3> QED BY <3>1, <3>2, <3>3, <3>4 DEF Delivered
  <2>2. CASE Absorb /\ ending = "error"
    <3>1. Told' /\ Progress' = Progress
        BY <1>1, <2>2, Concludes
    <3>2. UNCHANGED <<emitted, queue, last, getter>> /\ at' = "terminal" /\ at = "absorbing"
        BY <2>2 DEF Absorb, taskVars
    <3> QED BY <1>1, <2>2, <3>1, <3>2 DEF Delivered, Holding
  <2>3. CASE Absorb /\ ending # "error"
      BY <1>2, <2>3 DEF Absorb, taskVars
  <2> QED BY <1>6, <2>1, <2>2, <2>3 DEF HandOnEnd
<1>7. CASE AbandonWaiting \/ AbandonYielding \/ TimerFires
    BY <1>2, <1>7 DEF AbandonWaiting, AbandonYielding, Abandon, TimerFires, Timeout, streamVars,
                      taskVars
<1>8. CASE Call \/ CancelCall
  <2>1. UNCHANGED <<emitted, queue, sent, last, getter, at, ending>>
      BY <1>8 DEF Call, CancelCall, streamVars
  <2> QED BY <1>1, <1>2, <2>1 DEF Delivered
<1>9. CASE Application \/ UNCHANGED tracedVars
  <2>1. UNCHANGED <<emitted, queue, sent, last, getter, at, ending>>
      BY <1>9, ApplicationKeeps DEF tracedVars, vars, streamVars, taskVars
  <2> QED BY <1>1, <1>2, <2>1 DEF Delivered
<1> QED BY <1>3, <1>4, <1>5, <1>6, <1>7, <1>8, <1>9, Steps
-----------------------------------------------------------------------------
LEMMA TraceInvInit == TracedInit => TraceInv
<1> SUFFICES ASSUME TracedInit  PROVE TraceInv
    OBVIOUS
<1>1. TypeOK
    BY TypeInit
<1>2. Progress = <<>> /\ ~Told /\ sent = <<>>
    BY Views, NoProgress DEF TracedInit, Init, ToldOf
<1>3. SentInOrder
    BY <1>2 DEF SentInOrder
<1>4. Phases
    BY <1>2 DEF TracedInit, Init, Phases, Serving, Over, Settled
<1>5. StatusTold
    BY DEF TracedInit, StatusTold
<1>6. Accounted
  <2>1. Ended = 0
      BY DEF TracedInit, Init, Ended
  <2> QED BY <2>1 DEF TracedInit, Accounted, OutcomeHasWholeTrace, Settled
<1> QED BY <1>1, <1>3, <1>4, <1>5, <1>6 DEF TraceInv

LEMMA TraceInvStep == TraceInv /\ [TracedNext]_tracedVars => TraceInv'
BY TypeStep, SentStep, PhaseStep, StatusStep, AccountedStep DEF TraceInv

(* The trace's part holds however the reservation of a query is settled.   *)
THEOREM TraceInductive == Spec => []TraceInv
<1>1. TracedInit => TraceInv
    BY TraceInvInit
<1>2. TraceInv /\ [TracedNext]_tracedVars => TraceInv'
    BY TraceInvStep
<1> QED BY <1>1, <1>2, PTL DEF Spec

(* The stored trace of a query agrees with what its client saw, and one    *)
(* that tells an outcome lacks only what the buffer had dropped:           *)
(* KnowledgeApplication, TraceService.record and the exporter, for any     *)
(* number of events, spans and traces.                                     *)
THEOREM TraceTells == Spec => []TraceTellsOutcome
<1>1. TraceInv => TraceTellsOutcome
  <2> SUFFICES ASSUME TraceInv  PROVE TraceTellsOutcome
      OBVIOUS
  <2>1. /\ outer \in Over => via \in {"stream", "call"}
        /\ Over = {"recording"} \cup Settled
      BY DEF TraceInv, TypeOK, Phases, Over, Settled
  <2>2. OutcomeIsTold
      BY <2>1 DEF TraceInv, StatusTold, OutcomeIsTold
  <2> QED BY <2>2 DEF TraceInv, Accounted, TraceTellsOutcome
<1> QED BY <1>1, TraceInductive, PTL

LEMMA StreamInit == TracedInit => IInv
<1> SUFFICES ASSUME TracedInit  PROVE IInv
    OBVIOUS
<1>1. TraceInv
    BY TraceInvInit
<1>2. Progress = <<>> /\ ~Told
    BY Views, NoProgress DEF TracedInit, Init, ToldOf
<1>3. Delivered
  <2>1. HeldOf(getter) = <<>>
      BY StagesAre DEF TracedInit, Init, HeldOf
  <2>2. (<<>> \o <<>>) \o <<>> = <<>>
      OBVIOUS
  <2> QED BY <1>2, <2>1, <2>2 DEF TracedInit, Init, Delivered
<1>4. DOMAIN ready = {} /\ getter = "none"
    BY DEF TracedInit, Init
<1>5. Callbacks
    BY <1>4 DEF Callbacks, OneRunOneWake, RunOfQuery, WakeOfWait, GetterRuns, GetterFirst
<1> QED BY <1>1, <1>3, <1>5 DEF IInv

(* A query that is settled by a database call suspends after its last      *)
(* event.  Without that its end could wake the stream before its last      *)
(* event does, and this invariant would not hold.                          *)
THEOREM StreamInductive ==
    ASSUME SettlesInDatabase
    PROVE  Spec => []IInv
<1>1. TracedInit => IInv
    BY StreamInit
<1>2. IInv /\ [TracedNext]_tracedVars => IInv'
  <2> SUFFICES ASSUME IInv, [TracedNext]_tracedVars  PROVE IInv'
      OBVIOUS
  <2>1. TraceInv'
      BY TraceInvStep DEF IInv
  <2>2. Delivered' /\ Callbacks'
      BY DeliveredStep, CallbackStep
  <2> QED BY <2>1, <2>2 DEF IInv
<1> QED BY <1>1, <1>2, PTL DEF Spec

(* Progress that is held or queued has not been sent yet. *)
LEMMA SentFirst ==
    ASSUME NEW p \in Seq(Stages), NEW h \in Seq(Stages), NEW q \in Seq(Stages)
    PROVE  /\ IsPrefix(p, (p \o h) \o q)
           /\ \A stage \in Stages : h = <<stage>> => ((p \o h) \o q)[Len(p) + 1] = stage
<1>1. /\ p \o h \in Seq(Stages) /\ Len(p \o h) = Len(p) + Len(h)
      /\ \A i \in 1 .. Len(p) + Len(h) : (p \o h)[i] = IF i <= Len(p) THEN p[i] ELSE h[i - Len(p)]
      /\ Len(p) \in Nat /\ Len(h) \in Nat /\ Len(q) \in Nat
    BY ConcatProperties, LenProperties
<1> DEFINE ph == p \o h
           e == ph \o q
<1>2. /\ e \in Seq(Stages) /\ Len(e) = Len(ph) + Len(q)
      /\ \A i \in 1 .. Len(ph) + Len(q) : e[i] = IF i <= Len(ph) THEN ph[i] ELSE q[i - Len(ph)]
  <2>1. ph \in Seq(Stages)
      BY <1>1
  <2> HIDE DEF ph
  <2> QED BY <2>1, ConcatProperties
<1> HIDE DEF e
<1>3. \A i \in 1 .. Len(p) : e[i] = p[i]
    BY <1>1, <1>2
<1>4. IsPrefix(p, e)
  <2>1. Len(p) <= Len(e)
      BY <1>1, <1>2
  <2>2. SubSeq(e, 1, Len(p)) = p
    <3>1. CASE p = <<>>
      <4>1. Len(p) = 0
          BY <3>1
      <4> QED BY <3>1, <4>1, SubSeqEmpty
    <3>2. CASE p # <<>>
      <4> DEFINE s == SubSeq(e, 1, Len(p))
      <4>1. \A i \in 1 .. Len(p) : e[i] \in Stages
          BY <1>3, ElementOfSeq
      <4>2. Len(p) >= 1
          BY <1>1, <3>2, EmptySeq
      <4>3. s \in Seq(Stages) /\ Len(s) = Len(p) /\ \A i \in 1 .. Len(p) : s[i] = e[i]
          BY <1>1, <4>1, <4>2, SubSeqProperties
      <4> HIDE DEF s
      <4>4. s = p
          BY <1>3, <4>3, SeqEqual
      <4> QED BY <4>4 DEF s
    <3> QED BY <3>1, <3>2
  <2> QED BY <2>1, <2>2 DEF IsPrefix
<1>5. ASSUME NEW stage \in Stages, h = <<stage>>  PROVE e[Len(p) + 1] = stage
  <2>1. Len(h) = 1 /\ h[1] = stage
      BY <1>5
  <2> QED BY <1>1, <1>2, <2>1
<1> QED BY <1>4, <1>5 DEF e

(* A client reads the events of its query in order, and misses none, for   *)
(* any number of them: QueryApiService.stream.                             *)
THEOREM StreamKept ==
    ASSUME SettlesInDatabase
    PROVE  Spec => []StreamContract
<1>1. IInv => StreamContract
  <2> SUFFICES ASSUME IInv  PROVE StreamContract
      OBVIOUS
  <2>1. TypeOK /\ SentInOrder /\ Phases /\ Delivered
      BY DEF IInv, TraceInv
  <2>2. InOrder
      BY <2>1 DEF SentInOrder, InOrder
  <2>3. /\ Progress \in Seq(Stages) /\ HeldOf(getter) \in Seq(Stages) /\ queue \in Seq(Stages)
        /\ emitted = (Progress \o HeldOf(getter)) \o queue
      BY <2>1, ProgressTyped, HeldTyped DEF TypeOK, Delivered
  <2>4. IsPrefix(Progress, emitted)
      BY <2>3, SentFirst
  <2>5. Holding => emitted[Len(Progress) + 1] = getter
    <3> SUFFICES ASSUME Holding  PROVE emitted[Len(Progress) + 1] = getter
        OBVIOUS
    <3>1. getter \in Stages /\ HeldOf(getter) = <<getter>>
        BY DEF Holding, HeldOf
    <3> QED BY <2>3, <3>1, SentFirst
  <2>6. Told => Progress = emitted \/ Rank(emitted[Len(Progress) + 1]) <= last
      BY <2>1, <2>5 DEF Delivered
  <2> QED BY <2>2, <2>4, <2>6 DEF StreamContract, NothingSkipped
<1> QED BY <1>1, StreamInductive, PTL
=============================================================================
