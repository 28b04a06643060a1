----------------------------- MODULE UsageBudget -----------------------------
(***************************************************************************)
(* The budget of queries: the windows and reservations of                  *)
(* adapters/database/usage.py, and the queries that reserve their whole    *)
(* ceiling before they run and settle afterwards (services/cost_guard.py). *)
(*                                                                         *)
(* reserve and settle are one transaction each.  A query reads the clock   *)
(* before it reserves; its transaction may commit in a later minute or     *)
(* day.  A call may fail, be cancelled, or commit although its caller      *)
(* learns nothing of it, and the process may die, after any step.          *)
(*                                                                         *)
(* An amount is a number per kind of usage: the code treats llm_calls,     *)
(* input_tokens and output_tokens alike.  One tenant.                      *)
(***************************************************************************)
EXTENDS Integers, FiniteSets, Functions

CONSTANTS
    Queries,          \* each runs once: query_id is unique
    Actors, Sessions,
    NoSession,        \* a caller without session (MCP tokens)
    Modes, Kinds,
    Budget,           \* [Modes -> Amount]: QueryBudget.for_mode
    QueriesPerMinute,
    DailyLimit,       \* UsageLimits
    Usages,           \* what a query may turn out to have used
    MinutesPerDay,
    LastMinute,       \* bound of the clock
    NoRow             \* a row that does not exist

Amount == [Kinds -> Nat]
Minutes == 0 .. LastMinute
Day(minute) == minute \div MinutesPerDay
Days == {Day(minute) : minute \in Minutes}

(* Each positive number is validated by UsageLimits and CostGuardSettings. *)
ASSUME LimitsAssumption ==
    /\ QueriesPerMinute \in Nat \ {0}
    /\ DailyLimit \in [Kinds -> Nat \ {0}]
    /\ Budget \in [Modes -> [Kinds -> Nat \ {0}]]
ASSUME UsagesAssumption == Usages \subseteq Amount
ASSUME ClockAssumption == LastMinute \in Nat /\ MinutesPerDay \in Nat \ {0}

Command == [actor : Actors, session : Sessions \cup {NoSession}, mode : Modes]
RateLimitId(c) == IF c.session = NoSession THEN c.actor ELSE c.session
Subjects == Actors \cup Sessions

MinuteWindow == Subjects \X Minutes
DayWindow == Actors \X Days

Reservation ==
    [minute : MinuteWindow, day : DayWindow, reserved : Amount,
     actual : Amount, settled : BOOLEAN]

(* What the ledger of this budget keeps of a reservation. *)
Entry ==
    [minute : MinuteWindow, day : DayWindow, amount : Amount, open : BOOLEAN]

ASSUME NoRowAssumption ==
    NoRow \notin [Kinds -> Int] \cup Reservation \cup Command \cup Entry

Step == {"new", "reserving", "running", "settling", "ended"}

VARIABLES
    clock,      \* the minute it is
    queries,    \* query_count of each minute window; 0 where there is no row
    spent,      \* usage of each day window, NoRow before its first query
    booked,     \* query_budget_reservations, by query
    run         \* the process state of each query

vars == <<clock, queries, spent, booked, run>>

QueryRun ==
    [step : Step, command : Command \cup {NoRow}, asked : Minutes,
     used : Amount, verified : BOOLEAN]

(* One type invariant; that usage is not negative is part of              *)
(* WindowsMatchReservations.                                               *)
TypeOK ==
    /\ clock \in Minutes
    /\ queries \in [MinuteWindow -> Nat]
    /\ spent \in [DayWindow -> [Kinds -> Int] \cup {NoRow}]
    /\ booked \in [Queries -> Reservation \cup {NoRow}]
    /\ run \in [Queries -> QueryRun]

Nothing == [k \in Kinds |-> 0]

NewRun ==
    [step |-> "new", command |-> NoRow, asked |-> 0, used |-> Nothing,
     verified |-> FALSE]

Init ==
    /\ clock = 0
    /\ queries = [w \in MinuteWindow |-> 0]
    /\ spent = [w \in DayWindow |-> NoRow]
    /\ booked = [q \in Queries |-> NoRow]
    /\ run = [q \in Queries |-> NewRun]

-----------------------------------------------------------------------------
(* The store: one transaction each. *)

FitsWithin(amount, bound) == \A k \in Kinds : amount[k] <= bound[k]
Plus(a, b) == [k \in Kinds |-> a[k] + b[k]]
Minus(a, b) == [k \in Kinds |-> a[k] - b[k]]

(* The row reserve inserts for a query, from the moment it asked. *)
ReservationFor(r) ==
    [minute |-> <<RateLimitId(r.command), r.asked>>,
     day |-> <<r.command.actor, Day(r.asked)>>,
     reserved |-> Budget[r.command.mode],
     actual |-> Nothing,
     settled |-> FALSE]

(* The conditions of the two upserts.  They guard the update of a row that *)
(* exists; the row of a window's first query is inserted unconditionally.  *)
(* For the minute that is the same, its limit being positive.              *)
Admits(b) ==
    /\ queries[b.minute] + 1 <= QueriesPerMinute
    /\ spent[b.day] # NoRow
        => FitsWithin(Plus(spent[b.day], b.reserved), DailyLimit)

StoreReserve(q) ==
    LET b == ReservationFor(run[q])
    IN  /\ Admits(b)
        /\ queries' = [queries EXCEPT ![b.minute] = @ + 1]
        /\ spent' = [spent EXCEPT ![b.day] =
                        IF @ = NoRow THEN b.reserved ELSE Plus(@, b.reserved)]
        /\ booked' = [booked EXCEPT ![q] = b]

(* Seeded bug: the refund goes to the present day. *)
StoreSettleToday(q, actual) ==
    LET b == booked[q]
        today == <<run[q].command.actor, Day(clock)>>
    IN  /\ FitsWithin(actual, b.reserved)
        /\ IF b.settled
           THEN UNCHANGED <<spent, booked>>
           ELSE /\ spent' = [spent EXCEPT ![today] =
                                IF @ = NoRow THEN @
                                ELSE Minus(@, Minus(b.reserved, actual))]
                /\ booked' = [booked EXCEPT ![q].actual = actual,
                                            ![q].settled = TRUE]
        /\ UNCHANGED queries

(* The refund goes to the day of the reservation, and only once. *)
StoreSettle(q, actual) ==
    LET b == booked[q]
    IN  /\ FitsWithin(actual, b.reserved)
        /\ IF b.settled
           THEN UNCHANGED <<spent, booked>>
           ELSE /\ spent' = [spent EXCEPT ![b.day] =
                                Minus(@, Minus(b.reserved, actual))]
                /\ booked' = [booked EXCEPT ![q].actual = actual,
                                            ![q].settled = TRUE]
        /\ UNCHANGED queries

-----------------------------------------------------------------------------
(* One query: BudgetedQueryRunner.run. *)

To(q, step) == run' = [run EXCEPT ![q].step = step]

(* CostGuard.reserve reads the clock before it calls the store. *)
Submit(q, c) ==
    /\ run[q].step = "new"
    /\ run' = [run EXCEPT ![q].step = "reserving", ![q].command = c,
                          ![q].asked = clock]
    /\ UNCHANGED <<clock, queries, spent, booked>>

Reserve(q) ==
    /\ run[q].step = "reserving"
    /\ StoreReserve(q)
    /\ \/ To(q, "running")
       \/ To(q, "ended")    \* committed, but the caller is gone
    /\ UNCHANGED clock

(* Seeded bug: the minute upsert survives a rejection by the day. *)
RejectCounted(q) ==
    LET b == ReservationFor(run[q])
    IN  /\ run[q].step = "reserving"
        /\ ~Admits(b)
        /\ queries' = [queries EXCEPT ![b.minute] =
                          IF @ < QueriesPerMinute THEN @ + 1 ELSE @]
        /\ To(q, "ended")
        /\ UNCHANGED <<clock, spent, booked>>

(* Both upserts are rolled back with the transaction. *)
Reject(q) ==
    /\ run[q].step = "reserving"
    /\ ~Admits(ReservationFor(run[q]))
    /\ To(q, "ended")
    /\ UNCHANGED <<clock, queries, spent, booked>>

(* The delegate returns and reports its usage; a report that cannot be    *)
(* verified (another query_id, a missing or malformed field) counts as     *)
(* none.                                                                   *)
Return(q, used, verified) ==
    /\ run[q].step = "running"
    /\ run' = [run EXCEPT ![q].step = "settling", ![q].used = used,
                          ![q].verified =
                              verified /\ FitsWithin(used, booked[q].reserved)]
    /\ UNCHANGED <<clock, queries, spent, booked>>

(* A timeout, a cancellation or an exception ends the delegate; whatever  *)
(* it has used by then is not reported.                                    *)
Break(q, used) ==
    /\ run[q].step = "running"
    /\ run' = [run EXCEPT ![q].step = "settling", ![q].used = used]
    /\ UNCHANGED <<clock, queries, spent, booked>>

(* Seeded bug: a query without a verified report is refunded completely. *)
DueIfReported(q) == IF run[q].verified THEN run[q].used ELSE Nothing

(* What CostGuard.settle and forfeit settle: the whole reservation unless  *)
(* the usage is known and fits.  The caller gets the answer only then.     *)
Due(q) == IF run[q].verified THEN run[q].used ELSE booked[q].reserved

Settle(q) ==
    /\ run[q].step = "settling"
    /\ StoreSettle(q, Due(q))
    /\ To(q, "ended")
    /\ UNCHANGED clock

(* A call to the store fails without effect, or the process dies in it. *)
Lose(q) ==
    /\ run[q].step \in {"reserving", "settling"}
    /\ To(q, "ended")
    /\ UNCHANGED <<clock, queries, spent, booked>>

(* The process dies while the delegate runs. *)
Die(q, used) ==
    /\ run[q].step = "running"
    /\ run' = [run EXCEPT ![q].step = "ended", ![q].used = used]
    /\ UNCHANGED <<clock, queries, spent, booked>>

(* settle called again for a settled reservation, with any amount. *)
SettleAgain(q, actual) ==
    /\ run[q].step = "ended"
    /\ booked[q] # NoRow
    /\ booked[q].settled
    /\ StoreSettle(q, actual)
    /\ UNCHANGED <<clock, run>>

Tick ==
    /\ clock < LastMinute
    /\ clock' = clock + 1
    /\ UNCHANGED <<queries, spent, booked, run>>

Next ==
    \/ \E q \in Queries :
        \/ \E c \in Command : Submit(q, c)
        \/ Reserve(q)
        \/ Reject(q)
        \/ \E used \in Usages :
            \/ \E verified \in BOOLEAN : Return(q, used, verified)
            \/ Break(q, used)
            \/ Die(q, used)
            \/ SettleAgain(q, used)
        \/ Settle(q)
        \/ Lose(q)
    \/ Tick

Spec == Init /\ [][Next]_vars

-----------------------------------------------------------------------------
(* What a reservation counts for. *)
Charge(q) ==
    IF booked[q].settled THEN booked[q].actual ELSE booked[q].reserved

BookedQueries == {q \in Queries : booked[q] # NoRow}
ReservedOn(w) == {q \in BookedQueries : booked[q].day = w}
Charges(w, k) == [q \in ReservedOn(w) |-> Charge(q)[k]]

(* Each single reservation fits the daily limit; no validation demands it. *)
BudgetsFit == \A m \in Modes : FitsWithin(Budget[m], DailyLimit)

(* No window is above its limit, however many queries reserve at once:     *)
(* DEV_SPEC.md, M4-10, "the count is never written above the limit".       *)
WithinLimits ==
    /\ \A w \in MinuteWindow : queries[w] <= QueriesPerMinute
    /\ \A w \in DayWindow :
        spent[w] # NoRow => FitsWithin(spent[w], DailyLimit)

(* The windows are what the reservations add up to: a rejection, a lost    *)
(* answer, a failed or repeated settlement or a change of day neither      *)
(* loses nor invents usage; hence no window is negative.                   *)
WindowsMatchReservations ==
    /\ \A w \in MinuteWindow :
        queries[w] = Cardinality({q \in BookedQueries : booked[q].minute = w})
    /\ \A w \in DayWindow :
        /\ spent[w] = NoRow <=> ReservedOn(w) = {}
        /\ spent[w] # NoRow =>
            \A k \in Kinds : spent[w][k] = SumFunction(Charges(w, k))

(* Whatever a query used of its reservation is charged, also when it was   *)
(* cancelled, timed out, reported nonsense or died: it is never refunded.  *)
SpentIsCharged ==
    \A q \in Queries :
        run[q].used # Nothing =>
            /\ booked[q] # NoRow
            /\ \A k \in Kinds :
                \/ run[q].used[k] <= Charge(q)[k]
                \/ booked[q].reserved[k] <= Charge(q)[k]

(* A settled reservation is never changed, nor is a reservation ever       *)
(* raised, moved to another window or removed.                             *)
ReservationsAreFinal ==
    [][\A q \in Queries :
        booked[q] # NoRow =>
            /\ booked'[q] # NoRow
            /\ booked[q].settled => booked'[q] = booked[q]
            /\ booked'[q].day = booked[q].day
            /\ FitsWithin(Charge(q)', Charge(q))]_vars

EntryOf(q) ==
    [minute |-> booked[q].minute, day |-> booked[q].day,
     amount |-> Charge(q), open |-> ~booked[q].settled]

(* The windows, reservations and runs implement a ledger of charges kept   *)
(* within the limits by their sums.                                        *)
Ledger == INSTANCE UsageLedger WITH
    Query <- Queries,
    Unbooked <- NoRow,
    Bookings <- [minute : MinuteWindow, day : DayWindow,
                 amount : {Budget[m] : m \in Modes}, open : {TRUE}],
    Amounts <- Usages \cup {Budget[m] : m \in Modes},
    PerMinute <- QueriesPerMinute,
    PerDay <- DailyLimit,
    ledger <- [q \in Queries |->
                 IF booked[q] = NoRow THEN NoRow ELSE EntryOf(q)]

ImplementsLedger == Ledger!LedgerSpec
=============================================================================
