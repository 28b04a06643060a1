----------------------------- MODULE UsageLedger -----------------------------
(***************************************************************************)
(* What the query budget promises, without counters, rows, clocks or       *)
(* query runs: each query is booked at most once, on one minute and one    *)
(* day, only while everything booked there stays within the limits; its    *)
(* charge may be lowered once, when the booking is closed, and never       *)
(* changes afterwards.  What a window has used is not stored: it is the    *)
(* sum of the charges booked on it.                                        *)
(***************************************************************************)
EXTENDS Integers, FiniteSets, Functions

CONSTANTS
    Query, Kinds, Unbooked,
    Bookings,   \* the entries a query may be booked with
    Amounts,    \* the amounts a booking may be closed with
    PerMinute, PerDay

VARIABLE ledger   \* [Query -> entry \cup {Unbooked}]

Booked == {q \in Query : ledger[q] # Unbooked}
MinuteUse(m) == Cardinality({q \in Booked : ledger[q].minute = m})
DayUse(d, k) ==
    SumFunction([q \in {p \in Booked : ledger[p].day = d} |-> ledger[q].amount[k]])

LedgerInit == ledger = [q \in Query |-> Unbooked]

(* The query is booked with some entry, chosen by the implementation. *)
Book(q) ==
    LET entry == ledger'[q]
    IN  /\ ledger[q] = Unbooked
        /\ entry \in Bookings
        /\ MinuteUse(entry.minute) + 1 <= PerMinute
        /\ \A k \in Kinds :
            DayUse(entry.day, k) + entry.amount[k] <= PerDay[k]
        /\ ledger' = [ledger EXCEPT ![q] = entry]

Close(q, amount) ==
    /\ ledger[q] # Unbooked
    /\ ledger[q].open
    /\ \A k \in Kinds : amount[k] <= ledger[q].amount[k]
    /\ ledger' = [ledger EXCEPT ![q].amount = amount, ![q].open = FALSE]

LedgerNext ==
    \E q \in Query :
        \/ Book(q)
        \/ \E amount \in Amounts : Close(q, amount)

LedgerSpec == LedgerInit /\ [][LedgerNext]_ledger
=============================================================================
