---------------------------- MODULE Limits_proofs ----------------------------
(***************************************************************************)
(* The two components whose limits are checked before they are taken:      *)
(* the budget of queries, and the workspace of collections and documents.  *)
(***************************************************************************)
EXTENDS UsageBudget, Workspace, FiniteSetTheorems, WellFoundedInduction, TLAPS

-----------------------------------------------------------------------------
(***************************************************************************)
(* The budget for any number of queries, actors, sessions, modes, kinds of *)
(* usage, and any limits and clock.                                        *)
(*                                                                         *)
(* That a query's usage is charged needs to know, for each step of its     *)
(* run, whether it has a reservation and whether that one is still         *)
(* unsettled; that a day stays within its limit needs, in addition, that   *)
(* the window of every reservation exists when it is refunded.             *)
(*                                                                         *)
(* That the windows are sums needs the sums: what the library's fold over  *)
(* a finite set gives when a summand is added or changed is proved from    *)
(* its recursive function, by least counterexamples.  With it, the budget  *)
(* implements the ledger.                                                  *)
(***************************************************************************)

(* What the runner knows of a query at each of its steps. *)
StepSound(q) ==
    /\ run[q].step \in {"new", "reserving"} =>
        booked[q] = NoRow /\ run[q].used = Nothing /\ ~run[q].verified
    /\ run[q].step = "reserving" => run[q].command \in Command
    /\ run[q].step \in {"running", "settling"} =>
        booked[q] # NoRow /\ ~booked[q].settled
    /\ run[q].step = "running" => run[q].used = Nothing /\ ~run[q].verified
    /\ run[q].step = "settling" /\ run[q].verified =>
        FitsWithin(run[q].used, booked[q].reserved)

(* A reservation's window exists, and it is charged at most what it holds. *)
RowSound(q) ==
    booked[q] # NoRow =>
        /\ spent[booked[q].day] # NoRow
        /\ booked[q].settled => FitsWithin(booked[q].actual, booked[q].reserved)

(* The usage of a query that has a reservation is charged. *)
Covered(q) ==
    run[q].used # Nothing =>
        /\ booked[q] # NoRow
        /\ \A k \in Kinds :
            \/ run[q].used[k] <= Charge(q)[k]
            \/ booked[q].reserved[k] <= Charge(q)[k]

QuerySound(q) == StepSound(q) /\ RowSound(q) /\ Covered(q)

IInv == TypeOK /\ \A q \in Queries : QuerySound(q)

-----------------------------------------------------------------------------
(* Amounts, and what adding and subtracting them gives. *)
LEMMA AmountFacts ==
    /\ Nothing \in Amount
    /\ \A m \in Modes : Budget[m] \in Amount
    /\ \A a \in Amount : a \in [Kinds -> Int] /\ a # NoRow
    /\ \A a, b \in [Kinds -> Int] :
        /\ Plus(a, b) \in [Kinds -> Int] /\ Plus(a, b) # NoRow
        /\ Minus(a, b) \in [Kinds -> Int] /\ Minus(a, b) # NoRow
BY LimitsAssumption, NoRowAssumption DEF Amount, Nothing, Plus, Minus

(* The row reserve inserts is a reservation that is not settled. *)
LEMMA NewReservation ==
    ASSUME TypeOK, NEW q \in Queries, run[q].command \in Command
    PROVE  /\ ReservationFor(run[q]) \in Reservation
           /\ ~ReservationFor(run[q]).settled
           /\ ReservationFor(run[q]).reserved = Budget[run[q].command.mode]
<1> DEFINE r == run[q]
<1>1. r.asked \in Minutes /\ Day(r.asked) \in Days
  BY DEF TypeOK, QueryRun, Days
<1>2. RateLimitId(r.command) \in Subjects /\ r.command.actor \in Actors
  BY DEF RateLimitId, Subjects, Command
<1>3. r.command.mode \in Modes
  BY DEF Command
<1> QED
  BY <1>1, <1>2, <1>3, AmountFacts
  DEF ReservationFor, Reservation, MinuteWindow, DayWindow

(* What a committed reserve does to the tables. *)
LEMMA ReserveEffect ==
    ASSUME TypeOK, NEW q \in Queries, run[q].command \in Command,
           StoreReserve(q), NEW b, b = ReservationFor(run[q])
    PROVE  /\ queries' \in [MinuteWindow -> Nat]
           /\ spent' \in [DayWindow -> [Kinds -> Int] \cup {NoRow}]
           /\ booked' \in [Queries -> Reservation \cup {NoRow}]
           /\ booked'[q] = b /\ spent'[b.day] # NoRow
           /\ \A p \in Queries \ {q} : booked'[p] = booked[p]
           /\ \A w \in DayWindow : spent[w] # NoRow => spent'[w] # NoRow
<1>1. b \in Reservation
  BY NewReservation
<1>2. /\ b.minute \in MinuteWindow /\ b.day \in DayWindow
      /\ b.reserved \in [Kinds -> Int] /\ b.reserved # NoRow
  BY <1>1, AmountFacts DEF Reservation
<1>3. queries' = [queries EXCEPT ![b.minute] = @ + 1]
  BY DEF StoreReserve
<1>4. /\ spent' = [spent EXCEPT ![b.day] =
                     IF @ = NoRow THEN b.reserved ELSE Plus(@, b.reserved)]
      /\ booked' = [booked EXCEPT ![q] = b]
  BY DEF StoreReserve
<1>5. queries' \in [MinuteWindow -> Nat]
  BY <1>2, <1>3 DEF TypeOK
<1>6. /\ spent' \in [DayWindow -> [Kinds -> Int] \cup {NoRow}]
      /\ spent'[b.day] # NoRow
      /\ \A w \in DayWindow : spent[w] # NoRow => spent'[w] # NoRow
  BY <1>2, <1>4, AmountFacts DEF TypeOK
<1> QED BY <1>1, <1>4, <1>5, <1>6 DEF TypeOK

(* What a settlement does: the refund of one unsettled reservation. *)
LEMMA SettleEffect ==
    ASSUME TypeOK, NEW q \in Queries, booked[q] # NoRow, RowSound(q),
           NEW actual \in Amount, StoreSettle(q, actual)
    PROVE  /\ queries' \in [MinuteWindow -> Nat]
           /\ spent' \in [DayWindow -> [Kinds -> Int] \cup {NoRow}]
           /\ booked' \in [Queries -> Reservation \cup {NoRow}]
           /\ booked[q].settled => booked'[q] = booked[q]
           /\ ~booked[q].settled =>
                booked'[q] = [booked[q] EXCEPT !.actual = actual,
                                               !.settled = TRUE]
           /\ \A p \in Queries \ {q} : booked'[p] = booked[p]
           /\ \A w \in DayWindow : spent[w] # NoRow => spent'[w] # NoRow
<1> DEFINE b == booked[q]
<1>1. b \in Reservation /\ spent[b.day] \in [Kinds -> Int]
  BY DEF TypeOK, RowSound, Reservation
<1>2. queries' = queries
  BY DEF StoreSettle
<1>3. CASE b.settled
  BY <1>2, <1>3 DEF StoreSettle, TypeOK
<1>4. CASE ~b.settled
  <2>1. spent' = [spent EXCEPT ![b.day] = Minus(@, Minus(b.reserved, actual))]
    BY <1>4 DEF StoreSettle
  <2>2. booked' = [booked EXCEPT ![q].actual = actual, ![q].settled = TRUE]
    BY <1>4 DEF StoreSettle
  <2>3. b.reserved \in [Kinds -> Int] /\ actual \in [Kinds -> Int]
    BY <1>1, AmountFacts DEF Reservation
  <2>4. /\ Minus(spent[b.day], Minus(b.reserved, actual)) \in [Kinds -> Int]
        /\ Minus(spent[b.day], Minus(b.reserved, actual)) # NoRow
    BY <1>1, <2>3, AmountFacts
  <2>5. /\ spent' \in [DayWindow -> [Kinds -> Int] \cup {NoRow}]
        /\ \A w \in DayWindow : spent[w] # NoRow => spent'[w] # NoRow
    BY <2>1, <2>4, <1>1 DEF TypeOK, Reservation
  <2>6. booked'[q] = [b EXCEPT !.actual = actual, !.settled = TRUE]
    BY <2>2 DEF TypeOK
  <2>7. [b EXCEPT !.actual = actual, !.settled = TRUE] \in Reservation
    BY <1>1 DEF Reservation
  <2>8. booked' \in [Queries -> Reservation \cup {NoRow}]
    BY <2>2, <2>6, <2>7 DEF TypeOK
  <2> QED BY <1>2, <1>4, <2>2, <2>5, <2>6, <2>8 DEF TypeOK
<1> QED BY <1>3, <1>4

-----------------------------------------------------------------------------
(* A step that concerns query q leaves the other queries sound. *)
LEMMA OthersSound ==
    ASSUME IInv, NEW q \in Queries,
           \A p \in Queries \ {q} :
                run'[p] = run[p] /\ booked'[p] = booked[p],
           \A w \in DayWindow : spent[w] # NoRow => spent'[w] # NoRow
    PROVE  \A p \in Queries \ {q} : QuerySound(p)'
<1> TAKE p \in Queries \ {q}
<1>1. QuerySound(p) /\ run'[p] = run[p] /\ booked'[p] = booked[p]
  BY DEF IInv
<1>2. booked[p] # NoRow => booked[p].day \in DayWindow
  BY DEF IInv, TypeOK, Reservation
<1>3. StepSound(p)'
  BY <1>1 DEF QuerySound, StepSound
<1>4. RowSound(p)'
  BY <1>1, <1>2 DEF QuerySound, RowSound
<1>5. Covered(p)'
  BY <1>1 DEF QuerySound, Covered, Charge
<1> QED BY <1>3, <1>4, <1>5 DEF QuerySound

(* A step of a query outside the store. *)
LEMMA LocalStep ==
    ASSUME IInv, NEW q \in Queries, NEW r \in QueryRun,
           run' = [run EXCEPT ![q] = r],
           UNCHANGED <<clock, queries, spent, booked>>,
           StepSound(q)', Covered(q)'
    PROVE  IInv'
<1>1. TypeOK'
  BY DEF IInv, TypeOK
<1>2. \A p \in Queries \ {q} : run'[p] = run[p] /\ booked'[p] = booked[p]
  BY DEF IInv, TypeOK
<1>3. RowSound(q)'
  BY DEF IInv, QuerySound, RowSound
<1> QED BY <1>1, <1>2, <1>3, OthersSound DEF IInv, QuerySound

(* Submitting a query. *)
LEMMA SubmitSound ==
    ASSUME IInv, NEW q \in Queries, NEW c \in Command, Submit(q, c)
    PROVE  IInv'
<1> DEFINE r == [run[q] EXCEPT !.step = "reserving", !.command = c,
                               !.asked = clock]
<1>1. run[q] \in QueryRun /\ clock \in Minutes
  BY DEF IInv, TypeOK
<1>2. r \in QueryRun /\ run' = [run EXCEPT ![q] = r] /\ run'[q] = r
  BY <1>1 DEF Submit, QueryRun, Step, IInv, TypeOK
<1>3. /\ r.step = "reserving" /\ r.command = c
      /\ r.used = run[q].used /\ r.verified = run[q].verified
  BY <1>1 DEF QueryRun
<1>4. booked[q] = NoRow /\ run[q].used = Nothing /\ ~run[q].verified
  BY DEF Submit, IInv, QuerySound, StepSound
<1>5. StepSound(q)' /\ Covered(q)'
  BY <1>2, <1>3, <1>4 DEF Submit, StepSound, Covered
<1> QED BY <1>2, <1>5, LocalStep DEF Submit

(* Reserving, whether or not the runner learns of it. *)
LEMMA ReserveSound ==
    ASSUME IInv, NEW q \in Queries, Reserve(q)
    PROVE  IInv'
<1> DEFINE b == ReservationFor(run[q])
<1>1. run[q].command \in Command /\ run[q].used = Nothing /\ ~run[q].verified
  BY DEF Reserve, IInv, QuerySound, StepSound
<1>2. PICK step \in {"running", "ended"} : run' = [run EXCEPT ![q].step = step]
  BY DEF Reserve, To
<1>3. /\ run' \in [Queries -> QueryRun]
      /\ run'[q].step = step /\ run'[q].used = Nothing /\ ~run'[q].verified
      /\ \A p \in Queries \ {q} : run'[p] = run[p]
  BY <1>1, <1>2 DEF IInv, TypeOK, QueryRun, Step
<1>4. /\ TypeOK'
      /\ booked'[q] = b /\ spent'[b.day] # NoRow
      /\ \A p \in Queries \ {q} : booked'[p] = booked[p]
      /\ \A w \in DayWindow : spent[w] # NoRow => spent'[w] # NoRow
  <2>1. TypeOK /\ StoreReserve(q) /\ clock' = clock
    BY DEF IInv, Reserve
  <2>2. /\ queries' \in [MinuteWindow -> Nat]
        /\ spent' \in [DayWindow -> [Kinds -> Int] \cup {NoRow}]
        /\ booked' \in [Queries -> Reservation \cup {NoRow}]
        /\ booked'[q] = b /\ spent'[b.day] # NoRow
        /\ \A p \in Queries \ {q} : booked'[p] = booked[p]
        /\ \A w \in DayWindow : spent[w] # NoRow => spent'[w] # NoRow
    BY <1>1, <2>1, ReserveEffect
  <2> QED BY <1>3, <2>1, <2>2 DEF TypeOK
<1>5. b # NoRow /\ ~b.settled
  BY <1>1, NewReservation, NoRowAssumption DEF IInv
<1>6. StepSound(q)' /\ RowSound(q)' /\ Covered(q)'
  BY <1>3, <1>4, <1>5 DEF StepSound, RowSound, Covered
<1> QED BY <1>3, <1>4, <1>6, OthersSound DEF IInv, QuerySound

(* Rejected queries end without reservation. *)
LEMMA RejectSound ==
    ASSUME IInv, NEW q \in Queries, Reject(q)
    PROVE  IInv'
<1> DEFINE r == [run[q] EXCEPT !.step = "ended"]
<1>1. /\ r \in QueryRun /\ run' = [run EXCEPT ![q] = r] /\ run'[q] = r
      /\ r.step = "ended" /\ r.used = run[q].used
  BY DEF Reject, To, IInv, TypeOK, QueryRun, Step
<1>2. run[q].used = Nothing
  BY DEF Reject, IInv, QuerySound, StepSound
<1>3. StepSound(q)' /\ Covered(q)'
  BY <1>1, <1>2 DEF StepSound, Covered
<1> QED BY <1>1, <1>3, LocalStep DEF Reject

(* While a query runs or settles, all it reserved is charged. *)
LEMMA ChargedInFull ==
    ASSUME IInv, NEW q \in Queries, run[q].step \in {"running", "settling"}
    PROVE  /\ booked[q] # NoRow /\ booked[q] \in Reservation
           /\ ~booked[q].settled
           /\ Charge(q) = booked[q].reserved
           /\ \A k \in Kinds : booked[q].reserved[k] \in Nat
<1>1. booked[q] # NoRow /\ ~booked[q].settled
  BY DEF IInv, QuerySound, StepSound
<1>2. booked[q] \in Reservation
  BY <1>1 DEF IInv, TypeOK
<1> QED BY <1>1, <1>2 DEF Charge, Reservation, Amount

(* The delegate ends, reporting its usage or not. *)
LEMMA DelegateEnds ==
    ASSUME IInv, NEW q \in Queries, run[q].step = "running",
           NEW used \in Usages, NEW verified \in BOOLEAN,
           verified => FitsWithin(used, booked[q].reserved),
           NEW step \in {"settling", "ended"},
           run' = [run EXCEPT ![q] = [@ EXCEPT !.step = step, !.used = used,
                                               !.verified = verified]],
           UNCHANGED <<clock, queries, spent, booked>>
    PROVE  IInv'
<1> DEFINE r == [run[q] EXCEPT !.step = step, !.used = used,
                               !.verified = verified]
<1>1. run[q] \in QueryRun /\ used \in Amount
  BY UsagesAssumption DEF IInv, TypeOK
<1>2. /\ r \in QueryRun /\ run' = [run EXCEPT ![q] = r] /\ run'[q] = r
  BY <1>1 DEF QueryRun, Step, IInv, TypeOK
<1>3. r.step = step /\ r.used = used /\ r.verified = verified
  BY <1>1 DEF QueryRun
<1>4. booked[q] # NoRow /\ ~booked[q].settled /\ Charge(q) = booked[q].reserved
      /\ \A k \in Kinds : booked[q].reserved[k] \in Nat
  BY ChargedInFull
<1>5. booked' = booked /\ Charge(q)' = Charge(q)
  BY DEF Charge
<1>6. StepSound(q)'
  BY <1>2, <1>3, <1>4, <1>5 DEF StepSound, FitsWithin
<1>7. Covered(q)'
  BY <1>4, <1>5 DEF Covered
<1> QED BY <1>2, <1>6, <1>7, LocalStep

(* Return, Break and a process that dies meanwhile are such ends. *)
LEMMA ReturnSound ==
    ASSUME IInv, NEW q \in Queries, NEW used \in Usages,
           \/ \E verified \in BOOLEAN : Return(q, used, verified)
           \/ Break(q, used)
           \/ Die(q, used)
    PROVE  IInv'
<1>1. run[q] \in QueryRun /\ (run[q].step = "running" => ~run[q].verified)
  BY DEF IInv, TypeOK, QuerySound, StepSound
<1>2. ASSUME NEW verified \in BOOLEAN, Return(q, used, verified)
      PROVE  IInv'
  <2> DEFINE v == verified /\ FitsWithin(used, booked[q].reserved)
  <2>1. /\ v \in BOOLEAN /\ (v => FitsWithin(used, booked[q].reserved))
        /\ run[q].step = "running"
        /\ UNCHANGED <<clock, queries, spent, booked>>
    BY <1>2 DEF Return
  <2>2. run' = [run EXCEPT ![q] = [@ EXCEPT !.step = "settling", !.used = used,
                                            !.verified = v]]
    BY <1>2 DEF Return
  <2> HIDE DEF v
  <2> QED BY <2>1, <2>2, DelegateEnds
<1>3. ASSUME NEW step \in {"settling", "ended"}, run[q].step = "running",
             run' = [run EXCEPT ![q].step = step, ![q].used = used],
             UNCHANGED <<clock, queries, spent, booked>>
      PROVE  IInv'
  <2>1. run[q].verified = FALSE
    BY <1>1, <1>3 DEF QueryRun
  <2>2. run' = [run EXCEPT ![q] = [@ EXCEPT !.step = step, !.used = used,
                                            !.verified = FALSE]]
    BY <1>1, <1>3, <2>1 DEF QueryRun, IInv, TypeOK
  <2> QED BY <1>3, <2>2, DelegateEnds
<1> QED BY <1>2, <1>3 DEF Break, Die

(* A call that fails ends the query and changes nothing else. *)
LEMMA LoseSound ==
    ASSUME IInv, NEW q \in Queries, Lose(q)
    PROVE  IInv'
<1> DEFINE r == [run[q] EXCEPT !.step = "ended"]
<1>1. /\ r \in QueryRun /\ run' = [run EXCEPT ![q] = r] /\ run'[q] = r
      /\ r.step = "ended" /\ r.used = run[q].used
  BY DEF Lose, To, QueryRun, Step, IInv, TypeOK
<1>2. Covered(q) /\ UNCHANGED <<clock, queries, spent, booked>>
  BY DEF IInv, QuerySound, Lose
<1>3. StepSound(q)' /\ Covered(q)'
  BY <1>1, <1>2 DEF StepSound, Covered, Charge
<1> QED BY <1>1, <1>2, <1>3, LocalStep

(* Settling charges the verified usage, or everything. *)
LEMMA SettleSound ==
    ASSUME IInv, NEW q \in Queries, Settle(q)
    PROVE  IInv'
<1> DEFINE b == booked[q]  c == [b EXCEPT !.actual = Due(q), !.settled = TRUE]
<1>1. /\ run[q].step = "settling" /\ StoreSettle(q, Due(q)) /\ clock' = clock
      /\ run' = [run EXCEPT ![q].step = "ended"] /\ run[q] \in QueryRun
  BY DEF Settle, To, IInv, TypeOK
<1>2. /\ run' \in [Queries -> QueryRun]
      /\ run'[q].step = "ended" /\ run'[q].used = run[q].used
      /\ \A p \in Queries \ {q} : run'[p] = run[p]
  BY <1>1 DEF IInv, TypeOK, QueryRun, Step
<1>3. b # NoRow /\ ~b.settled /\ b \in Reservation
  BY <1>1, ChargedInFull
<1>4. Due(q) \in Amount /\ FitsWithin(Due(q), b.reserved)
  BY <1>1, <1>3 DEF Due, StoreSettle, QueryRun, Reservation
<1>5. /\ TypeOK' /\ booked'[q] = c
      /\ \A p \in Queries \ {q} : booked'[p] = booked[p]
      /\ \A w \in DayWindow : spent[w] # NoRow => spent'[w] # NoRow
  <2>1. TypeOK /\ RowSound(q)
    BY DEF IInv, QuerySound
  <2> QED BY <1>1, <1>2, <1>3, <1>4, <2>1, SettleEffect DEF TypeOK
<1>6. /\ c.actual = Due(q) /\ c.settled /\ c.day = b.day
      /\ c.reserved = b.reserved /\ c \in Reservation /\ c # NoRow
  BY <1>3, <1>4, NoRowAssumption DEF Reservation
<1>7. StepSound(q)'
  BY <1>2 DEF StepSound
<1>8. RowSound(q)'
  BY <1>3, <1>4, <1>5, <1>6 DEF RowSound, IInv, QuerySound, FitsWithin, Reservation
<1>9. Covered(q)'
  <2>1. Charge(q)' = Due(q)
    BY <1>5, <1>6 DEF Charge
  <2>2. \A k \in Kinds : \/ run[q].used[k] <= Due(q)[k]
                          \/ b.reserved[k] <= Due(q)[k]
    BY <1>1, <1>3 DEF Due, QueryRun, Reservation, Amount
  <2> QED BY <1>2, <1>5, <1>6, <2>1, <2>2 DEF Covered
<1> QED BY <1>2, <1>5, <1>7, <1>8, <1>9, OthersSound DEF IInv, QuerySound

(* Every step keeps the invariant. *)
LEMMA Inductive == IInv /\ [Next]_vars => IInv'
<1> SUFFICES ASSUME IInv, [Next]_vars PROVE IInv'
  OBVIOUS
<1>1. CASE UNCHANGED vars
  BY <1>1 DEF vars, IInv, TypeOK, QuerySound, StepSound, RowSound, Covered, Charge
<1>2. CASE Tick
  <2>1. clock' \in Minutes
    BY <1>2, ClockAssumption DEF Tick, IInv, TypeOK, Minutes
  <2> QED
    BY <1>2, <2>1
    DEF Tick, IInv, TypeOK, QuerySound, StepSound, RowSound, Covered, Charge
<1>3. ASSUME NEW q \in Queries, NEW used \in Usages, SettleAgain(q, used)
      PROVE  IInv'
  <2>1. UNCHANGED vars
    BY <1>3 DEF SettleAgain, StoreSettle, vars
  <2> QED
    BY <2>1
    DEF vars, IInv, TypeOK, QuerySound, StepSound, RowSound, Covered, Charge
<1> QED
  BY <1>1, <1>2, <1>3, SubmitSound, ReserveSound, RejectSound, ReturnSound,
     SettleSound, LoseSound
  DEF Next

LEMMA InitSound == Init => IInv
<1> SUFFICES ASSUME Init PROVE IInv
  OBVIOUS
<1>1. NewRun \in QueryRun /\ 0 \in Minutes
  BY ClockAssumption, AmountFacts DEF NewRun, QueryRun, Step, Minutes
<1>2. TypeOK
  BY <1>1 DEF Init, TypeOK
<1>3. \A q \in Queries : QuerySound(q)
  BY DEF Init, QuerySound, StepSound, RowSound, Covered, NewRun
<1> QED BY <1>2, <1>3 DEF IInv

(* The invariant holds at the start and is kept: any number of queries,   *)
(* any failures.                                                           *)
THEOREM BudgetInductive == Spec => []IInv
BY InitSound, Inductive, PTL DEF Spec

(* Type correctness of windows, reservations and runs. *)
THEOREM BudgetTyped == Spec => []TypeOK
<1>1. IInv => TypeOK
  BY DEF IInv
<1> QED BY <1>1, BudgetInductive, PTL

(* What a query used of its reservation is never refunded. *)
THEOREM UsageCharged == Spec => []SpentIsCharged
<1>1. IInv => SpentIsCharged
  BY DEF IInv, QuerySound, Covered, SpentIsCharged
<1> QED BY <1>1, BudgetInductive, PTL

-----------------------------------------------------------------------------
(* A step changes the tables by reserve or settle, or not at all. *)
LEMMA StoreSteps ==
    ASSUME IInv, [Next]_vars
    PROVE  \/ UNCHANGED <<queries, spent, booked>>
           \/ \E q \in Queries :
                /\ run[q].command \in Command /\ booked[q] = NoRow
                /\ StoreReserve(q)
                /\ \A p \in Queries :
                     run'[p].used = run[p].used /\ run'[p].verified = run[p].verified
           \/ \E q \in Queries :
                /\ booked[q] # NoRow /\ booked[q] \in Reservation
                /\ ~booked[q].settled /\ RowSound(q)
                /\ Due(q) \in Amount /\ StoreSettle(q, Due(q))
                /\ \A p \in Queries :
                     run'[p].used = run[p].used /\ run'[p].verified = run[p].verified
<1>1. ASSUME NEW q \in Queries, NEW step \in Step, To(q, step)
      PROVE  \A p \in Queries :
               run'[p].used = run[p].used /\ run'[p].verified = run[p].verified
  BY <1>1 DEF To, IInv, TypeOK, QueryRun
<1>2. ASSUME NEW q \in Queries, Reserve(q)
      PROVE  /\ run[q].command \in Command /\ booked[q] = NoRow /\ StoreReserve(q)
             /\ \E step \in Step : To(q, step)
  BY <1>2 DEF Reserve, IInv, QuerySound, StepSound, Step
<1>3. ASSUME NEW q \in Queries, Settle(q)
      PROVE  /\ booked[q] # NoRow /\ booked[q] \in Reservation
             /\ ~booked[q].settled /\ RowSound(q)
             /\ Due(q) \in Amount /\ StoreSettle(q, Due(q))
             /\ To(q, "ended")
  <2>1. booked[q] \in Reservation /\ booked[q] # NoRow /\ ~booked[q].settled
    BY <1>3, ChargedInFull DEF Settle
  <2> QED
    BY <1>3, <2>1
    DEF Settle, Due, IInv, TypeOK, QueryRun, QuerySound, Reservation
<1>4. ASSUME NEW q \in Queries, NEW used \in Usages, SettleAgain(q, used)
      PROVE  UNCHANGED <<queries, spent, booked>>
  BY <1>4 DEF SettleAgain, StoreSettle
<1>5. ASSUME NEW q \in Queries,
             \/ \E c \in Command : Submit(q, c)
             \/ Reject(q) \/ Lose(q)
             \/ \E used \in Usages :
                    \/ \E verified \in BOOLEAN : Return(q, used, verified)
                    \/ Break(q, used)
                    \/ Die(q, used)
      PROVE  UNCHANGED <<queries, spent, booked>>
  BY <1>5 DEF Submit, Reject, Lose, Return, Break, Die
<1>6. Tick \/ UNCHANGED vars => UNCHANGED <<queries, spent, booked>>
  BY DEF Tick, vars
<1>7. "ended" \in Step
  BY DEF Step
<1> QED BY <1>1, <1>2, <1>3, <1>4, <1>5, <1>6, <1>7 DEF Next

(* A reservation is settled once and then never changes. *)
THEOREM SettledOnce == Spec => ReservationsAreFinal
<1> DEFINE Final(q) ==
        booked[q] # NoRow =>
            /\ booked'[q] # NoRow
            /\ booked[q].settled => booked'[q] = booked[q]
            /\ booked'[q].day = booked[q].day
            /\ FitsWithin(Charge(q)', Charge(q))
<1>1. ASSUME IInv, NEW q \in Queries, booked'[q] = booked[q]
      PROVE  Final(q)
  <2>1. booked[q] # NoRow =>
            /\ booked[q] \in Reservation
            /\ Charge(q)' = Charge(q) /\ Charge(q) \in Amount
    BY <1>1 DEF IInv, TypeOK, Charge, Reservation
  <2> QED BY <1>1, <2>1 DEF FitsWithin, Amount
<1>2. ASSUME IInv, NEW q \in Queries, booked[q] # NoRow, RowSound(q),
             NEW actual \in Amount, StoreSettle(q, actual)
      PROVE  \A p \in Queries : Final(p)
  <2>1. /\ booked[q].settled => booked'[q] = booked[q]
        /\ ~booked[q].settled =>
                booked'[q] = [booked[q] EXCEPT !.actual = actual,
                                               !.settled = TRUE]
        /\ \A p \in Queries \ {q} : booked'[p] = booked[p]
    BY <1>2, SettleEffect DEF IInv
  <2>2. CASE booked[q].settled
    BY <1>1, <1>2, <2>1, <2>2
  <2>3. CASE ~booked[q].settled
    <3> DEFINE c == [booked[q] EXCEPT !.actual = actual, !.settled = TRUE]
    <3>1. booked[q] \in Reservation
      BY <1>2 DEF IInv, TypeOK
    <3>2. /\ c \in Reservation /\ c # NoRow /\ c.day = booked[q].day
          /\ c.settled /\ c.actual = actual
      BY <3>1, NoRowAssumption DEF Reservation
    <3>3. Charge(q)' = actual /\ Charge(q) = booked[q].reserved
      BY <2>1, <2>3, <3>2 DEF Charge
    <3>4. FitsWithin(actual, booked[q].reserved)
      BY <1>2 DEF StoreSettle
    <3>5. Final(q)
      BY <2>1, <2>3, <3>2, <3>3, <3>4
    <3> QED BY <1>1, <1>2, <2>1, <3>5
  <2> QED BY <2>2, <2>3
<1>3. ASSUME IInv, NEW q \in Queries, run[q].command \in Command,
             booked[q] = NoRow, StoreReserve(q)
      PROVE  \A p \in Queries : Final(p)
  <2>1. \A p \in Queries \ {q} : booked'[p] = booked[p]
    BY <1>3, ReserveEffect DEF IInv
  <2> QED BY <1>1, <1>3, <2>1
<1>4. IInv /\ [Next]_vars => \A q \in Queries : Final(q)
  BY <1>1, <1>2, <1>3, StoreSteps
<1> QED BY <1>4, BudgetInductive, PTL DEF Spec, ReservationsAreFinal

(* No window is ever above its limit, if each single reservation fits. *)
THEOREM LimitsKept == ASSUME BudgetsFit PROVE Spec => []WithinLimits
<1>1. Init => WithinLimits
  BY LimitsAssumption DEF Init, WithinLimits
<1>2. ASSUME IInv, WithinLimits, NEW q \in Queries,
             run[q].command \in Command, StoreReserve(q)
      PROVE  WithinLimits'
  <2> DEFINE b == ReservationFor(run[q])
  <2>1. b \in Reservation /\ b.reserved = Budget[run[q].command.mode]
    BY <1>2, NewReservation DEF IInv
  <2>2. FitsWithin(b.reserved, DailyLimit)
    BY <1>2, <2>1, BudgetsFit DEF BudgetsFit, Command
  <2>3. /\ Admits(b)
        /\ queries' = [queries EXCEPT ![b.minute] = @ + 1]
        /\ spent' = [spent EXCEPT ![b.day] =
                        IF @ = NoRow THEN b.reserved ELSE Plus(@, b.reserved)]
    BY <1>2 DEF StoreReserve
  <2>4. b.minute \in MinuteWindow /\ b.day \in DayWindow
    BY <2>1 DEF Reservation
  <2> HIDE DEF b
  <2>5. \A w \in MinuteWindow : queries'[w] <= QueriesPerMinute
    BY <1>2, <2>3, <2>4 DEF Admits, WithinLimits, IInv, TypeOK
  <2>6. \A w \in DayWindow : spent'[w] # NoRow => FitsWithin(spent'[w], DailyLimit)
    BY <1>2, <2>2, <2>3, <2>4 DEF Admits, WithinLimits, IInv, TypeOK
  <2> QED BY <2>5, <2>6 DEF WithinLimits
<1>3. ASSUME IInv, WithinLimits, NEW q \in Queries, booked[q] # NoRow,
             RowSound(q), NEW actual \in Amount, StoreSettle(q, actual)
      PROVE  WithinLimits'
  <2> DEFINE b == booked[q]
  <2>1. /\ b \in Reservation /\ b.day \in DayWindow
        /\ spent[b.day] \in [Kinds -> Int] /\ spent[b.day] # NoRow
        /\ b.reserved \in Amount /\ FitsWithin(actual, b.reserved)
    BY <1>3 DEF IInv, TypeOK, RowSound, Reservation, StoreSettle
  <2>2. FitsWithin(Minus(spent[b.day], Minus(b.reserved, actual)), DailyLimit)
    BY <1>3, <2>1, LimitsAssumption DEF FitsWithin, Minus, WithinLimits, Amount
  <2>3. /\ queries' = queries
        /\ \/ spent' = spent
           \/ spent' = [spent EXCEPT ![b.day] =
                           Minus(@, Minus(b.reserved, actual))]
    BY <1>3 DEF StoreSettle
  <2> HIDE DEF b
  <2> QED BY <1>3, <2>1, <2>2, <2>3 DEF WithinLimits, IInv, TypeOK
<1>4. IInv /\ WithinLimits /\ [Next]_vars => WithinLimits'
  <2>1. ASSUME WithinLimits, UNCHANGED <<queries, spent, booked>>
        PROVE  WithinLimits'
    BY <2>1 DEF WithinLimits
  <2> QED BY <1>2, <1>3, <2>1, StoreSteps
<1> QED BY <1>1, <1>4, BudgetInductive, PTL DEF Spec

-----------------------------------------------------------------------------
(* Sums.  That a window is the sum of its reservations needs what the      *)
(* fold of the library gives when a summand is added or changed.           *)

(* Induction over the natural numbers for a set. *)
LEMMA SetInduction ==
    ASSUME NEW T, 0 \in T, \A n \in Nat : n \in T => n + 1 \in T
    PROVE  Nat \subseteq T
<1> SUFFICES ASSUME Nat \ T # {} PROVE FALSE
  OBVIOUS
<1> DEFINE less == OpToRel(<, Nat)
<1>1. IsWellFoundedOn(less, Nat)
  BY NatLessThanWellFounded
<1>2. \A m, n \in Nat : m < n => <<m, n>> \in less
  BY DEF OpToRel
<1> HIDE DEF less
<1>3. PICK least \in Nat \ T : \A n \in Nat \ T : ~ (<<n, least>> \in less)
  <2>1. Nat \ T \subseteq Nat
    OBVIOUS
  <2> QED BY <1>1, <2>1, WFMin
<1>4. least # 0 /\ least - 1 \in Nat /\ least - 1 < least
  BY <1>3
<1>5. least - 1 \in T
  BY <1>2, <1>3, <1>4
<1>6. (least - 1) + 1 = least
  BY <1>3
<1> QED BY <1>3, <1>4, <1>5, <1>6

-----------------------------------------------------------------------------
Pick(s) == CHOOSE x \in s : TRUE

(* sums gives, for each subset of S, the sum of fun over it, in the order *)
(* the folds of the library take.                                          *)
SumsOver(fun, S, sums) ==
    sums = [s \in SUBSET S |->
              IF s = {} THEN 0 ELSE fun[Pick(s)] + sums[s \ {Pick(s)}]]

LEMMA SumAsFold ==
    ASSUME NEW fun, NEW S
    PROVE  SumFunctionOnSet(fun, S) = (CHOOSE sums : SumsOver(fun, S, sums))[S]
BY DEF SumFunctionOnSet, FoldFunctionOnSet, MapThenFoldSet, SumsOver, Pick

(* Taking elements from a finite set. *)
LEMMA PickFacts ==
    ASSUME NEW S, IsFiniteSet(S)
    PROVE  \A s \in SUBSET S :
             /\ IsFiniteSet(s)
             /\ Cardinality(s) \in Nat /\ (Cardinality(s) = 0 <=> s = {})
             /\ \A x \in s : /\ s \ {x} \in SUBSET S
                            /\ Cardinality(s \ {x}) = Cardinality(s) - 1
             /\ s # {} => /\ Pick(s) \in s
                          /\ s \ {Pick(s)} \in SUBSET S
                          /\ Cardinality(s \ {Pick(s)}) = Cardinality(s) - 1
<1> TAKE s \in SUBSET S
<1>1. IsFiniteSet(s)
  BY FS_Subset
<1>2. Cardinality(s) \in Nat /\ (Cardinality(s) = 0 <=> s = {})
  BY <1>1, FS_CardinalityType, FS_EmptySet
<1>3. ASSUME NEW x \in s PROVE Cardinality(s \ {x}) = Cardinality(s) - 1
  BY <1>1, FS_RemoveElement
<1>4. s # {} => Pick(s) \in s
  BY DEF Pick
<1> QED BY <1>1, <1>2, <1>3, <1>4

(* A fold over a finite set exists: sets of at most n elements, n growing. *)
LEMMA SumsExist ==
    ASSUME NEW fun, NEW S, IsFiniteSet(S)
    PROVE  \E sums : SumsOver(fun, S, sums)
<1> DEFINE
      Small(n) == {s \in SUBSET S : Cardinality(s) <= n}
      Upto(n, g) == g = [s \in Small(n) |->
                           IF s = {} THEN 0 ELSE fun[Pick(s)] + g[s \ {Pick(s)}]]
      T == {n \in Nat : \E g : Upto(n, g)}
<1>1. \A s \in SUBSET S :
        /\ Cardinality(s) \in Nat /\ (Cardinality(s) = 0 <=> s = {})
        /\ s # {} => /\ s \ {Pick(s)} \in SUBSET S
                     /\ Cardinality(s \ {Pick(s)}) = Cardinality(s) - 1
  BY PickFacts
<1>2. 0 \in T
  <2> DEFINE g == [s \in Small(0) |-> 0]
  <2>1. ASSUME NEW s \in Small(0) PROVE s = {}
    <3>1. s \in SUBSET S /\ Cardinality(s) <= 0
      OBVIOUS
    <3>2. Cardinality(s) \in Nat /\ (Cardinality(s) = 0 <=> s = {})
      BY <1>1, <3>1
    <3>3. Cardinality(s) = 0
      BY <3>1, <3>2
    <3> QED BY <3>2, <3>3
  <2>2. Upto(0, g)
    BY <2>1
  <2> HIDE DEF Upto, g
  <2> QED BY <2>2
<1>3. ASSUME NEW n \in Nat, n \in T PROVE n + 1 \in T
  <2>1. PICK g : Upto(n, g)
    BY <1>3
  <2> DEFINE h == [s \in Small(n + 1) |->
                     IF s = {} THEN 0 ELSE fun[Pick(s)] + g[s \ {Pick(s)}]]
  <2>2. ASSUME NEW s \in Small(n + 1), s # {} PROVE s \ {Pick(s)} \in Small(n)
    <3>1. /\ s \ {Pick(s)} \in SUBSET S /\ Cardinality(s) \in Nat
          /\ Cardinality(s \ {Pick(s)}) = Cardinality(s) - 1
      BY <1>1, <2>2
    <3>2. Cardinality(s) <= n + 1
      BY <2>2
    <3>3. Cardinality(s \ {Pick(s)}) <= n
      BY <3>1, <3>2
    <3> QED BY <3>1, <3>3
  <2>3. ASSUME NEW s \in Small(n) PROVE s \in Small(n + 1) /\ h[s] = g[s]
    <3>1. s \in Small(n + 1)
      <4>1. Cardinality(s) \in Nat /\ Cardinality(s) <= n /\ s \in SUBSET S
        BY <1>1, <2>3
      <4>2. Cardinality(s) <= n + 1
        BY <4>1
      <4> QED BY <4>1, <4>2
    <3> HIDE DEF Small
    <3>2. h[s] = IF s = {} THEN 0 ELSE fun[Pick(s)] + g[s \ {Pick(s)}]
      BY <3>1
    <3>3. g[s] = IF s = {} THEN 0 ELSE fun[Pick(s)] + g[s \ {Pick(s)}]
      BY <2>1, <2>3
    <3> QED BY <3>1, <3>2, <3>3
  <2>4. Upto(n + 1, h)
    BY <2>2, <2>3
  <2> HIDE DEF Upto, h
  <2> QED BY <2>4
<1>4. Nat \subseteq T
  <2> HIDE DEF T
  <2> QED BY <1>2, <1>3, SetInduction
<1>5. Cardinality(S) \in Nat /\ Small(Cardinality(S)) = SUBSET S
  <2>1. \A s \in SUBSET S : Cardinality(s) <= Cardinality(S)
    BY FS_Subset
  <2> QED BY <1>1, <2>1
<1>6. PICK g : Upto(Cardinality(S), g)
  BY <1>4, <1>5
<1>7. SumsOver(fun, S, g)
  BY <1>5, <1>6 DEF SumsOver
<1> QED BY <1>7

(* Folds of the same function over two sets agree on the smaller one. *)
LEMMA SumsAgree ==
    ASSUME NEW fun, NEW S, IsFiniteSet(S), NEW T \in SUBSET S,
           NEW f, SumsOver(fun, S, f), NEW g, SumsOver(fun, T, g)
    PROVE  \A t \in SUBSET T : g[t] = f[t]
<1> DEFINE Agree == {n \in Nat : \A t \in SUBSET T :
                                    Cardinality(t) = n => g[t] = f[t]}
<1>1. \A t \in SUBSET S :
        /\ Cardinality(t) \in Nat /\ (Cardinality(t) = 0 <=> t = {})
        /\ t # {} => /\ Pick(t) \in t
                     /\ Cardinality(t \ {Pick(t)}) = Cardinality(t) - 1
  BY PickFacts
<1>2. \A t \in SUBSET T :
        /\ f[t] = IF t = {} THEN 0 ELSE fun[Pick(t)] + f[t \ {Pick(t)}]
        /\ g[t] = IF t = {} THEN 0 ELSE fun[Pick(t)] + g[t \ {Pick(t)}]
  <2>1. SUBSET T \subseteq SUBSET S
    OBVIOUS
  <2> QED BY <2>1 DEF SumsOver
<1>3. 0 \in Agree
  <2>1. \A t \in SUBSET T : Cardinality(t) = 0 => t = {}
    BY <1>1
  <2> QED BY <1>2, <2>1
<1>4. ASSUME NEW n \in Nat, n \in Agree PROVE n + 1 \in Agree
  <2>1. ASSUME NEW t \in SUBSET T, Cardinality(t) = n + 1 PROVE g[t] = f[t]
    <3>1. t \in SUBSET S /\ n + 1 # 0 /\ (n + 1) - 1 = n
      OBVIOUS
    <3>2. t # {}
      BY <1>1, <2>1, <3>1
    <3>3. Cardinality(t \ {Pick(t)}) = n /\ t \ {Pick(t)} \in SUBSET T
      BY <1>1, <2>1, <3>1, <3>2
    <3>4. g[t \ {Pick(t)}] = f[t \ {Pick(t)}]
      BY <1>4, <3>3
    <3> QED BY <1>2, <3>2, <3>4
  <2> QED BY <2>1
<1>5. Nat \subseteq Agree
  <2> HIDE DEF Agree
  <2> QED BY <1>3, <1>4, SetInduction
<1> TAKE t \in SUBSET T
<1>6. Cardinality(t) \in Agree
  BY <1>1, <1>5
<1> QED BY <1>6

(* The sum over a finite set takes one element after another. *)
LEMMA SumUnfolds ==
    ASSUME NEW fun, NEW S, IsFiniteSet(S)
    PROVE  SumFunctionOnSet(fun, S) =
               IF S = {} THEN 0
               ELSE fun[Pick(S)] + SumFunctionOnSet(fun, S \ {Pick(S)})
<1> DEFINE f == CHOOSE sums : SumsOver(fun, S, sums)
           R == S \ {Pick(S)}
           g == CHOOSE sums : SumsOver(fun, R, sums)
<1>1. SumsOver(fun, S, f)
  BY SumsExist
<1>2. SumsOver(fun, R, g)
  <2>1. IsFiniteSet(R)
    BY FS_Subset
  <2> HIDE DEF R
  <2> QED BY <2>1, SumsExist
<1>3. SumFunctionOnSet(fun, S) = f[S] /\ SumFunctionOnSet(fun, R) = g[R]
  BY SumAsFold
<1> HIDE DEF f, g
<1>4. f[S] = IF S = {} THEN 0 ELSE fun[Pick(S)] + f[R]
  BY <1>1 DEF SumsOver
<1>5. R \in SUBSET S /\ R \in SUBSET R
  OBVIOUS
<1>6. g[R] = f[R]
  <2> HIDE DEF R
  <2> QED BY <1>1, <1>2, <1>5, SumsAgree
<1> QED BY <1>3, <1>4, <1>6

(* A sum of integers is an integer. *)
LEMMA SumTyped ==
    ASSUME NEW S, IsFiniteSet(S), NEW fun, \A x \in S : fun[x] \in Int
    PROVE  \A s \in SUBSET S : SumFunctionOnSet(fun, s) \in Int
<1> DEFINE
      Sum(s) == SumFunctionOnSet(fun, s)
      T == {n \in Nat : \A s \in SUBSET S : Cardinality(s) = n => Sum(s) \in Int}
<1>1. \A s \in SUBSET S :
        /\ IsFiniteSet(s)
        /\ Cardinality(s) \in Nat /\ (Cardinality(s) = 0 <=> s = {})
        /\ s # {} => /\ Pick(s) \in s /\ s \ {Pick(s)} \in SUBSET S
                     /\ Cardinality(s \ {Pick(s)}) = Cardinality(s) - 1
  BY PickFacts
<1>2. \A s \in SUBSET S :
        Sum(s) = IF s = {} THEN 0 ELSE fun[Pick(s)] + Sum(s \ {Pick(s)})
  BY <1>1, SumUnfolds
<1> HIDE DEF Sum
<1>3. 0 \in T
  <2>1. \A s \in SUBSET S : Cardinality(s) = 0 => s = {}
    BY <1>1
  <2>2. Sum({}) = 0
    BY <1>2
  <2> QED BY <2>1, <2>2
<1>4. ASSUME NEW n \in Nat, n \in T PROVE n + 1 \in T
  <2>1. ASSUME NEW s \in SUBSET S, Cardinality(s) = n + 1 PROVE Sum(s) \in Int
    <3>1. n + 1 # 0 /\ (n + 1) - 1 = n
      OBVIOUS
    <3>2. s # {} /\ Pick(s) \in S
      BY <1>1, <2>1, <3>1
    <3>3. Cardinality(s \ {Pick(s)}) = n /\ s \ {Pick(s)} \in SUBSET S
      BY <1>1, <2>1, <3>1, <3>2
    <3>4. Sum(s \ {Pick(s)}) \in Int /\ fun[Pick(s)] \in Int
      BY <1>4, <3>2, <3>3
    <3>5. Sum(s) = fun[Pick(s)] + Sum(s \ {Pick(s)})
      BY <1>2, <3>2
    <3> QED BY <3>4, <3>5
  <2> QED BY <2>1
<1>5. Nat \subseteq T
  <2> HIDE DEF T
  <2> QED BY <1>3, <1>4, SetInduction
<1> QED BY <1>1, <1>5 DEF Sum

(* ... in any order. *)
LEMMA SumTakes ==
    ASSUME NEW S, IsFiniteSet(S), NEW fun, \A x \in S : fun[x] \in Int
    PROVE  /\ SumFunctionOnSet(fun, S) \in Int
           /\ S = {} => SumFunctionOnSet(fun, S) = 0
           /\ \A x \in S : SumFunctionOnSet(fun, S) =
                             fun[x] + SumFunctionOnSet(fun, S \ {x})
<1> DEFINE
      Sum(s) == SumFunctionOnSet(fun, s)
      Good(s) == Sum(s) \in Int /\ \A x \in s : Sum(s) = fun[x] + Sum(s \ {x})
      T == {n \in Nat : \A s \in SUBSET S : Cardinality(s) = n => Good(s)}
<1>1. \A s \in SUBSET S :
        /\ IsFiniteSet(s)
        /\ Cardinality(s) \in Nat /\ (Cardinality(s) = 0 <=> s = {})
        /\ \A x \in s : /\ s \ {x} \in SUBSET S
                       /\ Cardinality(s \ {x}) = Cardinality(s) - 1
        /\ s # {} => Pick(s) \in s
  BY PickFacts
<1>0. \A s \in SUBSET S : Sum(s) \in Int
  BY SumTyped
<1>2. \A s \in SUBSET S :
        Sum(s) = IF s = {} THEN 0 ELSE fun[Pick(s)] + Sum(s \ {Pick(s)})
  BY <1>1, SumUnfolds
<1> HIDE DEF Sum
<1>3. 0 \in T
  <2>1. \A s \in SUBSET S : Cardinality(s) = 0 => s = {}
    BY <1>1
  <2>2. {} \in SUBSET S
    OBVIOUS
  <2>3. Sum({}) \in Int
    BY <1>0, <2>2
  <2>4. Good({})
    BY <2>3
  <2> HIDE DEF Good
  <2> QED BY <2>1, <2>4
<1>4. ASSUME NEW n \in Nat, n \in T PROVE n + 1 \in T
  <2>1. ASSUME NEW s \in SUBSET S, Cardinality(s) = n + 1 PROVE Good(s)
    <3> DEFINE p == Pick(s)
    <3>1. n + 1 # 0 /\ (n + 1) - 1 = n
      OBVIOUS
    <3>2. s # {} /\ p \in s
      BY <1>1, <2>1, <3>1
    <3>3. \A x \in s : Cardinality(s \ {x}) = n /\ s \ {x} \in SUBSET S
      BY <1>1, <2>1, <3>1
    <3>4. \A x \in s : Good(s \ {x})
      <4> HIDE DEF Good
      <4> QED BY <1>4, <3>3
    <3>5. Sum(s) = fun[p] + Sum(s \ {p})
      BY <1>2, <3>2
    <3> HIDE DEF p
    <3>6. Sum(s) \in Int
      BY <1>0
    <3>7. ASSUME NEW x \in s, x # p PROVE Sum(s) = fun[x] + Sum(s \ {x})
      <4>1. Sum(s \ {p}) = fun[x] + Sum((s \ {p}) \ {x})
        BY <3>2, <3>4, <3>7
      <4>2. Sum(s \ {x}) = fun[p] + Sum((s \ {x}) \ {p})
        BY <3>2, <3>4, <3>7
      <4>3. (s \ {p}) \ {x} = (s \ {x}) \ {p}
        OBVIOUS
      <4>4. x \in S /\ p \in S /\ (s \ {p}) \ {x} \in SUBSET S
        BY <3>2
      <4>5. /\ fun[x] \in Int /\ fun[p] \in Int
            /\ Sum((s \ {p}) \ {x}) \in Int
        BY <1>0, <4>4
      <4>6. \A i, j, k \in Int : i + (j + k) = j + (i + k)
        OBVIOUS
      <4>7. Sum(s) = fun[p] + (fun[x] + Sum((s \ {p}) \ {x}))
        BY <3>5, <4>1
      <4>8. Sum(s) = fun[x] + (fun[p] + Sum((s \ {p}) \ {x}))
        BY <4>5, <4>6, <4>7
      <4> QED BY <4>2, <4>3, <4>8
    <3> QED BY <3>5, <3>6, <3>7
  <2> HIDE DEF Good
  <2> QED BY <2>1
<1>5. Nat \subseteq T
  <2> HIDE DEF T
  <2> QED BY <1>3, <1>4, SetInduction
<1>6. Good(S)
  BY <1>1, <1>5
<1>7. S = {} => Sum(S) = 0
  BY <1>2
<1> QED BY <1>6, <1>7 DEF Sum

(* Sums depend on the values only. *)
LEMMA SumExtensional ==
    ASSUME NEW S, IsFiniteSet(S), NEW f, NEW g, \A x \in S : f[x] = g[x]
    PROVE  SumFunctionOnSet(f, S) = SumFunctionOnSet(g, S)
<1> DEFINE
      Same(s) == SumFunctionOnSet(f, s) = SumFunctionOnSet(g, s)
      T == {n \in Nat : \A s \in SUBSET S : Cardinality(s) = n => Same(s)}
<1>1. \A s \in SUBSET S :
        /\ IsFiniteSet(s)
        /\ Cardinality(s) \in Nat /\ (Cardinality(s) = 0 <=> s = {})
        /\ s # {} => /\ Pick(s) \in s /\ s \ {Pick(s)} \in SUBSET S
                     /\ Cardinality(s \ {Pick(s)}) = Cardinality(s) - 1
  BY PickFacts
<1>2. ASSUME NEW s \in SUBSET S, s # {} => Same(s \ {Pick(s)})
      PROVE  Same(s)
  <2>1. /\ SumFunctionOnSet(f, s) =
             IF s = {} THEN 0
             ELSE f[Pick(s)] + SumFunctionOnSet(f, s \ {Pick(s)})
        /\ SumFunctionOnSet(g, s) =
             IF s = {} THEN 0
             ELSE g[Pick(s)] + SumFunctionOnSet(g, s \ {Pick(s)})
    BY <1>1, SumUnfolds
  <2>2. s # {} => f[Pick(s)] = g[Pick(s)]
    BY <1>1
  <2> QED BY <1>2, <2>1, <2>2
<1> HIDE DEF Same
<1>3. 0 \in T
  <2>1. \A s \in SUBSET S : Cardinality(s) = 0 => s = {}
    BY <1>1
  <2> QED BY <1>2, <2>1
<1>4. ASSUME NEW n \in Nat, n \in T PROVE n + 1 \in T
  <2>1. ASSUME NEW s \in SUBSET S, Cardinality(s) = n + 1 PROVE Same(s)
    <3>1. n + 1 # 0 /\ (n + 1) - 1 = n
      OBVIOUS
    <3>2. s # {}
      BY <1>1, <2>1, <3>1
    <3>3. Cardinality(s \ {Pick(s)}) = n /\ s \ {Pick(s)} \in SUBSET S
      BY <1>1, <2>1, <3>1, <3>2
    <3> QED BY <1>2, <1>4, <3>3
  <2> QED BY <2>1
<1>5. Nat \subseteq T
  <2> HIDE DEF T
  <2> QED BY <1>3, <1>4, SetInduction
<1> QED BY <1>1, <1>5 DEF Same

(* One more summand. *)
LEMMA SumExtended ==
    ASSUME NEW S, IsFiniteSet(S), NEW q, q \notin S,
           NEW f \in [S -> Int], NEW g \in [S \cup {q} -> Int],
           \A x \in S : g[x] = f[x]
    PROVE  SumFunction(g) = SumFunction(f) + g[q]
<1> DEFINE R == S \cup {q}
<1>1. IsFiniteSet(R) /\ R \ {q} = S /\ q \in R
  BY FS_AddElement
<1>2. DOMAIN f = S /\ DOMAIN g = R /\ \A x \in R : g[x] \in Int
  OBVIOUS
<1> HIDE DEF R
<1>3. SumFunctionOnSet(g, R) = g[q] + SumFunctionOnSet(g, S)
  BY <1>1, <1>2, SumTakes
<1>4. SumFunctionOnSet(g, S) = SumFunctionOnSet(f, S)
  BY SumExtensional
<1>5. SumFunctionOnSet(f, S) \in Int
  BY SumTakes
<1> QED BY <1>1, <1>2, <1>3, <1>4, <1>5 DEF SumFunction

(* One summand changed. *)
LEMMA SumChanged ==
    ASSUME NEW S, IsFiniteSet(S), NEW q \in S,
           NEW f \in [S -> Int], NEW g \in [S -> Int],
           \A x \in S \ {q} : g[x] = f[x]
    PROVE  SumFunction(g) = SumFunction(f) - (f[q] - g[q])
<1> DEFINE R == S \ {q}
<1>1. IsFiniteSet(R) /\ R \subseteq S
  BY FS_Subset
<1>2. DOMAIN f = S /\ DOMAIN g = S /\ f[q] \in Int /\ g[q] \in Int
  OBVIOUS
<1>3. /\ SumFunctionOnSet(g, S) = g[q] + SumFunctionOnSet(g, R)
      /\ SumFunctionOnSet(f, S) = f[q] + SumFunctionOnSet(f, R)
  BY SumTakes
<1>4. SumFunctionOnSet(g, R) = SumFunctionOnSet(f, R)
  BY <1>1, SumExtensional
<1>5. SumFunctionOnSet(f, R) \in Int
  BY <1>1, SumTakes
<1> HIDE DEF R
<1> QED BY <1>2, <1>3, <1>4, <1>5 DEF SumFunction

(* Nothing to sum, and the sum of integers. *)
LEMMA SumOfFunction ==
    ASSUME NEW S, IsFiniteSet(S), NEW f \in [S -> Int]
    PROVE  SumFunction(f) \in Int /\ (S = {} => SumFunction(f) = 0)
BY SumTakes DEF SumFunction
-----------------------------------------------------------------------------
(* Windows.  With a finite number of reservations, each window is the sum  *)
(* of what they count for.                                                 *)
WInv == IInv /\ IsFiniteSet(BookedQueries) /\ WindowsMatchReservations

(* What a reservation counts for is a number of each kind. *)
LEMMA ChargeTyped ==
    ASSUME TypeOK
    PROVE  /\ \A q \in BookedQueries : Charge(q) \in Amount
           /\ \A w \in DayWindow, k \in Kinds :
                Charges(w, k) \in [ReservedOn(w) -> Int]
<1>1. \A q \in BookedQueries : Charge(q) \in Amount
  BY DEF TypeOK, BookedQueries, Charge, Reservation
<1>2. \A a \in Amount, k \in Kinds : a[k] \in Int
  BY DEF Amount
<1>3. ASSUME NEW w \in DayWindow, NEW k \in Kinds
      PROVE  Charges(w, k) \in [ReservedOn(w) -> Int]
  <2>1. \A q \in ReservedOn(w) : Charge(q)[k] \in Int
    BY <1>1, <1>2 DEF ReservedOn
  <2> QED BY <2>1 DEF Charges
<1> QED BY <1>1, <1>3

(* The windows of the next state depend on which queries are booked then. *)
LEMMA WindowsFinite ==
    ASSUME IsFiniteSet(BookedQueries)
    PROVE  /\ \A w : IsFiniteSet(ReservedOn(w))
           /\ \A w : IsFiniteSet({q \in BookedQueries : booked[q].minute = w})
<1>1. \A w : ReservedOn(w) \subseteq BookedQueries
  BY DEF ReservedOn
<1>2. \A w : {q \in BookedQueries : booked[q].minute = w} \subseteq BookedQueries
  OBVIOUS
<1> QED BY <1>1, <1>2, FS_Subset

LEMMA ReserveKeepsWindows ==
    ASSUME WInv, TypeOK', NEW q \in Queries, run[q].command \in Command,
           booked[q] = NoRow, StoreReserve(q), NEW b, b = ReservationFor(run[q])
    PROVE  IsFiniteSet(BookedQueries)' /\ WindowsMatchReservations'
<1>1. /\ b \in Reservation /\ b # NoRow /\ ~b.settled
      /\ b.minute \in MinuteWindow /\ b.day \in DayWindow /\ b.reserved \in Amount
  BY NewReservation, NoRowAssumption DEF WInv, IInv, Reservation
<1>2. /\ booked'[q] = b /\ spent'[b.day] # NoRow
      /\ \A p \in Queries \ {q} : booked'[p] = booked[p]
  BY ReserveEffect DEF WInv, IInv
<1>3. /\ queries' = [queries EXCEPT ![b.minute] = @ + 1]
      /\ spent' = [spent EXCEPT ![b.day] =
                     IF @ = NoRow THEN b.reserved ELSE Plus(@, b.reserved)]
  BY DEF StoreReserve
<1>4. q \notin BookedQueries /\ BookedQueries' = BookedQueries \cup {q}
  BY <1>1, <1>2 DEF BookedQueries
<1>5. IsFiniteSet(BookedQueries)'
  BY <1>4, FS_AddElement DEF WInv
<1>6. /\ \A p \in BookedQueries : booked'[p] = booked[p] /\ Charge(p)' = Charge(p)
      /\ Charge(q)' = b.reserved
  BY <1>1, <1>2, <1>4 DEF BookedQueries, Charge
<1>7. ASSUME NEW w \in MinuteWindow
      PROVE  queries'[w] =
               Cardinality({p \in BookedQueries : booked[p].minute = w})'
  <2> DEFINE here == {p \in BookedQueries : booked[p].minute = w}
  <2>1. queries[w] = Cardinality(here) /\ IsFiniteSet(here) /\ q \notin here
    BY <1>4, WindowsFinite DEF WInv, WindowsMatchReservations
  <2>2. here' = IF b.minute = w THEN here \cup {q} ELSE here
    BY <1>2, <1>4, <1>6
  <2>3. queries'[w] = IF b.minute = w THEN queries[w] + 1 ELSE queries[w]
    BY <1>1, <1>3 DEF WInv, IInv, TypeOK
  <2> HIDE DEF here
  <2>4. Cardinality(here \cup {q}) = Cardinality(here) + 1
    BY <2>1, FS_AddElement
  <2>5. queries'[w] = Cardinality(here')
    BY <2>1, <2>2, <2>3, <2>4
  <2> QED BY <2>5 DEF here
<1>8. ASSUME NEW w \in DayWindow, w # b.day
      PROVE  /\ (spent[w] = NoRow <=> ReservedOn(w) = {})'
             /\ \A k \in Kinds :
                  (spent[w] # NoRow => spent[w][k] = SumFunction(Charges(w, k)))'
  <2>1. ReservedOn(w)' = ReservedOn(w)
    BY <1>2, <1>4, <1>6, <1>8 DEF ReservedOn
  <2>2. \A k \in Kinds : Charges(w, k)' = Charges(w, k)
    BY <1>6, <2>1 DEF Charges, ReservedOn
  <2>3. spent'[w] = spent[w]
    BY <1>3, <1>8 DEF WInv, IInv, TypeOK
  <2> QED BY <2>1, <2>2, <2>3 DEF WInv, WindowsMatchReservations
<1>9. ASSUME NEW k \in Kinds
      PROVE  spent'[b.day][k] = SumFunction(Charges(b.day, k))'
  <2> DEFINE w == b.day  here == ReservedOn(w)  f == Charges(w, k)
  <2>1. q \notin here /\ IsFiniteSet(here) /\ here' = here \cup {q}
    <3>1. q \notin here /\ here' = here \cup {q}
      BY <1>2, <1>4, <1>6 DEF ReservedOn
    <3> QED BY <3>1, WindowsFinite DEF WInv
  <2>2. f \in [here -> Int]
    BY <1>1, ChargeTyped DEF WInv, IInv
  <2>3. f' \in [here \cup {q} -> Int] /\ f'[q] = b.reserved[k]
        /\ \A p \in here : f'[p] = f[p]
    <3>1. f' = [p \in here \cup {q} |-> Charge(p)'[k]]
      BY <2>1 DEF Charges
    <3>2. \A p \in here : Charge(p)'[k] = f[p] /\ f[p] \in Int
      BY <1>6, <2>2 DEF Charges, ReservedOn
    <3>3. Charge(q)'[k] = b.reserved[k] /\ b.reserved[k] \in Int
      BY <1>1, <1>6 DEF Amount
    <3> HIDE DEF f, here
    <3> QED BY <3>1, <3>2, <3>3
  <2> HIDE DEF f, here, w
  <2>4. SumFunction(f') = SumFunction(f) + b.reserved[k]
    BY <2>1, <2>2, <2>3, SumExtended
  <2>5. /\ SumFunction(f) \in Int /\ (here = {} => SumFunction(f) = 0)
        /\ b.reserved[k] \in Int
    BY <1>1, <2>1, <2>2, SumOfFunction DEF Amount
  <2>6. /\ spent[w] = NoRow <=> here = {}
        /\ spent[w] # NoRow => spent[w][k] = SumFunction(f)
    BY <1>1 DEF WInv, WindowsMatchReservations, f, here, w
  <2>7. spent'[w] = IF spent[w] = NoRow THEN b.reserved
                    ELSE Plus(spent[w], b.reserved)
    BY <1>1, <1>3 DEF WInv, IInv, TypeOK, w
  <2>8. CASE spent[w] = NoRow
    BY <2>4, <2>5, <2>6, <2>7, <2>8 DEF w, f
  <2>9. CASE spent[w] # NoRow
    <3>1. spent'[w][k] = spent[w][k] + b.reserved[k]
      BY <2>7, <2>9 DEF Plus
    <3> QED BY <2>4, <2>6, <2>9, <3>1 DEF w, f
  <2> QED BY <2>8, <2>9
<1>10. (spent[b.day] = NoRow <=> ReservedOn(b.day) = {})'
  <2>1. q \in ReservedOn(b.day)'
    BY <1>2, <1>4 DEF ReservedOn
  <2> QED BY <1>2, <2>1
<1>11. WindowsMatchReservations'
  BY <1>7, <1>8, <1>9, <1>10 DEF WindowsMatchReservations
<1> QED BY <1>5, <1>11
LEMMA SettleKeepsWindows ==
    ASSUME WInv, TypeOK', NEW q \in Queries, booked[q] # NoRow, RowSound(q),
           NEW actual \in Amount, StoreSettle(q, actual),
           NEW b, b = booked[q], ~b.settled
    PROVE  IsFiniteSet(BookedQueries)' /\ WindowsMatchReservations'
<1> DEFINE c == [b EXCEPT !.actual = actual, !.settled = TRUE]
<1>1. /\ b \in Reservation /\ b.day \in DayWindow /\ b.reserved \in Amount
      /\ spent[b.day] # NoRow /\ spent[b.day] \in [Kinds -> Int]
  BY DEF WInv, IInv, TypeOK, RowSound, Reservation
<1>2. booked'[q] = c /\ \A p \in Queries \ {q} : booked'[p] = booked[p]
  BY SettleEffect DEF WInv, IInv
<1>3. /\ queries' = queries
      /\ spent' = [spent EXCEPT ![b.day] = Minus(@, Minus(b.reserved, actual))]
  BY DEF StoreSettle
<1>4. /\ c \in Reservation /\ c # NoRow /\ c.settled /\ c.actual = actual
      /\ c.day = b.day /\ c.minute = b.minute
  BY <1>1, NoRowAssumption DEF Reservation
<1> HIDE DEF c
<1>5. q \in BookedQueries /\ BookedQueries' = BookedQueries
  BY <1>2, <1>4 DEF BookedQueries
<1>6. IsFiniteSet(BookedQueries)'
  BY <1>5 DEF WInv
<1>7. /\ \A p \in BookedQueries \ {q} : Charge(p)' = Charge(p)
      /\ Charge(q) = b.reserved /\ Charge(q)' = actual
      /\ \A p \in BookedQueries :
           booked'[p].minute = booked[p].minute /\ booked'[p].day = booked[p].day
  BY <1>2, <1>4, <1>5 DEF BookedQueries, Charge
<1>8. \A w : ReservedOn(w)' = ReservedOn(w)
  BY <1>5, <1>7 DEF ReservedOn
<1>9. \A w : {p \in BookedQueries : booked[p].minute = w}' =
             {p \in BookedQueries : booked[p].minute = w}
  BY <1>5, <1>7
<1>10. ASSUME NEW w \in DayWindow, w # b.day
       PROVE  /\ spent'[w] = spent[w]
              /\ \A k \in Kinds : Charges(w, k)' = Charges(w, k)
  <2>1. \A p \in ReservedOn(w) : Charge(p)' = Charge(p)
    BY <1>7, <1>10 DEF ReservedOn
  <2>2. \A k \in Kinds : Charges(w, k)' = Charges(w, k)
    BY <1>8, <2>1 DEF Charges
  <2>3. spent'[w] = spent[w]
    BY <1>3, <1>10 DEF WInv, IInv, TypeOK
  <2> QED BY <2>2, <2>3
<1>11. ASSUME NEW k \in Kinds
       PROVE  spent'[b.day][k] = SumFunction(Charges(b.day, k)')
  <2> DEFINE here == ReservedOn(b.day)  f == Charges(b.day, k)
  <2>1. q \in here /\ IsFiniteSet(here) /\ here' = here
    BY <1>5, <1>8, WindowsFinite DEF WInv, ReservedOn
  <2>2. f \in [here -> Int] /\ f[q] = b.reserved[k]
    BY <1>1, <1>7, <2>1, ChargeTyped DEF WInv, IInv, Charges
  <2>3. /\ f' \in [here -> Int] /\ f'[q] = actual[k]
        /\ \A p \in here \ {q} : f'[p] = f[p]
    <3>1. f' = [p \in here |-> Charge(p)'[k]]
      BY <2>1 DEF Charges
    <3>2. \A p \in here \ {q} : Charge(p)'[k] = f[p] /\ f[p] \in Int
      BY <1>7, <2>2 DEF Charges, ReservedOn
    <3>3. Charge(q)'[k] = actual[k] /\ actual[k] \in Int
      BY <1>7 DEF Amount
    <3> HIDE DEF f, here
    <3> QED BY <2>1, <3>1, <3>2, <3>3
  <2> HIDE DEF f, here
  <2>4. SumFunction(f') = SumFunction(f) - (f[q] - f'[q])
    BY <2>1, <2>2, <2>3, SumChanged
  <2>5. spent[b.day][k] = SumFunction(f)
    BY <1>1 DEF WInv, WindowsMatchReservations, f
  <2>6. spent'[b.day][k] = spent[b.day][k] - (b.reserved[k] - actual[k])
    BY <1>1, <1>3 DEF WInv, IInv, TypeOK, Minus
  <2> QED BY <2>2, <2>3, <2>4, <2>5, <2>6 DEF f
<1>12. \A w \in DayWindow : spent'[w] = NoRow <=> spent[w] = NoRow
  <2>1. Minus(spent[b.day], Minus(b.reserved, actual)) # NoRow
    BY <1>1, AmountFacts
  <2> QED BY <1>1, <1>3, <2>1 DEF WInv, IInv, TypeOK
<1>13. \A w \in DayWindow, k \in Kinds :
         spent'[w] # NoRow => spent'[w][k] = SumFunction(Charges(w, k)')
  BY <1>10, <1>11, <1>12 DEF WInv, WindowsMatchReservations
<1>14. WindowsMatchReservations'
  BY <1>3, <1>8, <1>9, <1>12, <1>13 DEF WInv, WindowsMatchReservations
<1> QED BY <1>6, <1>14

(* The windows are at every moment what the reservations add up to. *)
LEMMA WindowsInductive == Spec => []WInv
<1>1. Init => WInv
  <2> SUFFICES ASSUME Init PROVE IsFiniteSet(BookedQueries) /\ WindowsMatchReservations
    BY InitSound DEF WInv
  <2>1. BookedQueries = {}
    BY DEF Init, BookedQueries
  <2>2. \A w \in DayWindow : ReservedOn(w) = {} /\ spent[w] = NoRow
    BY <2>1 DEF Init, ReservedOn
  <2>3. \A w \in MinuteWindow :
          queries[w] = Cardinality({q \in BookedQueries : booked[q].minute = w})
    <3>1. \A w : {q \in BookedQueries : booked[q].minute = w} = {}
      BY <2>1
    <3>2. Cardinality({}) = 0
      BY FS_EmptySet
    <3> QED BY <3>1, <3>2 DEF Init
  <2> QED BY <2>1, <2>2, <2>3, FS_EmptySet DEF WindowsMatchReservations
<1>2. WInv /\ [Next]_vars => WInv'
  <2> SUFFICES ASSUME WInv, [Next]_vars PROVE WInv'
    OBVIOUS
  <2>1. IInv /\ IInv' /\ TypeOK'
    BY Inductive DEF WInv, IInv
  <2>2. CASE UNCHANGED <<queries, spent, booked>>
    <3>1. /\ BookedQueries' = BookedQueries
          /\ \A w : ReservedOn(w)' = ReservedOn(w)
          /\ \A w, k : Charges(w, k)' = Charges(w, k)
      BY <2>2 DEF BookedQueries, ReservedOn, Charges, Charge
    <3> QED
      BY <2>1, <2>2, <3>1 DEF WInv, WindowsMatchReservations
  <2>3. ASSUME NEW q \in Queries, run[q].command \in Command,
               booked[q] = NoRow, StoreReserve(q)
        PROVE  WInv'
    BY <2>1, <2>3, ReserveKeepsWindows DEF WInv
  <2>4. ASSUME NEW q \in Queries, booked[q] # NoRow, RowSound(q),
               NEW actual \in Amount, StoreSettle(q, actual)
        PROVE  WInv'
    <3>1. booked[q].settled => UNCHANGED <<queries, spent, booked>>
      BY <2>4 DEF StoreSettle
    <3> QED BY <2>1, <2>2, <2>4, <3>1, SettleKeepsWindows DEF WInv
  <2> QED BY <2>1, <2>2, <2>3, <2>4, StoreSteps
<1> QED BY <1>1, <1>2, PTL DEF Spec

(* No step loses or invents usage: rejections, lost answers, repeated      *)
(* settlements and changes of day included.                                *)
THEOREM WindowsAddUp == Spec => []WindowsMatchReservations
<1>1. WInv => WindowsMatchReservations
  BY DEF WInv
<1> QED BY <1>1, WindowsInductive, PTL
-----------------------------------------------------------------------------
(* The ledger.  A reservation is booked with a budget, and closed with one *)
(* or with a usage the delegate reported.                                  *)
Known(q) ==
    /\ run[q].verified => run[q].used \in Usages
    /\ booked[q] # NoRow => booked[q].reserved \in {Budget[m] : m \in Modes}

LInv == WInv /\ \A q \in Queries : Known(q)
LEMMA KnownInductive ==
    ASSUME IInv, \A q \in Queries : Known(q), [Next]_vars
    PROVE  \A q \in Queries : Known(q)'
<1>1. ASSUME NEW p \in Queries PROVE run'[p].verified => run'[p].used \in Usages
  <2>1. run \in [Queries -> QueryRun] /\ (run[p].verified => run[p].used \in Usages)
    BY DEF IInv, TypeOK, Known
  <2>2. run[p].step = "running" => ~run[p].verified
    BY DEF IInv, QuerySound, StepSound
  <2>3. ASSUME NEW q \in Queries, NEW used \in Usages, NEW verified \in BOOLEAN,
               Return(q, used, verified)
        PROVE  run'[p].verified => run'[p].used \in Usages
    BY <2>1, <2>3 DEF Return, QueryRun
  <2>4. ASSUME NEW q \in Queries, NEW used \in Usages, Break(q, used) \/ Die(q, used)
        PROVE  run'[p].verified => run'[p].used \in Usages
    BY <2>1, <2>2, <2>4 DEF Break, Die, QueryRun
  <2>5. ASSUME NEW q \in Queries, NEW step \in Step, To(q, step)
        PROVE  run'[p].verified => run'[p].used \in Usages
    BY <2>1, <2>5 DEF To, QueryRun
  <2>6. ASSUME NEW q \in Queries, NEW c \in Command, Submit(q, c)
        PROVE  run'[p].verified => run'[p].used \in Usages
    BY <2>1, <2>6 DEF Submit, QueryRun
  <2>7. \A q \in Queries :
          \/ Reserve(q) \/ Reject(q) \/ Settle(q) \/ Lose(q)
          => \E step \in Step : To(q, step)
    BY DEF Reserve, Reject, Settle, Lose, Step
  <2>8. \/ Tick \/ UNCHANGED vars
        \/ \E q \in Queries, used \in Usages : SettleAgain(q, used)
        => run' = run
    BY DEF Tick, vars, SettleAgain
  <2> QED BY <2>1, <2>3, <2>4, <2>5, <2>6, <2>7, <2>8 DEF Next
<1>2. ASSUME NEW p \in Queries
      PROVE  booked'[p] # NoRow =>
               booked'[p].reserved \in {Budget[m] : m \in Modes}
  <2>1. booked[p] # NoRow => booked[p].reserved \in {Budget[m] : m \in Modes}
    BY DEF Known
  <2>2. ASSUME NEW q \in Queries, run[q].command \in Command, StoreReserve(q)
        PROVE  booked'[p] # NoRow =>
                 booked'[p].reserved \in {Budget[m] : m \in Modes}
    <3> DEFINE b == ReservationFor(run[q])
    <3>1. b.reserved = Budget[run[q].command.mode] /\ run[q].command.mode \in Modes
      BY <2>2, NewReservation DEF IInv, Command
    <3>2. booked'[p] = IF p = q THEN b ELSE booked[p]
      BY <2>2, ReserveEffect DEF IInv
    <3> HIDE DEF b
    <3> QED BY <2>1, <3>1, <3>2
  <2>3. ASSUME NEW q \in Queries, booked[q] # NoRow, RowSound(q),
               booked[q] \in Reservation, ~booked[q].settled,
               NEW actual \in Amount, StoreSettle(q, actual)
        PROVE  booked'[p] # NoRow =>
                 booked'[p].reserved \in {Budget[m] : m \in Modes}
    <3>1. CASE p = q
      <4>1. booked'[q] = [booked[q] EXCEPT !.actual = actual, !.settled = TRUE]
        BY <2>3, SettleEffect DEF IInv
      <4>2. booked'[q].reserved = booked[q].reserved
        BY <2>3, <4>1 DEF Reservation
      <4> QED BY <2>1, <2>3, <3>1, <4>2
    <3>2. CASE p # q
      BY <2>1, <2>3, <3>2, SettleEffect DEF IInv
    <3> QED BY <3>1, <3>2
  <2> QED BY <2>1, <2>2, <2>3, StoreSteps
<1> QED BY <1>1, <1>2 DEF Known

(* Counting and summing are the same in the ledger's module. *)
LEMMA LedgerCounts ==
    /\ \A S : Ledger!Cardinality(S) = Cardinality(S)
    /\ \A f : Ledger!SumFunction(f) = SumFunction(f)
<1>1. \A S : Ledger!Cardinality(S) = Cardinality(S)
  BY Zenon DEF Ledger!Cardinality, Cardinality
<1>2. \A f : Ledger!SumFunction(f) = SumFunction(f)
  BY Zenon
  DEF Ledger!SumFunction, Ledger!SumFunctionOnSet, Ledger!FoldFunctionOnSet,
      Ledger!MapThenFoldSet, SumFunction, SumFunctionOnSet, FoldFunctionOnSet,
      MapThenFoldSet
<1> QED BY <1>1, <1>2

(* What the ledger sees: its bookings and its sums are the windows. *)
LEMMA LedgerSees ==
    ASSUME WInv
    PROVE  /\ \A q \in BookedQueries : EntryOf(q) \in Entry /\ EntryOf(q) # NoRow
           /\ Ledger!Booked = BookedQueries
           /\ \A w \in MinuteWindow : Ledger!MinuteUse(w) = queries[w]
           /\ \A w \in DayWindow, k \in Kinds :
                Ledger!DayUse(w, k) =
                    IF spent[w] = NoRow THEN 0 ELSE spent[w][k]
<1> DEFINE view == [q \in Queries |->
                      IF booked[q] = NoRow THEN NoRow ELSE EntryOf(q)]
<1>1. \A q \in BookedQueries : EntryOf(q) \in Entry /\ EntryOf(q) # NoRow
  <2> TAKE q \in BookedQueries
  <2>1. booked[q] \in Reservation /\ Charge(q) \in Amount
    BY ChargeTyped DEF WInv, IInv, TypeOK, BookedQueries
  <2>2. /\ booked[q].minute \in MinuteWindow /\ booked[q].day \in DayWindow
        /\ (~booked[q].settled) \in BOOLEAN
    BY <2>1 DEF Reservation
  <2>3. EntryOf(q) \in Entry
    BY <2>1, <2>2 DEF EntryOf, Entry
  <2> QED BY <2>3, NoRowAssumption
<1>2. Ledger!Booked = BookedQueries
  BY <1>1 DEF Ledger!Booked, BookedQueries
<1>5. \A q \in BookedQueries :
        /\ view[q].minute = booked[q].minute /\ view[q].day = booked[q].day
        /\ view[q].amount = Charge(q)
  BY DEF BookedQueries, EntryOf
<1>3. ASSUME NEW w \in MinuteWindow PROVE Ledger!MinuteUse(w) = queries[w]
  <2>1. queries[w] = Cardinality({q \in BookedQueries : booked[q].minute = w})
    BY DEF WInv, WindowsMatchReservations
  <2>2. {q \in BookedQueries : booked[q].minute = w} =
        {q \in Ledger!Booked : view[q].minute = w}
    BY <1>2, <1>5
  <2> QED BY <2>1, <2>2, LedgerCounts DEF Ledger!MinuteUse
<1>4. ASSUME NEW w \in DayWindow, NEW k \in Kinds
      PROVE  Ledger!DayUse(w, k) = IF spent[w] = NoRow THEN 0 ELSE spent[w][k]
  <2>1. Ledger!DayUse(w, k) = SumFunction(Charges(w, k))
    <3> DEFINE here == {p \in Ledger!Booked : view[p].day = w}
    <3>1. here = ReservedOn(w)
      BY <1>2, <1>5 DEF ReservedOn
    <3>2. \A q \in ReservedOn(w) : view[q].amount[k] = Charge(q)[k]
      BY <1>5 DEF ReservedOn
    <3>3. [q \in here |-> view[q].amount[k]] = Charges(w, k)
      <4> HIDE DEF here, view
      <4> QED BY <3>1, <3>2 DEF Charges
    <3> QED BY <3>3, LedgerCounts DEF Ledger!DayUse
  <2>2. /\ spent[w] = NoRow => SumFunction(Charges(w, k)) = 0
        /\ spent[w] # NoRow => spent[w][k] = SumFunction(Charges(w, k))
    <3>1. IsFiniteSet(ReservedOn(w)) /\ Charges(w, k) \in [ReservedOn(w) -> Int]
      BY WindowsFinite, ChargeTyped DEF WInv, IInv
    <3> QED BY <3>1, SumOfFunction DEF WInv, WindowsMatchReservations
  <2> QED BY <2>1, <2>2
<1> QED BY <1>1, <1>2, <1>3, <1>4
(* Reserving is booking: the first query of a day included, since each     *)
(* single budget fits the limit.                                           *)
LEMMA ReserveBooks ==
    ASSUME BudgetsFit, WInv, NEW q \in Queries, run[q].command \in Command,
           booked[q] = NoRow, StoreReserve(q), NEW b, b = ReservationFor(run[q])
    PROVE  Ledger!LedgerNext
<1> DEFINE
      view == [p \in Queries |-> IF booked[p] = NoRow THEN NoRow ELSE EntryOf(p)]
      e == [minute |-> b.minute, day |-> b.day, amount |-> b.reserved, open |-> TRUE]
<1>1. /\ b \in Reservation /\ b # NoRow /\ ~b.settled
      /\ b.minute \in MinuteWindow /\ b.day \in DayWindow /\ b.reserved \in Amount
      /\ b.reserved = Budget[run[q].command.mode] /\ run[q].command.mode \in Modes
  BY NewReservation, NoRowAssumption DEF WInv, IInv, Reservation, Command
<1>2. /\ booked'[q] = b
      /\ \A p \in Queries \ {q} : booked'[p] = booked[p]
  BY ReserveEffect DEF WInv, IInv
<1>3. EntryOf(q)' = e
  BY <1>1, <1>2 DEF EntryOf, Charge
<1>4. \A p \in Queries \ {q} : EntryOf(p)' = EntryOf(p)
  BY <1>2 DEF EntryOf, Charge
<1>5. view[q] = NoRow /\ view'[q] = e
  BY <1>1, <1>2, <1>3
<1>6. view' = [view EXCEPT ![q] = e]
  <2>1. \A p \in Queries : view'[p] = IF p = q THEN e ELSE view[p]
    BY <1>2, <1>4, <1>5
  <2> QED BY <2>1
<1>7. Admits(b)
  BY DEF StoreReserve
<1>8. e \in [minute : MinuteWindow, day : DayWindow,
             amount : {Budget[m] : m \in Modes}, open : {TRUE}]
  BY <1>1
<1>9. Ledger!MinuteUse(e.minute) + 1 <= QueriesPerMinute
  <2>1. Ledger!MinuteUse(b.minute) = queries[b.minute]
    BY <1>1, LedgerSees
  <2> QED BY <1>7, <2>1 DEF Admits
<1>10. \A k \in Kinds : Ledger!DayUse(e.day, k) + e.amount[k] <= DailyLimit[k]
  <2> TAKE k \in Kinds
  <2>1. Ledger!DayUse(b.day, k) = IF spent[b.day] = NoRow THEN 0 ELSE spent[b.day][k]
    BY <1>1, LedgerSees
  <2>2. b.reserved[k] \in Int /\ b.reserved[k] <= DailyLimit[k]
    BY <1>1, BudgetsFit DEF BudgetsFit, FitsWithin, Amount
  <2>3. spent[b.day] # NoRow => spent[b.day][k] + b.reserved[k] <= DailyLimit[k]
    BY <1>7 DEF Admits, FitsWithin, Plus
  <2>4. CASE spent[b.day] = NoRow
    BY <2>1, <2>2, <2>4
  <2>5. CASE spent[b.day] # NoRow
    BY <2>1, <2>3, <2>5
  <2> QED BY <2>4, <2>5
<1>11. Ledger!Book(q)
  BY <1>5, <1>6, <1>8, <1>9, <1>10, Zenon DEF Ledger!Book
<1> QED BY <1>11 DEF Ledger!LedgerNext

(* An entry with another amount and mark. *)
LEMMA EntryChanged ==
    ASSUME NEW e \in Entry, NEW a, NEW o
    PROVE  [e EXCEPT !.amount = a, !.open = o] =
               [minute |-> e.minute, day |-> e.day, amount |-> a, open |-> o]
<1> DEFINE f == [e EXCEPT !.amount = a]
<1>1. f = [minute |-> e.minute, day |-> e.day, amount |-> a, open |-> e.open]
  BY DEF Entry
<1>2. f \in [minute : MinuteWindow, day : DayWindow, amount : {a}, open : BOOLEAN]
  BY <1>1 DEF Entry
<1>3. [e EXCEPT !.amount = a, !.open = o] = [f EXCEPT !.open = o]
  OBVIOUS
<1>4. f.minute = e.minute /\ f.day = e.day /\ f.amount = a
  BY <1>1
<1> HIDE DEF f
<1>5. [f EXCEPT !.open = o] =
        [minute |-> f.minute, day |-> f.day, amount |-> f.amount, open |-> o]
  BY <1>2
<1> QED BY <1>3, <1>4, <1>5

(* Settling is closing: the charge is lowered to what is due, once. *)
LEMMA SettleCloses ==
    ASSUME LInv, NEW q \in Queries, booked[q] # NoRow, booked[q] \in Reservation,
           ~booked[q].settled, RowSound(q), Due(q) \in Amount,
           StoreSettle(q, Due(q)), NEW actual, actual = Due(q)
    PROVE  Ledger!LedgerNext
<1> DEFINE
      view == [p \in Queries |-> IF booked[p] = NoRow THEN NoRow ELSE EntryOf(p)]
<1>1. /\ booked'[q] = [booked[q] EXCEPT !.actual = actual, !.settled = TRUE]
      /\ \A p \in Queries \ {q} : booked'[p] = booked[p]
  BY SettleEffect DEF LInv, WInv, IInv
<1>2. /\ booked'[q] \in Reservation /\ booked'[q] # NoRow
      /\ booked'[q].settled /\ booked'[q].actual = actual
      /\ booked'[q].minute = booked[q].minute /\ booked'[q].day = booked[q].day
  BY <1>1, NoRowAssumption DEF Reservation
<1>3. /\ EntryOf(q) = [minute |-> booked[q].minute, day |-> booked[q].day,
                       amount |-> booked[q].reserved, open |-> TRUE]
      /\ EntryOf(q)' = [minute |-> booked[q].minute, day |-> booked[q].day,
                        amount |-> actual, open |-> FALSE]
  BY <1>2 DEF EntryOf, Charge
<1>4. \A p \in Queries \ {q} : EntryOf(p)' = EntryOf(p)
  BY <1>1 DEF EntryOf, Charge
<1>5. view[q] = EntryOf(q) /\ view'[q] = EntryOf(q)'
  BY <1>2
<1>6. view[q] # NoRow
  <2>1. q \in BookedQueries
    BY DEF BookedQueries
  <2> QED BY <1>5, <2>1, LedgerSees DEF LInv
<1>7. view' = [view EXCEPT ![q].amount = actual, ![q].open = FALSE]
  <2>1. \A p \in Queries \ {q} : view'[p] = view[p]
    BY <1>1, <1>4
  <2>2. view'[q] = [view[q] EXCEPT !.amount = actual, !.open = FALSE]
    <3>1. [EntryOf(q) EXCEPT !.amount = actual, !.open = FALSE] =
          [minute |-> booked[q].minute, day |-> booked[q].day,
           amount |-> actual, open |-> FALSE]
      <4>1. EntryOf(q) \in Entry
        BY LedgerSees DEF LInv, BookedQueries
      <4>3. EntryOf(q).minute = booked[q].minute /\ EntryOf(q).day = booked[q].day
        BY <1>3
      <4> DEFINE Changed(o) ==
                   [EntryOf(q) EXCEPT !.amount = actual, !.open = o] =
                   [minute |-> booked[q].minute, day |-> booked[q].day,
                    amount |-> actual, open |-> o]
      <4>4. \A o : Changed(o)
        <5>1. \A o : [EntryOf(q) EXCEPT !.amount = actual, !.open = o] =
                     [minute |-> EntryOf(q).minute, day |-> EntryOf(q).day,
                      amount |-> actual, open |-> o]
          BY <4>1, EntryChanged, Zenon
        <5> QED BY <4>3, <5>1, Zenon
      <4>5. Changed(FALSE)
        <5> HIDE DEF Changed
        <5> QED BY <4>4
      <4> QED BY <4>5
    <3> HIDE DEF view
    <3> QED BY <1>3, <1>5, <3>1
  <2> QED BY <2>1, <2>2
<1>8. view[q].open /\ \A k \in Kinds : actual[k] <= view[q].amount[k]
  BY <1>3, <1>5 DEF StoreSettle, FitsWithin
<1>9. actual \in Usages \cup {Budget[m] : m \in Modes}
  BY DEF LInv, Known, Due
<1> HIDE DEF view
<1>10. Ledger!Close(q, actual)
  BY <1>6, <1>7, <1>8, Zenon DEF Ledger!Close, view
<1> QED BY <1>9, <1>10 DEF Ledger!LedgerNext

(* Reservations, windows, failures, repeated settlements and the clock     *)
(* implement a ledger that is kept within its limits by sums of charges.   *)
THEOREM BudgetImplementsLedger == ASSUME BudgetsFit PROVE Spec => ImplementsLedger
<1>1. Init => Ledger!LedgerInit
  BY DEF Init, Ledger!LedgerInit
<1>2. Init => \A q \in Queries : Known(q)
  BY DEF Init, NewRun, Known
<1>3. IInv /\ (\A q \in Queries : Known(q)) /\ [Next]_vars
      => (\A q \in Queries : Known(q))'
  BY KnownInductive
<1>4. LInv /\ [Next]_vars =>
        \/ Ledger!LedgerNext
        \/ UNCHANGED [q \in Queries |->
                        IF booked[q] = NoRow THEN NoRow ELSE EntryOf(q)]
  <2> SUFFICES ASSUME LInv, [Next]_vars
               PROVE  \/ Ledger!LedgerNext
                      \/ UNCHANGED [q \in Queries |->
                                      IF booked[q] = NoRow THEN NoRow ELSE EntryOf(q)]
    OBVIOUS
  <2>1. CASE UNCHANGED <<queries, spent, booked>>
    BY <2>1 DEF EntryOf, Charge
  <2>2. ASSUME NEW q \in Queries, run[q].command \in Command,
               booked[q] = NoRow, StoreReserve(q)
        PROVE  Ledger!LedgerNext
    BY <2>2, BudgetsFit, ReserveBooks DEF LInv
  <2>3. ASSUME NEW q \in Queries, booked[q] # NoRow, booked[q] \in Reservation,
               ~booked[q].settled, RowSound(q), Due(q) \in Amount,
               StoreSettle(q, Due(q))
        PROVE  Ledger!LedgerNext
    BY <2>3, SettleCloses
  <2>4. IInv
    BY DEF LInv, WInv
  <2> QED BY <2>1, <2>2, <2>3, <2>4, StoreSteps
<1> QED
  BY <1>1, <1>2, <1>3, <1>4, BudgetInductive, WindowsInductive, PTL
  DEF Spec, ImplementsLedger, Ledger!LedgerSpec, LInv

-----------------------------------------------------------------------------
(***************************************************************************)
(* The workspace for any number of requests, collections, names and        *)
(* documents: how far the checks that lock nothing can be overrun.         *)
(*                                                                         *)
(* The invariant remembers what a request has seen when it looked for      *)
(* another collection of its name, and that the row it is about to name    *)
(* stays its own.  The pages need, beside it, that the rows are finitely   *)
(* many, and what a walk knows of the rows before and behind its cursor.   *)
(***************************************************************************)

Label == Name \cup {""}
CollectionRow ==
    [status : {"absent", "active", "deleting", "removed"}, name : Label,
     unseen : SUBSET Collection]
DocumentRow ==
    [status : {"absent", "removed"} \cup Kept, col : Collection \cup {""}, late : BOOLEAN]
RequestRow ==
    [step : {"idle", "naming", "counted", "accepted"}, col : Collection \cup {""},
     name : Label, saw : SUBSET (Collection \X Label)]

RowsTyped ==
    /\ collections \in [Collection -> CollectionRow]
    /\ docs \in [Doc -> DocumentRow]
    /\ requests \in [Client -> RequestRow]
    /\ \A r \in Client : requests[r].step # "idle" => requests[r].col \in Collection

(* The key of a document's collection holds. *)
KeysHold == \A d \in Doc : docs[d].status \in Kept => docs[d].col \in Existing

(* A request about to write a name holds the lock of its row, and what it  *)
(* saw had another name.                                                   *)
NamersHold ==
    \A r \in Client : requests[r].step = "naming" =>
        /\ collections[requests[r].col].status \in {"absent", "active"}
        /\ \A q \in Client : requests[q].step = "naming" /\ requests[q].col = requests[r].col
                                => q = r
        /\ \A c \in Collection, name \in Label :
              <<c, name>> \in requests[r].saw /\ c # requests[r].col
                  => Lower[name] # Folded[requests[r].name]

Pending == {r \in Client : requests[r].step \in {"counted", "accepted"}}

Bounded == Cardinality(Uploaded) + Cardinality(Pending) < MaxDocuments + Cardinality(Client)

WorkspaceInv ==
    /\ RowsTyped /\ KeysHold /\ NamersHold
    /\ IsFiniteSet(Uploaded) /\ IsFiniteSet(BroughtBack)
    /\ Bounded
    /\ TwinsOnlyByRace
    /\ DeletionTakesAll

-----------------------------------------------------------------------------
(* The bound on documents looks at nothing but how many there are and how  *)
(* many requests are about to add one.                                     *)
LEMMA PendingIsFinite == IsFiniteSet(Pending) /\ Cardinality(Pending) <= Cardinality(Client)
BY DocumentLimitAssumption, FS_Subset DEF Pending

LEMMA FewerStayBounded ==
    ASSUME IsFiniteSet(Uploaded), Bounded, Uploaded' \subseteq Uploaded, Pending' \subseteq Pending
    PROVE  IsFiniteSet(Uploaded') /\ Bounded'
<1>1. /\ IsFiniteSet(Uploaded') /\ Cardinality(Uploaded') <= Cardinality(Uploaded)
      /\ IsFiniteSet(Pending') /\ Cardinality(Pending') <= Cardinality(Pending)
    BY PendingIsFinite, FS_Subset
<1>2. /\ Cardinality(Uploaded) \in Nat /\ Cardinality(Uploaded') \in Nat
      /\ Cardinality(Pending) \in Nat /\ Cardinality(Pending') \in Nat
      /\ Cardinality(Client) \in Nat
    BY <1>1, PendingIsFinite, DocumentLimitAssumption, FS_CardinalityType
<1> QED BY <1>1, <1>2, DocumentLimitAssumption DEF Bounded

LEMMA CountingStaysBounded ==
    ASSUME WorkspaceInv, NEW r \in Client, NEW c \in Collection, CountDocuments(r, c)
    PROVE  IsFiniteSet(Uploaded') /\ Bounded'
<1>1. Uploaded' = Uploaded /\ Cardinality(Uploaded) < MaxDocuments
  <2>1. Uploaded' = Uploaded /\ Cardinality(Live) < MaxDocuments
      BY DEF CountDocuments, WithinLimit, Goes, Uploaded
  <2>2. IsFiniteSet(Live) /\ Uploaded \subseteq Live
      BY FS_Union DEF WorkspaceInv, Live
  <2>3. Cardinality(Uploaded) <= Cardinality(Live)
        /\ Cardinality(Uploaded) \in Nat /\ Cardinality(Live) \in Nat
      BY <2>2, FS_Subset, FS_CardinalityType
  <2> QED BY <2>1, <2>3, DocumentLimitAssumption
<1>2. Pending' \subseteq Client
    BY DEF Pending
<1>3. Cardinality(Pending') <= Cardinality(Client) /\ IsFiniteSet(Pending')
    BY <1>2, DocumentLimitAssumption, FS_Subset
<1>4. Cardinality(Uploaded) \in Nat /\ Cardinality(Pending') \in Nat /\ Cardinality(Client) \in Nat
    BY <1>3, DocumentLimitAssumption, FS_CardinalityType DEF WorkspaceInv
<1> QED BY <1>1, <1>3, <1>4, DocumentLimitAssumption DEF WorkspaceInv, Bounded

(* Those that are brought back stay finitely many: one at a time. *)
LEMMA NoMoreAreFinite ==
    ASSUME WorkspaceInv, BroughtBack' \subseteq BroughtBack
    PROVE  IsFiniteSet(BroughtBack')
BY FS_Subset DEF WorkspaceInv

LEMMA OneMore ==
    ASSUME NEW S, IsFiniteSet(S), NEW x, NEW T, T = S \cup {x}
    PROVE  IsFiniteSet(T) /\ Cardinality(T) <= Cardinality(S) + 1
<1>1. Cardinality(S) \in Nat
    BY FS_CardinalityType
<1> QED BY <1>1, FS_AddElement

LEMMA InsertingStaysBounded ==
    ASSUME WorkspaceInv, NEW r \in Client, InsertDocument(r)
    PROVE  IsFiniteSet(Uploaded') /\ Bounded'
<1>1. r \in Pending /\ Pending' = Pending \ {r}
    BY DEF InsertDocument, Ends, Pending, WorkspaceInv, RowsTyped, Idle
<1>2. /\ IsFiniteSet(Pending') /\ Cardinality(Pending') = Cardinality(Pending) - 1
    BY <1>1, PendingIsFinite, FS_RemoveElement
<1>3. CASE Uploaded' = Uploaded
    BY <1>1, <1>3, FewerStayBounded DEF WorkspaceInv
<1>4. CASE \E d \in Doc : Uploaded' = Uploaded \cup {d}
  <2>1. PICK d \in Doc : Uploaded' = Uploaded \cup {d}
      BY <1>4
  <2>2. IsFiniteSet(Uploaded') /\ Cardinality(Uploaded') <= Cardinality(Uploaded) + 1
    <3>1. IsFiniteSet(Uploaded)
        BY DEF WorkspaceInv
    <3> QED BY <2>1, <3>1, OneMore
  <2>3. /\ Cardinality(Uploaded) \in Nat /\ Cardinality(Uploaded') \in Nat
        /\ Cardinality(Pending) \in Nat /\ Cardinality(Client) \in Nat
      BY <2>2, PendingIsFinite, DocumentLimitAssumption, FS_CardinalityType DEF WorkspaceInv
  <2> QED BY <1>2, <2>2, <2>3, DocumentLimitAssumption DEF WorkspaceInv, Bounded
<1>5. Uploaded' = Uploaded \/ \E d \in Doc : Uploaded' = Uploaded \cup {d}
  <2>1. CASE docs' = docs
      BY <2>1 DEF Uploaded
  <2>2. CASE docs' # docs
    <3>1. PICK d \in Doc : docs' = [docs EXCEPT ![d] =
                              [status |-> "live", col |-> requests[r].col,
                               late |-> collections[requests[r].col].status # "active"]]
        BY <2>2 DEF InsertDocument, Become
    <3>2. Uploaded' = Uploaded \cup {d}
        BY <3>1 DEF Uploaded, WorkspaceInv, RowsTyped
    <3> QED BY <3>2
  <2> QED BY <2>1, <2>2
<1> QED BY <1>3, <1>4, <1>5

-----------------------------------------------------------------------------
(* The step that names a collection, and the one that deletes one. *)
LEMMA NamingKeeps ==
    ASSUME WorkspaceInv, NEW r \in Client, WriteName(r)
    PROVE  WorkspaceInv'
<1> DEFINE c == requests[r].col
           name == requests[r].name
           row == [status |-> "active", name |-> name,
                   unseen |-> {other \in Existing :
                                  <<other, collections[other].name>> \notin requests[r].saw}]
<1>1. /\ requests[r].step = "naming" /\ c \in Collection /\ name \in Label
      /\ collections[c].status \in {"absent", "active"}
      /\ requests' = [requests EXCEPT ![r] = Idle] /\ docs' = docs
      /\ row \in CollectionRow
    BY DEF WriteName, Ends, Become, WorkspaceInv, RowsTyped, NamersHold, RequestRow, CollectionRow,
           Existing
<1>2. Uploaded' = Uploaded /\ BroughtBack' = BroughtBack /\ Pending' \subseteq Pending
    BY <1>1 DEF Uploaded, BroughtBack, Pending, WorkspaceInv, RowsTyped, Idle
<1>3. IsFiniteSet(Uploaded') /\ IsFiniteSet(BroughtBack') /\ Bounded'
    BY <1>2, FewerStayBounded, NoMoreAreFinite DEF WorkspaceInv
<1>4. CASE collections' = collections
  <2>1. RowsTyped'
      BY <1>1, <1>4 DEF WorkspaceInv, RowsTyped, Idle, RequestRow, Label
  <2>2. KeysHold' /\ TwinsOnlyByRace' /\ DeletionTakesAll'
      BY <1>1, <1>2, <1>4 DEF WorkspaceInv, KeysHold, TwinsOnlyByRace, DeletionTakesAll, Existing
  <2>3. NamersHold'
      BY <1>1, <1>4 DEF WorkspaceInv, RowsTyped, NamersHold, Idle
  <2> QED BY <1>3, <2>1, <2>2, <2>3 DEF WorkspaceInv
<1>5. CASE /\ collections' = [collections EXCEPT ![c] = row]
           /\ \A other \in Existing \ {c} : collections[other].name # name
  <2>1. RowsTyped'
      BY <1>1, <1>5 DEF WorkspaceInv, RowsTyped, Idle, RequestRow, Label
  <2>2. /\ Existing' = Existing \cup {c}
        /\ \A other \in Collection \ {c} : collections'[other] = collections[other]
        /\ collections'[c] = row
      BY <1>1, <1>5 DEF WorkspaceInv, RowsTyped, Existing
  <2>3. KeysHold' /\ DeletionTakesAll'
    <3>1. KeysHold'
        BY <1>1, <2>2 DEF WorkspaceInv, KeysHold
    <3>2. \A d \in Uploaded : docs[d].col \in Collection
        BY DEF WorkspaceInv, KeysHold, Uploaded, Kept, Existing
    <3>3. DeletionTakesAll'
      <4> SUFFICES ASSUME NEW d \in Uploaded
                   PROVE  collections'[docs[d].col].status = "active" \/ docs[d].late
          BY <1>1, <1>2 DEF DeletionTakesAll
      <4>1. CASE docs[d].col = c
          BY <2>2, <4>1
      <4>2. CASE docs[d].col # c
          BY <2>2, <3>2, <4>2 DEF WorkspaceInv, DeletionTakesAll
      <4> QED BY <4>1, <4>2
    <3> QED BY <3>1, <3>3
  <2>4. NamersHold'
    <3> SUFFICES ASSUME NEW q \in Client, requests'[q].step = "naming"
                 PROVE  /\ collections'[requests'[q].col].status \in {"absent", "active"}
                        /\ \A p \in Client :
                              requests'[p].step = "naming" /\ requests'[p].col = requests'[q].col
                                  => p = q
                        /\ \A d \in Collection, label \in Label :
                              <<d, label>> \in requests'[q].saw /\ d # requests'[q].col
                                  => Lower[label] # Folded[requests'[q].name]
        BY DEF NamersHold
    <3>1. q # r /\ requests'[q] = requests[q] /\ requests'[r].step = "idle"
        BY <1>1 DEF WorkspaceInv, RowsTyped, Idle
    <3>2. \A p \in Client \ {r} : requests'[p] = requests[p]
        BY <1>1 DEF WorkspaceInv, RowsTyped
    <3>3. requests[q].col # c /\ requests[q].col \in Collection
        BY <1>1, <3>1 DEF WorkspaceInv, NamersHold, RowsTyped
    <3>4. collections'[requests'[q].col].status \in {"absent", "active"}
        BY <2>2, <3>1, <3>3 DEF WorkspaceInv, NamersHold
    <3>5. \A p \in Client : requests'[p].step = "naming" /\ requests'[p].col = requests'[q].col
                               => p = q
        BY <3>1, <3>2 DEF WorkspaceInv, NamersHold
    <3>6. \A d \in Collection, label \in Label :
              <<d, label>> \in requests'[q].saw /\ d # requests'[q].col
                  => Lower[label] # Folded[requests'[q].name]
        BY <3>1 DEF WorkspaceInv, NamersHold
    <3> QED BY <3>4, <3>5, <3>6
  <2>5. \A other \in Existing \ {c} : Lower[collections[other].name] = Folded[name]
            => other \in row.unseen
    <3> SUFFICES ASSUME NEW other \in Existing \ {c},
                        <<other, collections[other].name>> \in requests[r].saw
                 PROVE  Lower[collections[other].name] # Folded[name]
        OBVIOUS
    <3>1. other \in Collection /\ collections[other].name \in Label
        BY DEF Existing, WorkspaceInv, RowsTyped, CollectionRow
    <3> QED BY <1>1, <3>1 DEF WorkspaceInv, NamersHold
  <2>6. TwinsOnlyByRace'
    <3> SUFFICES ASSUME NEW a \in Existing', NEW b \in Existing', a # b
                 PROVE  /\ collections'[a].name # collections'[b].name
                        /\ Twins(collections'[a].name, collections'[b].name) =>
                              a \in collections'[b].unseen \/ b \in collections'[a].unseen
        BY DEF TwinsOnlyByRace
    <3>1. a \in Collection /\ b \in Collection
        BY DEF Existing
    <3>2. row.name = name
        OBVIOUS
    <3> HIDE DEF row
    <3>3. CASE a = c
        BY <1>5, <2>2, <2>5, <3>1, <3>2, <3>3 DEF Twins
    <3>4. CASE b = c
        BY <1>5, <2>2, <2>5, <3>1, <3>2, <3>4 DEF Twins
    <3>5. CASE a # c /\ b # c
        BY <2>2, <3>1, <3>5 DEF WorkspaceInv, TwinsOnlyByRace
    <3> QED BY <3>3, <3>4, <3>5
  <2> QED BY <1>3, <2>1, <2>3, <2>4, <2>6 DEF WorkspaceInv
<1> QED BY <1>4, <1>5 DEF WriteName, Become

LEMMA DeletingCollectionKeeps ==
    ASSUME WorkspaceInv, NEW c \in Collection, DeleteCollection(c)
    PROVE  WorkspaceInv'
<1>1. /\ collections[c].status = "active" /\ c \in Existing
      /\ requests' = requests
      /\ \A r \in Client : requests[r].step = "naming" => requests[r].col # c
    BY DEF DeleteCollection, Existing, Locked
<1>2. /\ \A other \in Collection \ {c} : collections'[other] = collections[other]
      /\ collections'[c].status \in {"removed", "deleting"}
      /\ collections'[c].status # "removed" =>
            /\ collections'[c].name = collections[c].name
            /\ collections'[c].unseen = collections[c].unseen
      /\ collections' \in [Collection -> CollectionRow]
  <2>1. CASE Remaining(c) = {}
    <3>1. RemovedCollection \in CollectionRow /\ RemovedCollection.status = "removed"
        BY DEF CollectionRow, RemovedCollection, NoCollection, Label
    <3> QED BY <2>1, <3>1 DEF DeleteCollection, Become, WorkspaceInv, RowsTyped
  <2>2. CASE Remaining(c) # {}
    <3>1. collections' = [collections EXCEPT ![c].status = "deleting"]
        BY <2>2 DEF DeleteCollection, Become
    <3> QED BY <3>1 DEF WorkspaceInv, RowsTyped, CollectionRow
  <2> QED BY <2>1, <2>2
<1>3. /\ docs' \in [Doc -> DocumentRow]
      /\ \A d \in Doc : docs'[d].status \in Kept =>
            /\ docs[d].status \in Kept /\ docs'[d].col = docs[d].col
            /\ c \notin Existing' => docs[d].col # c
      /\ \A d \in Uploaded' : docs'[d] = docs[d] /\ docs[d].col # c /\ d \in Uploaded
      /\ BroughtBack' \subseteq BroughtBack
  <2>1. CASE Remaining(c) = {}
    <3>1. docs' = [d \in Doc |-> IF d \in DocumentsOf(c) THEN Removed ELSE docs[d]]
        BY <2>1 DEF DeleteCollection, Become, Cascaded
    <3>2. Removed \in DocumentRow /\ Removed.status \notin Kept
        BY DEF Removed, DocumentRow, NoDocument, Kept
    <3> QED BY <3>1, <3>2 DEF WorkspaceInv, RowsTyped, DocumentsOf, Uploaded,
                             BroughtBack, Kept
  <2>2. CASE Remaining(c) # {}
    <3>1. /\ docs' = [d \in Doc |-> IF d \in Remaining(c)
                                   THEN Deleting(docs[d]) ELSE docs[d]]
          /\ collections' = [collections EXCEPT ![c].status = "deleting"]
        BY <2>2 DEF DeleteCollection, Become, Taken
    <3>2. c \in Existing'
        BY <3>1 DEF WorkspaceInv, RowsTyped, Existing, CollectionRow
    <3> QED BY <3>1, <3>2 DEF WorkspaceInv, RowsTyped, DocumentRow, DocumentsOf, Remaining,
                             Uploaded, BroughtBack, Kept, Deleting
  <2> QED BY <2>1, <2>2
<1>4. /\ Existing' \subseteq Existing
      /\ Existing \ {c} \subseteq Existing'
    BY <1>1, <1>2 DEF Existing
<1>5. \A a \in Existing' : /\ collections'[a].name = collections[a].name
                           /\ collections'[a].unseen = collections[a].unseen
    BY <1>2 DEF Existing
<1>6. IsFiniteSet(Uploaded') /\ IsFiniteSet(BroughtBack') /\ Bounded'
    BY <1>1, <1>3, FewerStayBounded, NoMoreAreFinite DEF WorkspaceInv, Pending
<1>7. RowsTyped'
    BY <1>1, <1>2, <1>3 DEF WorkspaceInv, RowsTyped
<1>8. KeysHold'
    BY <1>3, <1>4 DEF WorkspaceInv, KeysHold
<1>9. NamersHold'
    BY <1>1, <1>2 DEF WorkspaceInv, NamersHold, RowsTyped
<1>10. TwinsOnlyByRace'
    BY <1>4, <1>5 DEF WorkspaceInv, TwinsOnlyByRace
<1>11. DeletionTakesAll'
  <2>1. \A d \in Uploaded : docs[d].col \in Collection
      BY DEF WorkspaceInv, KeysHold, Uploaded, Kept, Existing
  <2> QED BY <1>2, <1>3, <2>1 DEF WorkspaceInv, DeletionTakesAll
<1> QED BY <1>6, <1>7, <1>8, <1>9, <1>10, <1>11 DEF WorkspaceInv

-----------------------------------------------------------------------------
(* The steps that leave the collections as they are. *)
LEMMA ChangingDocumentKeeps ==
    ASSUME WorkspaceInv, NEW d \in Doc,
           DeleteDocument(d) \/ OverwriteDeletion(d) \/ DeletionDone(d)
    PROVE  WorkspaceInv'
<1>1. /\ collections' = collections /\ requests' = requests
      /\ docs[d].status \in Kept
      /\ \E row \in DocumentRow :
            /\ docs' = [docs EXCEPT ![d] = row]
            /\ row.status \in {"revived", "deleting", "deleted"} /\ row.col = docs[d].col
  <2>1. CASE DeleteDocument(d)
    <3> DEFINE row == Deleting(docs[d])
    <3>1. row \in DocumentRow /\ row.status = "deleting" /\ row.col = docs[d].col
        BY DEF WorkspaceInv, RowsTyped, DocumentRow, Kept, Deleting
    <3>2. docs' = [docs EXCEPT ![d] = row] /\ collections' = collections
        BY <2>1 DEF DeleteDocument, Become
    <3>3. docs[d].status \in Kept /\ requests' = requests
        BY <2>1 DEF DeleteDocument, Live, Uploaded, BroughtBack, Kept
    <3> HIDE DEF row
    <3> QED BY <3>1, <3>2, <3>3
  <2>2. CASE DeletionDone(d)
    <3> DEFINE row == [docs[d] EXCEPT !.status = "deleted"]
    <3>1. row \in DocumentRow /\ row.status = "deleted" /\ row.col = docs[d].col
        BY DEF WorkspaceInv, RowsTyped, DocumentRow, Kept
    <3>2. docs' = [docs EXCEPT ![d] = row] /\ collections' = collections
        BY <2>2 DEF DeletionDone, Become
    <3>3. docs[d].status \in Kept /\ requests' = requests
        BY <2>2 DEF DeletionDone, Kept
    <3> HIDE DEF row
    <3> QED BY <3>1, <3>2, <3>3
  <2>3. CASE OverwriteDeletion(d)
    <3> DEFINE row == [docs[d] EXCEPT !.status = "revived"]
    <3>1. row \in DocumentRow /\ row.status = "revived" /\ row.col = docs[d].col
        BY DEF WorkspaceInv, RowsTyped, DocumentRow, Kept
    <3>2. docs' = [docs EXCEPT ![d] = row] /\ collections' = collections
        BY <2>3 DEF OverwriteDeletion, Become
    <3>3. docs[d].status \in Kept /\ requests' = requests
        BY <2>3 DEF OverwriteDeletion, Kept
    <3> HIDE DEF row
    <3> QED BY <3>1, <3>2, <3>3
  <2> QED BY <2>1, <2>2, <2>3
<1>2. /\ docs' \in [Doc -> DocumentRow]
      /\ \A e \in Doc : docs'[e].status \in Kept =>
            docs[e].status \in Kept /\ docs'[e].col = docs[e].col
      /\ \A e \in Uploaded' : e \in Uploaded /\ docs'[e] = docs[e]
    BY <1>1 DEF WorkspaceInv, RowsTyped, Uploaded
<1>3. Existing' = Existing
    BY <1>1 DEF Existing
<1>4. IsFiniteSet(Uploaded') /\ Bounded'
    BY <1>1, <1>2, FewerStayBounded DEF WorkspaceInv, Pending
<1>8. IsFiniteSet(BroughtBack')
  <2>1. IsFiniteSet(BroughtBack) /\ BroughtBack' \subseteq BroughtBack \cup {d}
      BY <1>1 DEF WorkspaceInv, RowsTyped, BroughtBack
  <2>2. IsFiniteSet(BroughtBack \cup {d})
      BY <2>1, FS_AddElement
  <2> QED BY <2>1, <2>2, FS_Subset
<1>5. RowsTyped' /\ KeysHold'
    BY <1>1, <1>2, <1>3 DEF WorkspaceInv, RowsTyped, KeysHold
<1>6. NamersHold' /\ TwinsOnlyByRace'
    BY <1>1, <1>3 DEF WorkspaceInv, NamersHold, TwinsOnlyByRace
<1>7. DeletionTakesAll'
    BY <1>1, <1>2 DEF WorkspaceInv, DeletionTakesAll
<1> QED BY <1>4, <1>5, <1>6, <1>7, <1>8 DEF WorkspaceInv

LEMMA UploadingKeeps ==
    ASSUME WorkspaceInv, NEW r \in Client,
           \/ \E c \in Collection : CountDocuments(r, c)
           \/ AcceptUpload(r) \/ AddToDocument(r)
    PROVE  WorkspaceInv'
<1>1. /\ collections' = collections /\ docs' = docs
      /\ requests[r].step # "naming"
      /\ \E with \in RequestRow :
            /\ requests' = [requests EXCEPT ![r] = with]
            /\ with.step # "naming"
            /\ with.step # "idle" => with.col \in Collection
  <2>1. CASE \E c \in Collection : CountDocuments(r, c)
    <3>1. PICK c \in Collection : CountDocuments(r, c)
        BY <2>1
    <3> DEFINE with == [Idle EXCEPT !.step = "counted", !.col = c]
    <3>2. with \in RequestRow /\ with.step = "counted" /\ with.col = c
        BY DEF Idle, RequestRow, Label
    <3>3. /\ collections' = collections /\ docs' = docs
          /\ requests[r].step # "naming"
          /\ requests' = [requests EXCEPT ![r] = with]
        BY <3>1 DEF CountDocuments, Goes
    <3> HIDE DEF with
    <3> QED BY <3>2, <3>3
  <2>2. CASE AcceptUpload(r)
    <3>1. /\ requests[r] \in RequestRow /\ requests[r].step = "counted"
          /\ requests[r].col \in Collection /\ Idle \in RequestRow
        BY <2>2 DEF AcceptUpload, WorkspaceInv, RowsTyped, Idle, RequestRow, Label
    <3> DEFINE accepted == [requests[r] EXCEPT !.step = "accepted"]
    <3>2. accepted \in RequestRow /\ accepted.step = "accepted" /\ accepted.col \in Collection
        BY <3>1 DEF RequestRow
    <3>3. /\ collections' = collections /\ docs' = docs
          /\ \/ requests' = [requests EXCEPT ![r] = accepted]
             \/ requests' = [requests EXCEPT ![r] = Idle]
        BY <2>2 DEF AcceptUpload, Goes
    <3>4. Idle.step = "idle"
        BY DEF Idle
    <3> HIDE DEF accepted
    <3> QED BY <3>1, <3>2, <3>3, <3>4
  <2>3. CASE AddToDocument(r)
    <3>1. Idle \in RequestRow /\ Idle.step = "idle"
        BY DEF Idle, RequestRow, Label
    <3> QED BY <2>3, <3>1 DEF AddToDocument, Goes
  <2> QED BY <2>1, <2>2, <2>3
<1>2. Uploaded' = Uploaded /\ BroughtBack' = BroughtBack /\ Existing' = Existing
    BY <1>1 DEF Uploaded, BroughtBack, Existing
<1>7. IsFiniteSet(BroughtBack')
    BY <1>2, NoMoreAreFinite
<1>3. IsFiniteSet(Uploaded') /\ Bounded'
  <2>1. CASE \E c \in Collection : CountDocuments(r, c)
      BY <2>1, CountingStaysBounded
  <2>2. CASE AcceptUpload(r) \/ AddToDocument(r)
    <3>1. Pending' \subseteq Pending
        BY <2>2 DEF AcceptUpload, AddToDocument, Goes, Pending, WorkspaceInv, RowsTyped, Idle
    <3> QED BY <1>2, <3>1, FewerStayBounded DEF WorkspaceInv
  <2> QED BY <2>1, <2>2
<1>4. RowsTyped'
    BY <1>1 DEF WorkspaceInv, RowsTyped
<1>5. NamersHold'
  <2>1. \A q \in Client : requests'[q].step = "naming" => q # r /\ requests'[q] = requests[q]
      BY <1>1 DEF WorkspaceInv, RowsTyped
  <2> QED BY <1>1, <2>1 DEF WorkspaceInv, NamersHold
<1>6. KeysHold' /\ TwinsOnlyByRace' /\ DeletionTakesAll'
    BY <1>1, <1>2 DEF WorkspaceInv, KeysHold, TwinsOnlyByRace, DeletionTakesAll
<1> QED BY <1>3, <1>4, <1>5, <1>6, <1>7 DEF WorkspaceInv

LEMMA CheckingNameKeeps ==
    ASSUME WorkspaceInv, NEW r \in Client, NEW c \in Collection, NEW name \in Name, CheckName(r, c, name)
    PROVE  WorkspaceInv'
<1> DEFINE request == [step |-> "naming", col |-> c, name |-> name, saw |-> Named]
<1>1. /\ collections' = collections /\ docs' = docs
      /\ requests' = [requests EXCEPT ![r] = request]
      /\ collections[c].status \in {"absent", "active"}
      /\ \A q \in Client : requests[q].step = "naming" => requests[q].col # c
      /\ \A other \in Existing \ {c} : Lower[collections[other].name] # Folded[name]
    BY DEF CheckName, Goes, Locked, NameTaken
<1>2. /\ request \in RequestRow /\ request.step = "naming" /\ request.col = c
      /\ request.name = name /\ request.saw = Named
  <2>1. Named \subseteq Collection \X Label
      BY DEF Named, Existing, WorkspaceInv, RowsTyped, CollectionRow
  <2> QED BY <2>1 DEF RequestRow, Label
<1> HIDE DEF request
<1>3. /\ requests'[r] = request
      /\ \A q \in Client \ {r} : requests'[q] = requests[q]
    BY <1>1 DEF WorkspaceInv, RowsTyped
<1>4. /\ Uploaded' = Uploaded /\ BroughtBack' = BroughtBack
      /\ Existing' = Existing /\ Pending' \subseteq Pending
    BY <1>1, <1>2, <1>3 DEF Uploaded, BroughtBack, Existing, Pending
<1>5. IsFiniteSet(Uploaded') /\ IsFiniteSet(BroughtBack') /\ Bounded'
    BY <1>4, FewerStayBounded, NoMoreAreFinite DEF WorkspaceInv
<1>6. RowsTyped'
    BY <1>1, <1>2 DEF WorkspaceInv, RowsTyped
<1>7. KeysHold' /\ TwinsOnlyByRace' /\ DeletionTakesAll'
    BY <1>1, <1>4 DEF WorkspaceInv, KeysHold, TwinsOnlyByRace, DeletionTakesAll
<1>8. NamersHold'
  <2>1. ASSUME NEW other \in Collection, NEW label \in Label,
               <<other, label>> \in Named, other # c
        PROVE  Lower[label] # Folded[name]
      BY <1>1, <2>1 DEF Named
  <2>2. ASSUME NEW q \in Client, requests'[q].step = "naming"
        PROVE  /\ collections'[requests'[q].col].status \in {"absent", "active"}
               /\ \A p \in Client :
                     requests'[p].step = "naming" /\ requests'[p].col = requests'[q].col
                         => p = q
               /\ \A d \in Collection, label \in Label :
                     <<d, label>> \in requests'[q].saw /\ d # requests'[q].col
                         => Lower[label] # Folded[requests'[q].name]
    <3>1. CASE q = r
        BY <1>1, <1>2, <1>3, <2>1, <3>1
    <3>2. CASE q # r
      <4>1. requests'[q] = requests[q]
          BY <1>3, <3>2
      <4> QED BY <1>1, <1>2, <1>3, <2>2, <4>1 DEF WorkspaceInv, NamersHold
    <3> QED BY <3>1, <3>2
  <2> QED BY <2>2 DEF NamersHold
<1> QED BY <1>5, <1>6, <1>7, <1>8 DEF WorkspaceInv

LEMMA InsertingKeeps ==
    ASSUME WorkspaceInv, NEW r \in Client, InsertDocument(r)
    PROVE  WorkspaceInv'
<1> DEFINE c == requests[r].col
           row == [status |-> "live", col |-> c, late |-> collections[c].status # "active"]
<1>1. /\ requests[r].step = "accepted" /\ c \in Collection
      /\ requests' = [requests EXCEPT ![r] = Idle]
      /\ collections' = collections
    BY DEF InsertDocument, Ends, Become, WorkspaceInv, RowsTyped
<1>2. Existing' = Existing
    BY <1>1 DEF Existing
<1>3. IsFiniteSet(Uploaded') /\ Bounded'
    BY InsertingStaysBounded
<1>4. /\ row \in DocumentRow /\ row.status = "live" /\ row.col = c
      /\ row.late = (collections[c].status # "active")
    BY <1>1 DEF DocumentRow, Kept
<1>5. \/ docs' = docs
      \/ c \in Existing /\ \E d \in Doc : docs' = [docs EXCEPT ![d] = row]
    BY DEF InsertDocument, Become
<1> HIDE DEF row
<1>6. \A d \in Doc : \/ docs'[d] = docs[d]
                     \/ docs'[d] = row /\ c \in Existing
    BY <1>5 DEF WorkspaceInv, RowsTyped
<1>12. IsFiniteSet(BroughtBack')
  <2>1. \A d \in BroughtBack' : d \in BroughtBack
      BY <1>4, <1>6 DEF BroughtBack
  <2> QED BY <2>1, NoMoreAreFinite
<1>7. RowsTyped'
  <2>1. docs' \in [Doc -> DocumentRow]
      BY <1>4, <1>5 DEF WorkspaceInv, RowsTyped
  <2>2. Idle \in RequestRow /\ Idle.step = "idle"
      BY DEF Idle, RequestRow, Label
  <2> QED BY <1>1, <2>1, <2>2 DEF WorkspaceInv, RowsTyped
<1>8. KeysHold'
    BY <1>2, <1>4, <1>6 DEF WorkspaceInv, KeysHold
<1>9. NamersHold'
  <2>1. \A q \in Client : requests'[q].step = "naming" => q # r /\ requests'[q] = requests[q]
      BY <1>1 DEF WorkspaceInv, RowsTyped, Idle
  <2> QED BY <1>1, <2>1 DEF WorkspaceInv, NamersHold
<1>10. TwinsOnlyByRace'
    BY <1>1, <1>2 DEF WorkspaceInv, TwinsOnlyByRace
<1>11. DeletionTakesAll'
  <2> SUFFICES ASSUME NEW d \in Doc, docs'[d].status = "live",
                      collections[docs'[d].col].status # "active"
               PROVE  docs'[d].late
      BY <1>1 DEF DeletionTakesAll, Uploaded
  <2>1. CASE docs'[d] = docs[d]
      BY <2>1 DEF WorkspaceInv, DeletionTakesAll, Uploaded
  <2>2. CASE docs'[d] = row
    <3>1. row.late = TRUE
        BY <1>4, <2>2
    <3> QED BY <2>2, <3>1
  <2> QED BY <1>6, <2>1, <2>2
<1> QED BY <1>3, <1>7, <1>8, <1>9, <1>10, <1>11, <1>12 DEF WorkspaceInv

-----------------------------------------------------------------------------
LEMMA InitKeeps == WorkspaceInit => WorkspaceInv
<1> SUFFICES ASSUME WorkspaceInit PROVE WorkspaceInv
    OBVIOUS
<1>1. Uploaded = {} /\ BroughtBack = {} /\ Pending = {} /\ Existing = {}
    BY DEF WorkspaceInit, Uploaded, BroughtBack, Pending, Existing, NoDocument, NoCollection, Idle
<1>2. Bounded /\ IsFiniteSet(Uploaded) /\ IsFiniteSet(BroughtBack)
  <2>1. /\ Cardinality(Uploaded) = 0 /\ Cardinality(Pending) = 0
        /\ IsFiniteSet(Uploaded) /\ IsFiniteSet(BroughtBack)
      BY <1>1, FS_EmptySet
  <2>2. Cardinality(Client) \in Nat
      BY DocumentLimitAssumption, FS_CardinalityType
  <2> QED BY <2>1, <2>2, DocumentLimitAssumption DEF Bounded
<1>3. RowsTyped
  <2>1. /\ NoCollection \in CollectionRow /\ NoDocument \in DocumentRow
        /\ Idle \in RequestRow /\ Idle.step = "idle"
      BY DEF NoCollection, NoDocument, Idle, CollectionRow, DocumentRow, RequestRow, Label
  <2> QED BY <2>1 DEF WorkspaceInit, RowsTyped
<1>4. KeysHold /\ NamersHold
    BY DEF WorkspaceInit, KeysHold, NamersHold, NoDocument, Idle, Kept
<1>5. TwinsOnlyByRace /\ DeletionTakesAll
    BY <1>1 DEF TwinsOnlyByRace, DeletionTakesAll
<1> QED BY <1>2, <1>3, <1>4, <1>5 DEF WorkspaceInv

LEMMA StepKeepsInvariant == WorkspaceInv /\ [WorkspaceNext]_workspaceVars => WorkspaceInv'
<1> SUFFICES ASSUME WorkspaceInv, [WorkspaceNext]_workspaceVars PROVE WorkspaceInv'
    OBVIOUS
<1>1. ASSUME NEW r \in Client, NEW c \in Collection, NEW name \in Name, CheckName(r, c, name)
      PROVE  WorkspaceInv'
    BY <1>1, CheckingNameKeeps
<1>2. ASSUME NEW r \in Client, WriteName(r)
      PROVE  WorkspaceInv'
    BY <1>2, NamingKeeps
<1>3. ASSUME NEW r \in Client,
             \/ \E c \in Collection : CountDocuments(r, c)
             \/ AcceptUpload(r) \/ AddToDocument(r)
      PROVE  WorkspaceInv'
    BY <1>3, UploadingKeeps
<1>4. ASSUME NEW r \in Client, InsertDocument(r)
      PROVE  WorkspaceInv'
    BY <1>4, InsertingKeeps
<1>5. ASSUME NEW c \in Collection, DeleteCollection(c)
      PROVE  WorkspaceInv'
    BY <1>5, DeletingCollectionKeeps
<1>6. ASSUME NEW d \in Doc, DeleteDocument(d) \/ OverwriteDeletion(d) \/ DeletionDone(d)
      PROVE  WorkspaceInv'
    BY <1>6, ChangingDocumentKeeps
<1>7. CASE UNCHANGED <<collections, docs, requests>>
  <2>1. /\ Uploaded' = Uploaded /\ BroughtBack' = BroughtBack
        /\ Existing' = Existing /\ Pending' = Pending
      BY <1>7 DEF Uploaded, BroughtBack, Existing, Pending
  <2> QED BY <1>7, <2>1 DEF WorkspaceInv, RowsTyped, KeysHold, NamersHold, Bounded, TwinsOnlyByRace,
               DeletionTakesAll
<1>8. CASE BeginWalk \/ ReadPage \/ EndWalk \/ UNCHANGED workspaceVars
    BY <1>7, <1>8 DEF BeginWalk, ReadPage, EndWalk, workspaceVars
<1> QED BY <1>1, <1>2, <1>3, <1>4, <1>5, <1>6, <1>8 DEF WorkspaceNext

(* The invariant the other theorems rest on holds in every reachable state *)
(* of any number of requests, collections and documents.                   *)
THEOREM WorkspaceInductive == WorkspaceSpec => []WorkspaceInv
BY InitKeeps, StepKeepsInvariant, PTL DEF WorkspaceSpec

(* Uploads that counted the documents before one another exceed the limit  *)
(* by less than the number of requests in flight, not counting documents   *)
(* that an ingestion has written back over their deletion.                 *)
THEOREM OvershootBounded == WorkspaceSpec => []LimitOvershootBounded
<1>1. WorkspaceInv => LimitOvershootBounded
    BY DEF WorkspaceInv, Bounded, Pending, LimitOvershootBounded
<1> QED BY <1>1, WorkspaceInductive, PTL

(* The check of names in the service, which folds case, only misses a      *)
(* collection that got its name after the check read.                      *)
THEOREM TwinsByRace == WorkspaceSpec => []TwinsOnlyByRace
<1>1. WorkspaceInv => TwinsOnlyByRace
    BY DEF WorkspaceInv
<1> QED BY <1>1, WorkspaceInductive, PTL

(* A document in a collection under deletion that is not being deleted was *)
(* inserted by an upload that read the collection before the deletion      *)
(* committed, or written back by its ingestion.                            *)
THEOREM DeletionComplete == WorkspaceSpec => []DeletionTakesAll
<1>1. WorkspaceInv => DeletionTakesAll
    BY DEF WorkspaceInv
<1> QED BY <1>1, WorkspaceInductive, PTL

(* A collection's row is only removed when what is left of its documents   *)
(* are tombstones, so the cascade never takes a row whose object or        *)
(* vectors are still there.                                                *)
THEOREM TombstonesVanish == WorkspaceSpec => OnlyTombstonesVanish
<1>1. ASSUME WorkspaceInv, [WorkspaceNext]_workspaceVars, NEW d \in Doc,
             docs[d].status \in Kept, docs'[d].status \notin Kept
      PROVE  docs[d].status = "deleted"
  <2>1. CASE \E c \in Collection : DeleteCollection(c)
    <3>1. PICK c \in Collection : DeleteCollection(c)
        BY <2>1
    <3>2. CASE Remaining(c) = {}
      <4>1. docs' = [e \in Doc |-> IF e \in DocumentsOf(c) THEN Removed ELSE docs[e]]
          BY <3>1, <3>2 DEF DeleteCollection, Become, Cascaded
      <4>2. d \in DocumentsOf(c)
          BY <1>1, <4>1
      <4> QED BY <3>2, <4>2 DEF Remaining
    <3>3. CASE Remaining(c) # {}
      <4>1. docs' = [e \in Doc |-> IF e \in Remaining(c)
                                   THEN Deleting(docs[e]) ELSE docs[e]]
          BY <3>1, <3>3 DEF DeleteCollection, Become, Taken
      <4> QED BY <1>1, <4>1 DEF WorkspaceInv, RowsTyped, DocumentRow, Kept, Deleting
    <3> QED BY <3>2, <3>3
  <2>2. CASE \E e \in Doc : DeleteDocument(e) \/ OverwriteDeletion(e) \/ DeletionDone(e)
    <3>1. PICK e \in Doc, row \in DocumentRow :
              docs' = [docs EXCEPT ![e] = row] /\ row.status \in Kept
      <4>1. PICK e \in Doc : DeleteDocument(e) \/ OverwriteDeletion(e) \/ DeletionDone(e)
          BY <2>2
      <4>2. docs[e] \in DocumentRow
          BY <1>1 DEF WorkspaceInv, RowsTyped
      <4>3. CASE DeleteDocument(e)
        <5>1. Deleting(docs[e]) \in DocumentRow /\ Deleting(docs[e]).status = "deleting"
            BY <4>2 DEF DocumentRow, Kept, Deleting
        <5> QED BY <4>3, <5>1 DEF DeleteDocument, Become, Kept
      <4>4. CASE OverwriteDeletion(e)
        <5> DEFINE row == [docs[e] EXCEPT !.status = "revived"]
        <5>1. row \in DocumentRow /\ row.status = "revived"
            BY <4>2 DEF DocumentRow, Kept
        <5>2. docs' = [docs EXCEPT ![e] = row]
            BY <4>4 DEF OverwriteDeletion, Become
        <5> HIDE DEF row
        <5> QED BY <5>1, <5>2 DEF Kept
      <4>5. CASE DeletionDone(e)
        <5> DEFINE row == [docs[e] EXCEPT !.status = "deleted"]
        <5>1. row \in DocumentRow /\ row.status = "deleted"
            BY <4>2 DEF DocumentRow, Kept
        <5>2. docs' = [docs EXCEPT ![e] = row]
            BY <4>5 DEF DeletionDone, Become
        <5> HIDE DEF row
        <5> QED BY <5>1, <5>2 DEF Kept
      <4> QED BY <4>1, <4>3, <4>4, <4>5
    <3> QED BY <1>1, <3>1 DEF WorkspaceInv, RowsTyped
  <2>3. CASE \E r \in Client : InsertDocument(r)
    <3>1. PICK r \in Client : InsertDocument(r)
        BY <2>3
    <3>2. CASE docs' = docs
        BY <1>1, <3>2
    <3>3. CASE \E e \in Doc : docs' = [docs EXCEPT ![e] =
                  [status |-> "live", col |-> requests[r].col,
                   late |-> collections[requests[r].col].status # "active"]]
        BY <1>1, <3>3 DEF WorkspaceInv, RowsTyped, Kept
    <3> QED BY <3>1, <3>2, <3>3 DEF InsertDocument, Become
  <2>4. CASE docs' = docs
      BY <1>1, <2>4
  <2> QED BY <1>1, <2>1, <2>2, <2>3, <2>4
           DEF WorkspaceNext, workspaceVars, CheckName, WriteName, CountDocuments, AcceptUpload, AddToDocument,
               Goes, Become, BeginWalk, ReadPage, EndWalk
<1>2. WorkspaceInv /\ [WorkspaceNext]_workspaceVars =>
          [\A d \in Doc : docs[d].status \in Kept /\ docs'[d].status \notin Kept
                              => docs[d].status = "deleted"]_workspaceVars
    BY <1>1
<1> QED BY <1>2, WorkspaceInductive, PTL DEF WorkspaceSpec, OnlyTombstonesVanish

-----------------------------------------------------------------------------
(* Pages.  A finite set of rows has a first and a last one, ... *)
LEMMA ExtremeExists ==
    ASSUME NEW S, IsFiniteSet(S), S # {}, NEW R,
           \A x, y, z \in S : <<x, y>> \in R /\ <<y, z>> \in R => <<x, z>> \in R,
           \A x, y \in S : x = y \/ <<x, y>> \in R \/ <<y, x>> \in R
    PROVE  \E x \in S : \A y \in S \ {x} : <<y, x>> \in R
<1> DEFINE
      Extreme(s, x) == \A y \in s \ {x} : <<y, x>> \in R
      T == {s \in SUBSET S : s # {} /\ ~ \E x \in s : Extreme(s, x)}
<1>1. SUFFICES ASSUME T # {} PROVE FALSE
  <2>1. S \notin T => \E x \in S : Extreme(S, x)
    OBVIOUS
  <2> QED BY <1>1, <2>1
<1>2. T \subseteq FiniteSubsetsOf(S)
  BY FS_FiniteSubsetsOfFinite
<1>3. PICK s \in T : \A t \in T : ~ (<<t, s>> \in StrictSubsetOrdering(S))
  <2> HIDE DEF T
  <2> QED BY <1>1, <1>2, FS_StrictSubsetOrderingWellFounded, WFMin
<1>4. PICK x \in s : TRUE
  OBVIOUS
<1> DEFINE t == s \ {x}
<1>5. <<t, s>> \in StrictSubsetOrdering(S)
  BY <1>3, <1>4 DEF StrictSubsetOrdering
<1>6. t = {} \/ \E y \in t : Extreme(t, y)
  BY <1>3, <1>5
<1>7. CASE t = {}
  <2>1. Extreme(s, x)
    BY <1>7
  <2> QED BY <1>3, <1>4, <2>1
<1>8. CASE \E y \in t : Extreme(t, y)
  <2>1. PICK y \in t : Extreme(t, y)
    BY <1>8
  <2>2. x \in S /\ y \in S /\ y # x /\ y \in s /\ s \subseteq S
    BY <1>3, <1>4, <2>1
  <2>3. CASE <<x, y>> \in R
    <3>1. Extreme(s, y)
      BY <2>1, <2>3
    <3> QED BY <1>3, <2>2, <3>1
  <2>4. CASE <<y, x>> \in R
    <3>1. ASSUME NEW z \in s \ {x} PROVE <<z, x>> \in R
      <4>1. CASE z = y
        BY <2>4, <4>1
      <4>2. CASE z # y
        <5>1. <<z, y>> \in R
          BY <2>1, <3>1, <4>2
        <5> QED BY <2>2, <2>4, <3>1, <5>1
      <4> QED BY <4>1, <4>2
    <3> QED BY <1>3, <1>4, <3>1
  <2> QED BY <2>2, <2>3, <2>4
<1> QED BY <1>6, <1>7, <1>8

RowOf(d) == [at |-> CreatedAt[d], id |-> d]
ListRow == [at : Nat, id : Int]

LEMMA NewerOrders ==
    /\ \A a \in ListRow : ~Newer(a, a) /\ a # Start /\ a # End
    /\ \A a, b, c \in ListRow : Newer(a, b) /\ Newer(b, c) => Newer(a, c)
    /\ \A a, b \in ListRow : a = b \/ Newer(a, b) \/ Newer(b, a)
    /\ Start # End
<1>1. /\ \A a \in ListRow : ~Newer(a, a) /\ a # Start /\ a # End
      /\ \A a, b, c \in ListRow : Newer(a, b) /\ Newer(b, c) => Newer(a, c)
  BY DEF ListRow, Newer, Start, End
<1>2. ASSUME NEW a \in ListRow, NEW b \in ListRow, ~Newer(a, b), ~Newer(b, a)
      PROVE  a = b
  <2>1. a.at = b.at /\ a.id = b.id
    BY <1>2 DEF ListRow, Newer
  <2> QED BY <2>1 DEF ListRow
<1>3. Start # End
  BY DEF Start, End
<1> QED BY <1>1, <1>2, <1>3

(* ... so what a page leaves out is behind its last row, and nothing on    *)
(* the page is.                                                            *)
LEMMA PageFacts ==
    ASSUME NEW rows, rows \subseteq ListRow, IsFiniteSet(rows), NEW cursor,
           NEW left, left = {row \in rows : Older(row, cursor)},
           NEW page, page = Page(rows, cursor)
    PROVE  /\ page.rows \subseteq left
           /\ \/ page.next = End /\ page.rows = left
              \/ /\ page.next \in page.rows
                 /\ \A row \in page.rows : row = page.next \/ Newer(row, page.next)
                 /\ \A row \in left :
                      row = page.next \/ Newer(row, page.next) => row \in page.rows
<1> DEFINE
      before(row) == {other \in left : Newer(other, row)}
      shown == {row \in left : Cardinality(before(row)) < Limit}
      IsLast(last) == \A row \in shown : row = last \/ Newer(row, last)
<1>1. page.rows = shown
      /\ page.next = IF shown = left THEN End ELSE CHOOSE last \in shown : IsLast(last)
  BY DEF Page
<1>2. /\ left \subseteq ListRow /\ IsFiniteSet(left)
      /\ shown \subseteq left /\ IsFiniteSet(shown)
  <2>1. left \subseteq rows
    OBVIOUS
  <2>2. IsFiniteSet(left)
    BY <2>1, FS_Subset
  <2> QED BY <2>1, <2>2, FS_Subset
<1>3. \A row \in left : IsFiniteSet(before(row)) /\ Cardinality(before(row)) \in Nat
  <2>1. \A row \in left : before(row) \subseteq left
    OBVIOUS
  <2> HIDE DEF before
  <2> QED BY <1>2, <2>1, FS_Subset, FS_CardinalityType
<1>4. ASSUME left # {} PROVE shown # {}
  <2> DEFINE R == {p \in left \X left : Newer(p[2], p[1])}
  <2>1. /\ \A x, y, z \in left : <<x, y>> \in R /\ <<y, z>> \in R => <<x, z>> \in R
        /\ \A x, y \in left : x = y \/ <<x, y>> \in R \/ <<y, x>> \in R
    BY <1>2, NewerOrders
  <2>2. PICK x \in left : \A y \in left \ {x} : <<y, x>> \in R
    <3> HIDE DEF R, before, shown
    <3>1. IsFiniteSet(left) /\ left # {}
      BY <1>2, <1>4
    <3> QED BY <2>1, <3>1, ExtremeExists, Zenon
  <2>3. before(x) = {}
    <3>1. ASSUME NEW y \in left, Newer(y, x) PROVE FALSE
      <4>1. y # x
        BY <1>2, <3>1, NewerOrders
      <4>2. Newer(x, y)
        BY <2>2, <4>1
      <4> QED BY <1>2, <3>1, <4>2, NewerOrders
    <3> QED BY <3>1
  <2>4. Cardinality(before(x)) = 0
    BY <2>3, FS_EmptySet
  <2> QED BY <2>4, LimitAssumption
<1>5. ASSUME shown # {} PROVE \E last \in shown : IsLast(last)
  <2> DEFINE R == {p \in left \X left : Newer(p[1], p[2])}
  <2>1. /\ \A x, y, z \in shown : <<x, y>> \in R /\ <<y, z>> \in R => <<x, z>> \in R
        /\ \A x, y \in shown : x = y \/ <<x, y>> \in R \/ <<y, x>> \in R
    <3> HIDE DEF shown
    <3> QED BY <1>2, NewerOrders
  <2>2. PICK x \in shown : \A y \in shown \ {x} : <<y, x>> \in R
    <3> HIDE DEF R, shown
    <3> QED BY <1>2, <1>5, <2>1, ExtremeExists
  <2> HIDE DEF shown
  <2>3. IsLast(x)
    BY <2>2
  <2> QED BY <2>3
<1>6. ASSUME NEW last \in left, Cardinality(before(last)) < Limit,
             NEW row \in left, Newer(row, last)
      PROVE  row \in shown
  <2>1. before(row) \subseteq before(last)
    BY <1>2, <1>6, NewerOrders
  <2>2. Cardinality(before(row)) <= Cardinality(before(last))
    <3> HIDE DEF before
    <3> QED BY <1>3, <2>1, FS_Subset
  <2>3. Cardinality(before(row)) \in Nat /\ Cardinality(before(last)) \in Nat
    BY <1>3
  <2> HIDE DEF before
  <2>4. Cardinality(before(row)) < Limit
    BY <1>6, <2>2, <2>3, LimitAssumption
  <2> QED BY <2>4
<1>7. CASE shown = left
  BY <1>1, <1>7
<1>8. CASE shown # left
  <2>1. shown # {}
    BY <1>2, <1>4, <1>8
  <2>2. page.next \in shown /\ IsLast(page.next)
    <3> HIDE DEF shown, IsLast
    <3> QED BY <1>1, <1>5, <1>8, <2>1
  <2>3. page.next \in left /\ Cardinality(before(page.next)) < Limit
    BY <2>2
  <2>4. \A row \in left : Newer(row, page.next) => row \in shown
    <3> HIDE DEF shown, before
    <3> QED BY <1>6, <2>3
  <2> HIDE DEF shown
  <2> QED BY <1>1, <1>2, <2>2, <2>4
<1> QED BY <1>7, <1>8
(* What a walk knows: behind its cursor it has seen nothing, and what      *)
(* stayed before the cursor it has seen.                                   *)
Shown == Listed(collections, docs)

WalkTyped ==
    walk \in [cursor : {Start, End} \cup {RowOf(d) : d \in Doc},
              seen : SUBSET Doc, again : SUBSET Doc, kept : SUBSET Doc]

WalkSound ==
    /\ WalkTyped
    /\ walk.again = {}
    /\ walk.cursor = End => walk.kept \subseteq walk.seen
    /\ walk.cursor # End =>
        /\ walk.kept \subseteq Shown
        /\ \A d \in walk.kept : ~Older(RowOf(d), walk.cursor) => d \in walk.seen
        /\ \A d \in walk.seen : ~Older(RowOf(d), walk.cursor)

FewDocs == IsFiniteSet({d \in Doc : docs[d].status # "absent"})

WalkInv == WorkspaceInv /\ FewDocs /\ WalkSound

LEMMA RowFacts ==
    \A d \in Doc : /\ RowOf(d) \in ListRow /\ RowOf(d).id = d
                   /\ RowOf(d) # Start /\ RowOf(d) # End
<1> TAKE d \in Doc
<1>1. RowOf(d) \in ListRow /\ RowOf(d).id = d
  BY IdAssumption DEF RowOf, ListRow
<1> QED BY <1>1, NewerOrders

(* Reading the next page. *)
LEMMA ReadingKeepsWalk ==
    ASSUME WalkInv, ReadPage,
           NEW rows, rows = {[at |-> CreatedAt[d], id |-> d] : d \in Shown},
           NEW page, page = Page(rows, walk.cursor),
           NEW ids, ids = {row.id : row \in page.rows}
    PROVE  WalkSound'
<1> DEFINE left == {row \in rows : Older(row, walk.cursor)}
<1>1. /\ walk.cursor # End
      /\ walk' = [walk EXCEPT !.cursor = page.next, !.seen = @ \cup ids,
                              !.again = @ \cup (walk.seen \cap ids)]
      /\ Shown' = Shown
  BY DEF ReadPage, Shown
<1>2. WalkSound /\ WalkTyped
  BY DEF WalkInv, WalkSound
<1>3. /\ \A d \in Shown : d \in Doc /\ RowOf(d) \in rows
      /\ \A row \in rows : \E d \in Shown : row = RowOf(d)
  BY DEF Shown, Listed, RowOf
<1>4. rows \subseteq ListRow /\ IsFiniteSet(rows)
  <2>1. rows \subseteq ListRow
    BY <1>3, RowFacts
  <2>2. IsFiniteSet(Shown)
    <3>1. Shown \subseteq {d \in Doc : docs[d].status # "absent"}
      BY DEF Shown, Listed
    <3> QED BY <3>1, FS_Subset DEF WalkInv, FewDocs
  <2>3. IsFiniteSet({RowOf(d) : d \in Shown})
    <3> DEFINE f == [d \in Shown |-> RowOf(d)]
    <3>1. f \in Surjection(Shown, {RowOf(d) : d \in Shown})
      BY DEF Surjection
    <3> HIDE DEF f
    <3> QED BY <2>2, <3>1, FS_Surjection
  <2> QED BY <2>1, <2>3 DEF RowOf
<1>5. /\ page.rows \subseteq left
      /\ \/ page.next = End /\ page.rows = left
         \/ /\ page.next \in page.rows
            /\ \A row \in page.rows : row = page.next \/ Newer(row, page.next)
            /\ \A row \in left :
                 row = page.next \/ Newer(row, page.next) => row \in page.rows
  <2>1. left = {row \in rows : Older(row, walk.cursor)}
    OBVIOUS
  <2>2. page = Page(rows, walk.cursor)
    OBVIOUS
  <2> HIDE DEF left
  <2> QED BY <1>4, <2>1, <2>2, PageFacts, Zenon
<1>6. \A d \in Doc : d \in ids <=> RowOf(d) \in page.rows
  <2>1. \A row \in page.rows : \E d \in Doc : row = RowOf(d) /\ row.id = d
    BY <1>3, <1>5, RowFacts
  <2>2. \A d \in Doc : RowOf(d).id = d
    BY RowFacts
  <2> QED BY <2>1, <2>2
<1>7. ids \subseteq Doc
  BY <1>3, <1>5, RowFacts
<1>8. walk.seen \cap ids = {}
  BY <1>1, <1>2, <1>5, <1>6, <1>7 DEF WalkSound
<1>9. /\ walk'.cursor = page.next /\ walk'.seen = walk.seen \cup ids
      /\ walk'.again = {} /\ walk'.kept = walk.kept
  BY <1>1, <1>2, <1>8 DEF WalkSound, WalkTyped
<1>10. page.next \in {Start, End} \cup {RowOf(d) : d \in Doc}
  BY <1>3, <1>5
<1>11. WalkTyped'
  BY <1>1, <1>2, <1>7, <1>10 DEF WalkTyped
<1>12. /\ walk.kept \subseteq Shown
       /\ \A d \in walk.kept : ~Older(RowOf(d), walk.cursor) => d \in walk.seen
       /\ \A d \in walk.seen : d \in Doc /\ ~Older(RowOf(d), walk.cursor)
  BY <1>1, <1>2 DEF WalkSound, WalkTyped
<1>13. CASE page.next = End
  <2>1. ASSUME NEW d \in walk.kept PROVE d \in walk'.seen
    <3>1. d \in Doc /\ RowOf(d) \in rows
      BY <1>3, <1>12
    <3>2. CASE Older(RowOf(d), walk.cursor)
      <4>1. page.rows = left
        <5>1. ASSUME page.next \in page.rows PROVE FALSE
          BY <1>4, <1>5, <1>13, <5>1, NewerOrders
        <5> QED BY <1>5, <5>1
      <4> QED BY <1>6, <1>9, <3>1, <3>2, <4>1
    <3>3. CASE ~Older(RowOf(d), walk.cursor)
      BY <1>9, <1>12, <3>3
    <3> QED BY <3>2, <3>3
  <2> QED BY <1>9, <1>11, <1>13, <2>1 DEF WalkSound
<1>14. CASE page.next # End
  <2> DEFINE nxt == page.next
  <2>1. /\ nxt \in page.rows /\ nxt \in left /\ nxt \in ListRow
        /\ nxt # Start /\ nxt # End
    BY <1>4, <1>5, <1>14, NewerOrders
  <2>2. \A row : Older(row, nxt) <=> Newer(nxt, row)
    BY <2>1 DEF Older
  <2>3. Older(nxt, walk.cursor)
    BY <2>1
  <2> HIDE DEF nxt, left
  <2>4. ASSUME NEW d \in walk.kept, ~Older(RowOf(d), nxt) PROVE d \in walk'.seen
    <3>1. d \in Doc /\ RowOf(d) \in rows /\ RowOf(d) \in ListRow
      BY <1>3, <1>12, RowFacts
    <3>2. RowOf(d) = nxt \/ Newer(RowOf(d), nxt)
      BY <2>1, <2>2, <2>4, <3>1, NewerOrders
    <3>3. CASE Older(RowOf(d), walk.cursor)
      <4>1. RowOf(d) \in left
        BY <3>1, <3>3 DEF left
      <4>2. RowOf(d) \in page.rows
        BY <1>5, <1>14, <3>2, <4>1 DEF nxt
      <4> QED BY <1>6, <1>9, <3>1, <4>2
    <3>4. CASE ~Older(RowOf(d), walk.cursor)
      BY <1>9, <1>12, <3>4
    <3> QED BY <3>3, <3>4
  <2>5. ASSUME NEW d \in walk'.seen PROVE ~Older(RowOf(d), nxt)
    <3>1. d \in Doc /\ RowOf(d) \in ListRow
      BY <1>7, <1>9, <1>12, <2>5, RowFacts
    <3>2. CASE d \in ids
      <4>1. RowOf(d) = nxt \/ Newer(RowOf(d), nxt)
        BY <1>5, <1>6, <1>14, <3>1, <3>2 DEF nxt
      <4>2. ~Newer(nxt, RowOf(d))
        BY <2>1, <3>1, <4>1, NewerOrders
      <4> QED BY <2>2, <4>2
    <3>3. CASE d \in walk.seen
      <4>1. walk.cursor # Start /\ ~Newer(walk.cursor, RowOf(d))
        BY <1>12, <3>3 DEF Older
      <4>2. Newer(walk.cursor, nxt) /\ walk.cursor \in ListRow
        BY <1>1, <1>2, <2>3, <4>1, RowFacts DEF Older, WalkTyped
      <4>3. ~Newer(nxt, RowOf(d))
        BY <2>1, <3>1, <4>1, <4>2, NewerOrders
      <4> QED BY <2>2, <4>3
    <3> QED BY <1>9, <2>5, <3>2, <3>3
  <2> QED BY <1>1, <1>9, <1>11, <1>12, <2>1, <2>4, <2>5 DEF WalkSound, nxt
<1> QED BY <1>13, <1>14
(* Whatever changes the documents or collections takes what it hides from  *)
(* what was listed all along, and makes one document at most.              *)
LEMMA BecomingKeepsWalk ==
    ASSUME WalkSound, NEW cols, NEW ds, Become(cols, ds)
    PROVE  WalkSound'
<1>1. /\ walk' = [walk EXCEPT !.kept = @ \cap Listed(cols, ds)]
      /\ Shown' = Listed(cols, ds)
  BY DEF Become, Shown
<1>2. /\ walk'.cursor = walk.cursor /\ walk'.seen = walk.seen
      /\ walk'.again = walk.again
      /\ walk'.kept = walk.kept \cap Listed(cols, ds)
  BY <1>1 DEF WalkSound, WalkTyped
<1>3. WalkTyped'
  BY <1>1 DEF WalkSound, WalkTyped
<1> QED BY <1>1, <1>2, <1>3 DEF WalkSound

LEMMA RestKeepsWalk ==
    ASSUME WalkSound, UNCHANGED <<collections, docs, walk>>
    PROVE  WalkSound'
<1>1. Shown' = Shown
  BY DEF Shown
<1> QED BY <1>1 DEF WalkSound, WalkTyped

LEMMA WalkingKeeps ==
    ASSUME WalkInv, BeginWalk \/ ReadPage \/ EndWalk
    PROVE  WalkSound'
<1>1. NoWalk \in [cursor : {Start, End}, seen : {{}}, again : {{}}, kept : {{}}]
      /\ Start # End
  BY NewerOrders DEF NoWalk
<1>2. CASE BeginWalk
  <2>1. /\ walk'.cursor = Start /\ walk'.seen = {} /\ walk'.again = {}
        /\ walk'.kept = Shown /\ Shown' = Shown
        /\ walk' \in [cursor : {Start}, seen : {{}}, again : {{}}, kept : {Shown}]
    BY <1>1, <1>2 DEF BeginWalk, Shown
  <2>2. Shown \subseteq Doc /\ WalkTyped'
    BY <2>1 DEF WalkTyped, Shown, Listed
  <2>3. \A row : Older(row, Start)
    BY DEF Older
  <2> QED BY <1>1, <2>1, <2>2, <2>3 DEF WalkSound
<1>3. CASE ReadPage
  BY <1>3, ReadingKeepsWalk
<1>4. CASE EndWalk
  <2>1. walk' = NoWalk /\ NoWalk.cursor = End /\ NoWalk.seen = {}
        /\ NoWalk.again = {} /\ NoWalk.kept = {}
    BY <1>4 DEF EndWalk, NoWalk
  <2>2. WalkTyped'
    BY <1>1, <2>1 DEF WalkTyped
  <2> QED BY <2>1, <2>2 DEF WalkSound
<1> QED BY <1>2, <1>3, <1>4

(* The rows of documents are finitely many. *)
LEMMA FewDocsKept ==
    ASSUME WalkInv, [WorkspaceNext]_workspaceVars
    PROVE  FewDocs'
<1> DEFINE Placed == {d \in Doc : docs[d].status # "absent"}
<1>1. IsFiniteSet(Placed)
  BY DEF WalkInv, FewDocs
<1>2. docs \in [Doc -> DocumentRow]
  BY DEF WalkInv, WorkspaceInv, RowsTyped
<1>3. (\E d \in Doc : Placed' \subseteq Placed \cup {d}) \/ Placed' \subseteq Placed
  <2>1. CASE docs' = docs
    BY <2>1
  <2>2. ASSUME NEW r \in Client, InsertDocument(r)
        PROVE  docs' = docs \/ \E d \in Doc : Placed' \subseteq Placed \cup {d}
    <3>1. CASE docs' # docs
      <4>1. PICK d \in Doc : docs' = [docs EXCEPT ![d] =
                               [status |-> "live", col |-> requests[r].col,
                                late |-> collections[requests[r].col].status # "active"]]
        BY <2>2, <3>1 DEF InsertDocument, Become
      <4>2. \A e \in Doc : e # d => docs'[e] = docs[e]
        BY <4>1, <1>2
      <4> QED BY <4>2
    <3> QED BY <3>1
  <2>3. ASSUME NEW d \in Doc,
             DeleteDocument(d) \/ OverwriteDeletion(d) \/ DeletionDone(d)
        PROVE  Placed' \subseteq Placed
    <3>1. docs[d].status \in {"live", "revived", "deleting", "deleted"}
      BY <2>3 DEF DeleteDocument, OverwriteDeletion, DeletionDone, Live, Uploaded, BroughtBack
    <3>2. \A e \in Doc : e # d => docs'[e] = docs[e]
      BY <1>2, <2>3 DEF DeleteDocument, OverwriteDeletion, DeletionDone, Become
    <3> QED BY <3>1, <3>2
  <2>4. ASSUME NEW c \in Collection, DeleteCollection(c)
        PROVE  Placed' \subseteq Placed
    <3>1. \A d \in Doc : d \in DocumentsOf(c) => d \in Placed
      BY DEF DocumentsOf, Kept
    <3>2. \A d \in Doc : d \notin DocumentsOf(c) => docs'[d] = docs[d]
      BY <1>2, <2>4 DEF DeleteCollection, Become, Cascaded, Taken, Remaining
    <3> QED BY <3>1, <3>2
  <2>5. ASSUME NEW r \in Client,
               \/ \E c \in Collection, name \in Name : CheckName(r, c, name)
               \/ WriteName(r)
               \/ \E c \in Collection : CountDocuments(r, c)
               \/ AcceptUpload(r) \/ AddToDocument(r)
        PROVE  docs' = docs
    BY <2>5 DEF CheckName, WriteName, CountDocuments, AcceptUpload, AddToDocument,
                Goes, Become
  <2>6. BeginWalk \/ ReadPage \/ EndWalk \/ UNCHANGED workspaceVars => docs' = docs
    BY DEF BeginWalk, ReadPage, EndWalk, workspaceVars
  <2> HIDE DEF Placed
  <2> QED BY <2>1, <2>2, <2>3, <2>4, <2>5, <2>6 DEF WorkspaceNext
<1>4. \A d \in Doc : IsFiniteSet(Placed \cup {d})
  <2> HIDE DEF Placed
  <2> QED BY <1>1, FS_AddElement
<1>5. IsFiniteSet(Placed')
  <2> HIDE DEF Placed
  <2> QED BY <1>1, <1>3, <1>4, FS_Subset
<1> QED BY <1>5 DEF FewDocs

LEMMA WalkInductive == WalkInv /\ [WorkspaceNext]_workspaceVars => WalkSound'
<1> SUFFICES ASSUME WalkInv, [WorkspaceNext]_workspaceVars PROVE WalkSound'
  OBVIOUS
<1>1. WalkSound
  BY DEF WalkInv
<1>2. (\E cols, ds : Become(cols, ds)) => WalkSound'
  BY <1>1, BecomingKeepsWalk
<1>3. UNCHANGED <<collections, docs, walk>> => WalkSound'
  BY <1>1, RestKeepsWalk
<1>4. ASSUME NEW r \in Client,
             \/ \E c \in Collection, name \in Name : CheckName(r, c, name)
             \/ WriteName(r)
             \/ \E c \in Collection : CountDocuments(r, c)
             \/ AcceptUpload(r) \/ InsertDocument(r) \/ AddToDocument(r)
      PROVE  WalkSound'
  <2>2. ASSUME WriteName(r) PROVE WalkSound'
    BY <1>2, <1>3, <2>2 DEF WriteName
  <2>3. ASSUME InsertDocument(r) PROVE WalkSound'
    BY <1>2, <1>3, <2>3 DEF InsertDocument
  <2>4. CASE \/ \E c \in Collection, name \in Name : CheckName(r, c, name)
             \/ \E c \in Collection : CountDocuments(r, c)
             \/ AcceptUpload(r) \/ AddToDocument(r)
    BY <1>3, <2>4 DEF CheckName, CountDocuments, AcceptUpload, AddToDocument, Goes
  <2> QED BY <1>4, <2>2, <2>3, <2>4
<1>5. ASSUME NEW c \in Collection, DeleteCollection(c) PROVE WalkSound'
  BY <1>2, <1>5 DEF DeleteCollection
<1>6. ASSUME NEW d \in Doc,
             DeleteDocument(d) \/ OverwriteDeletion(d) \/ DeletionDone(d)
      PROVE  WalkSound'
  BY <1>2, <1>6 DEF DeleteDocument, OverwriteDeletion, DeletionDone
<1>7. UNCHANGED workspaceVars => WalkSound'
  BY <1>3 DEF workspaceVars
<1> QED BY <1>4, <1>5, <1>6, <1>7, WalkingKeeps DEF WorkspaceNext

(* Read to its end, the list has shown every document that was listed all  *)
(* along, and none twice: for any number of documents of any instants, any *)
(* size of the pages, and any changes between them.                        *)
THEOREM PagesComplete == WorkspaceSpec => []PagesAreComplete
<1>1. WorkspaceInit => WalkInv
  <2> SUFFICES ASSUME WorkspaceInit PROVE FewDocs /\ WalkSound
    BY InitKeeps DEF WalkInv
  <2>1. {d \in Doc : docs[d].status # "absent"} = {}
    BY DEF WorkspaceInit, NoDocument
  <2>2. walk = NoWalk /\ walk.cursor = End /\ walk.seen = {} /\ walk.again = {}
        /\ walk.kept = {} /\ WalkTyped
    BY DEF WorkspaceInit, NoWalk, WalkTyped
  <2> QED BY <2>1, <2>2, FS_EmptySet DEF FewDocs, WalkSound
<1>2. WalkInv /\ [WorkspaceNext]_workspaceVars => WalkInv'
  BY StepKeepsInvariant, FewDocsKept, WalkInductive DEF WalkInv
<1>3. WalkInv => PagesAreComplete
  BY DEF WalkInv, WalkSound, PagesAreComplete
<1> QED BY <1>1, <1>2, <1>3, PTL DEF WorkspaceSpec
=============================================================================
