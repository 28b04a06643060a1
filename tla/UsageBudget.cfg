CONSTANTS
    Queries = {q1, q2, q3}
    Actors = {demo}
    Sessions = {s1}
    NoSession = NoSession
    Modes = {"standard", "deep"}
    Kinds = {"llm_calls", "input_tokens"}
    Budget <- TwoModes
    QueriesPerMinute = 1
    DailyLimit <- FourCalls
    Usages <- TwoUsages
    MinutesPerDay = 2
    LastMinute = 2
    NoRow = NoRow
SYMMETRY Symmetry
SPECIFICATION Spec
CHECK_DEADLOCK FALSE
INVARIANTS
    WindowsMatchReservations
    SpentIsCharged
PROPERTY
    ImplementsLedger
