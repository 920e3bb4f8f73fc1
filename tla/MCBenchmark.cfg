\* At most three calls of the timer in a case, so that a case of one call, the
\* shift in its second call, and a deadline lowered below the time already
\* elapsed all occur; the request is replaced once.
CONSTANTS
    a = a
    b = b
    c = c
    CaseIds = {a, b, c}
    Custom = c
    Dynamic = {b}
    Tests <- MCTests
    Invalid = Invalid
    Duration <- MCDuration
    Timeouts = {1, 3}
    ShiftTime = 2
    MaxChanges = 1
    None = None
SPECIFICATION BenchSpec
INVARIANTS BenchTypeOK CasesAccounted PathLatched RequestServed
PROPERTY RunEnds
CHECK_DEADLOCK FALSE
