SPECIFICATION Spec
CONSTANTS
    u = u
    v = v
    STAMP = STAMP
    SPAN = 32
    WRAP = 16
    SLACK_TICKS = 1
    Timers = {u, v}
    Delays <- MCDelays
    LATENCY = 1
    GAP = 2
INVARIANTS
    TimeExact
    ListSorted
    NotLate
