SPECIFICATION GateSpec
CONSTANTS
    Deliveries = 4
    Queries = {1, 2}
    RecentLimit = 1
CHECK_DEADLOCK FALSE
INVARIANT OneClickAtATime
