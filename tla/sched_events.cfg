SPECIFICATION Spec
CONSTANTS
    Recurring = {}
    Interval = {}
    Once = {o1}
    Event = {e1}
    AI = {}
    Messages = {1}
    Pool = {p1}
    Handlers = {h1}
    OwnerOps = {"delete", "complete"}
    MaxAttempts = 1
    MaxSteps = 10
    AnswerColumns = TRUE
    MaxTime = 1
    MaxParks = 0
    MaxCrashes = 1
    MaxOps = 1
INVARIANTS NoOrphans
