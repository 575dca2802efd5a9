SPECIFICATION Spec
CONSTANTS
    Recurring = {}
    Interval = {}
    Once = {}
    Event = {e1}
    AI = {}
    Messages = {1}
    Pool = {p1, p2}
    Handlers = {h1, h2}
    OwnerOps = {}
    MaxAttempts = 2
    MaxSteps = 10
    AnswerColumns = TRUE
    MaxTime = 1
    MaxParks = 0
    MaxCrashes = 0
    MaxOps = 1
SYMMETRY Slots
INVARIANTS ExclusiveExecution
