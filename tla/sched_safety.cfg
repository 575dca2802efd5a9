SPECIFICATION Spec
CONSTANTS
    Recurring = {r1}
    Interval = {r1}
    Once = {}
    Event = {}
    AI = {r1}
    Messages = {}
    Pool = {p1, p2}
    Handlers = {}
    OwnerOps = {"pause", "edit"}
    MaxAttempts = 2
    MaxSteps = 10
    AnswerColumns = TRUE
    MaxTime = 2
    MaxParks = 1
    MaxCrashes = 1
    MaxOps = 1
INVARIANTS TypeOK ExclusiveExecution ExecutingIsRunning NotBeforeBoundary UncertainNeverReplayed
PROPERTIES Implements

