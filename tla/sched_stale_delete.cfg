SPECIFICATION Spec
CONSTANTS
    Recurring = {r1}
    Interval = {}
    Once = {}
    Event = {}
    AI = {}
    Messages = {}
    Pool = {p1}
    Handlers = {}
    OwnerOps = {"delete"}
    MaxAttempts = 2
    MaxSteps = 10
    AnswerColumns = TRUE
    MaxTime = 1
    MaxParks = 0
    MaxCrashes = 0
    MaxOps = 1
PROPERTIES StaleDeleteChangesNothing
