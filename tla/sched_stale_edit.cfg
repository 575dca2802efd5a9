SPECIFICATION Spec
CONSTANTS
    Recurring = {r1}
    Interval = {}
    Once = {}
    Event = {}
    AI = {r1}
    Messages = {}
    Pool = {p1}
    Handlers = {}
    OwnerOps = {"edit"}
    MaxAttempts = 2
    MaxSteps = 10
    AnswerColumns = TRUE
    MaxTime = 2
    MaxParks = 0
    MaxCrashes = 0
    MaxOps = 1
PROPERTIES StaleDefinitionNeverStarts
