SPECIFICATION FairSpec
CONSTANTS
    Recurring = {r1}
    Interval = {r1}
    Once = {}
    Event = {}
    AI = {}
    Messages = {}
    Pool = {p1}
    Handlers = {}
    OwnerOps = {}
    MaxAttempts = 2
    MaxSteps = 3
    AnswerColumns = TRUE
    MaxTime = 3
    MaxParks = 0
    MaxCrashes = 1
    MaxOps = 1
PROPERTIES DueEventuallyServed
