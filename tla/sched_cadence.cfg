SPECIFICATION FairSpec
CONSTANTS
    Recurring = {r1}
    Interval = {r1}
    Once = {}
    Event = {}
    AI = {r1}
    Messages = {}
    Pool = {p1}
    Handlers = {}
    OwnerOps = {"pause"}
    MaxAttempts = 2
    MaxSteps = 10
    AnswerColumns = TRUE
    MaxTime = 2
    MaxParks = 1
    MaxCrashes = 1
    MaxOps = 2

PROPERTIES BoundaryConsumedOnceStarted DueEventuallyServed StartedEventuallySettles
