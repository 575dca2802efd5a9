SPECIFICATION Spec
CONSTANTS
    Recurring = {r1}
    Interval = {}
    Once = {}
    Event = {}
    AI = {}
    Messages = {}
    Pool = {p1}
    Handlers = {}
    OwnerOps = {}
    MaxAttempts = 2
    MaxSteps = 10
    AnswerColumns = FALSE
    MaxTime = 1
    MaxParks = 1
    MaxCrashes = 0
    MaxOps = 1
PROPERTIES ReplyResumes
