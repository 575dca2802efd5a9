SPECIFICATION Spec
CONSTANTS
    Clients = {c1, c2}
    MaxStepsPerTodo = 3
    MaxStepsPerAdd = 2
    MaxOps = 5
    AIRequests = {1, 2, 3}
    Talks <- MCTalks
    MaxToolRounds = 2
    MaxToolsPerTurn = 2
    AISlots = 2
    ApprovalTTL = 1
    AIHorizon = 1
    ReplyTasks = {1, 2}
    MaxReplies = 2
    ReplyInterval = 1
    ResetAfter = 2
    CasAttempts = 2
    MaxEvictions = 1
    ReplyHorizon = 3
    Changes = {1, 2}
    Loads = 3
    PolicyBudgets <- MCPolicyBudgets
    Asks = {1, 2}
    Budgets <- MCBudgets
    MaxEdits = 1
CHECK_DEADLOCK FALSE
INVARIANTS ApprovedCallsWereShown
