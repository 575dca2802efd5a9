SPECIFICATION FairSpec
CONSTANTS
    NoChat = NoChat
    Sources = {a, b}
    Letters = {1, 2}
    PanelChats = {a, h}
    Toggles = {"first", "second"}
    GhostBudgets <- MCGhostBudgets
    Chains <- MCChains
    MaxChainAttempts = 3
    ChainHorizon = 1
    Deliveries = 4
    Queries = {1, 2}
    RecentLimit = 1
    MeshRequests = {1, 2}
    Providers = {"a", "b"}
    ActiveProvider = "a"
    Catalogs <- MCCatalogs
    Slots <- MCSlots
    QuarantineAfter = 2
    OutageModels = 2
    MaxPenalty = 1
    QuarantineTicks = 1
    OutageWindow = 1
    RecoveryTasks = 3
    RotOrder <- MCOrder
    RotProvider <- MCProvider
    RotPool <- MCPool
    Buildable <- MCBuildable
    NoCredential = "-"
    MaxProviders = 3
    MaxAttempts = 3
    MaxCredentials = 2
    MaxChunks = 2
    ArchiveTasks = {1, 2}
    Plots <- MCPlots
    MaxVersions = 2
    ShardCount = 3
    RowsPerShard = 1
    OwnKeep = 2
    DefaultKeep = 1
    ArchiveHorizon = 2
CHECK_DEADLOCK FALSE
INVARIANTS
    ComponentsTypeOK
    AnswersStayProven
    TurnsAreHandedOn
    NewestViewIsNeverStranded
    AmbiguousLimitsBurnTwoCandidates
    RecoveryNeverRebuilds
    OneOwnerOfTheConnection
    FailedPairsStayOut
    ArchivedRowsStay
    ConfirmedPermissionsSurvive
    RemovedRowsStayRemoved
    SettingsOutliveOutages
PROPERTIES
    SucceededActionsNeverRepeat
    EffectsFollowTheChain
    NewcomersNeverOvertake
    ClosedPanelsStayQuiet
    DownProvidersStayOut
    RepliesFollowTheSelection
    WhatBeginsEnds
