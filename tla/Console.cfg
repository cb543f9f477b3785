CONSTANTS
    Users <- MCUsers
    Founder = "enterprise_admin"
    Targets <- MCTargets
    DevBuild = TRUE
    Conversations = {c1, c2}
    None = None
    Bases = {1, 2}
    NoBase = NoBase
    Jobs = {j1}
    MaxEvents = 3
SPECIFICATION ConsoleSpec
INVARIANTS
    ConsoleTypeOK
    FailClosed
    SignedOutHoldsNothing
    ShownUserIsSessionUser
    NoEndlessThinking
    TranscriptSettles
    LatestWins
CHECK_DEADLOCK FALSE
PROPERTIES
    SessionAnswers
    NavigationSettles
    SendEnds
    DocumentsLoadingEnds
    BoardCatchesUp
    ActionsEnd
    ImplementsLatestLoad
