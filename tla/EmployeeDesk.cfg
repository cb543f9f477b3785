SPECIFICATION DeskSpec
CONSTANTS
    None = "none"
    Employees <- MCEmployees
    Categories = {"hr", "media"}
    CategoryOf <- MCCategoryOf
    Runnable <- MCEmployees
    Conversations <- MCConversations
    AgentOf <- MCAgentOf
    Calls = {k1, k2}
    k1 = k1
    k2 = k2
INVARIANTS RightEmployee TranscriptIsEmployees SendingIsSomeones
PROPERTY FollowsAtOnce
SYMMETRY MCSymmetry
