CONSTANTS
    Proposals <- MCProposals
    Calls <- MCCalls
    Plan <- MCPlan
    Limits <- MCLimits
    MaxSessions = 2
    MaxLeft = 3
    MaxSearch = 2
SPECIFICATION FairSpec
INVARIANTS
    SessionAdmitted
    VectorOfQuery
PROPERTIES
    AnsweredInTime
    Answers
