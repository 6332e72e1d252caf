SPECIFICATION ResearchSpec
CONSTANTS
    N = 3
    None = None
    Workers <- Members
    Outcomes <- Ends
    Pages <- TwoPages
    Domain <- OwnDomains
    Answers <- SomePages
    MinContributors = 2
    Target = 2
    MinDomains = 2
    Kinds = {"late", "raised"}
INVARIANTS ReportedOnce InTimeIsKept GivenUpForAReason ReceiptsAgree
PROPERTY ResearchEnds
