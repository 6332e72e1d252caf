SPECIFICATION RaceSpec
CONSTANTS
    N = 3
    Workers = {1, 2, 3}
    Outcomes = {"answer", "empty", "failed", "outage", "skipped", "swallowed", "scope"}
    None = None
INVARIANTS NoAnswerLost ReceiptsTrue SpendsAtMostTwo
PROPERTIES SearchEnds
