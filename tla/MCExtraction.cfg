SPECIFICATION Spec
CONSTANTS
    Files <- MCFiles
    MaxEntry = 2
    MaxTotal = 3
    MaxEntries = 4
    MaxTokens <- MCTokens
    MaxRuns = 3
    Calls = {c1, c2}
    Configured = {deu, eng}
    Languages = {deu, eng}
    MaxPages = 3
    PageLimit = 2
    MaxFaults = 1
INVARIANTS
    TextIsExact
    ReadsAreBounded
    CallsShareOnlyLanguages
CHECK_DEADLOCK FALSE
