CONSTANTS
    Imported <- MCImported
    Files <- MCFiles
    MaxSteps = 1500
    MaxBlocks = 200
SPECIFICATION FairSpec
INVARIANTS TypeOK SameMeaning FunctionChecks
PROPERTY Ends
