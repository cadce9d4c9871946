SPECIFICATION FairSpec
CONSTANTS
    Apps = {1, 2}
    Contents <- MCContents
    Files <- MCFiles
    Initial <- MCInitial
    Requests = {{}}
    Platform = "present"
    Version <- MCVersion
    Template = 3
    Starter <- MCStarter
    Torn = Torn
    None = None
    MaxRuns = 2
    MaxEdits = 1
    MaxErrors = 2
    MaxKills = 1
INVARIANTS TypeOK ReportsAreTrue OneUnsettled
PROPERTY RunEnds
CHECK_DEADLOCK FALSE
