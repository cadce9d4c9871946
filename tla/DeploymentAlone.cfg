CONSTANTS
    p1 = p1  p2 = p2  old = old  new = new
    None = None
    Processes = {p1}
    Migrators = {p1}
    Commits = {1, 2, 3}
    Commands = {old, new}
    CommandOf <- MCCommandOf
    IsService = TRUE
    MaxFaults = 2
SPECIFICATION FairSpec
INVARIANTS PointersResolve FormerPairKept
PROPERTIES OperationsEnd
