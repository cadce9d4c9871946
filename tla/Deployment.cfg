CONSTANTS
    p1 = p1  p2 = p2  old = old  new = new
    None = None
    Processes = {p1, p2}
    Migrators = {p1}
    Commits = {1, 2}
    Commands = {old, new}
    CommandOf <- MCCommandOf
    IsService = TRUE
    MaxFaults = 1
SPECIFICATION Spec
INVARIANT TypeOK
PROPERTIES FailureRestoresPair SuccessSelects MigrationIsAtomic
