CONSTANTS
    p1 = p1  p2 = p2  old = old  new = new
    None = None
    Processes = {p1, p2}
    Migrators = {p1}
    Commits = {1, 2}
    Commands = {old, new}
    CommandOf <- MCCommandOf
    IsService = TRUE
    MaxFaults = 0
SPECIFICATION Spec
INVARIANTS JobRunsRegistered
