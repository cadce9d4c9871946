CONSTANTS
    p1 = p1  p2 = p2  old = old  new = new
    None = None
    Processes = {p1}
    Paths = {1, 3}
    Nested = {3}
    Bytes = {old, new}
    Heads <- MCHeads
    Releases <- MCReleases
    Names = {1, 2, 3}
    MaxEdits = 1
    MaxErrors = 1
    MaxKills = 2
SPECIFICATION FairSpec
INVARIANTS TypeOK NothingLeftBehind
PROPERTIES UpdateIsAtomic FailureRestoresFiles PendingResolved
