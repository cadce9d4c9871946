CONSTANTS
    p1 = p1  p2 = p2  old = old  new = new
    None = None
    Processes = {p1, p2}
    Paths = {1, 3}
    Nested = {3}
    Bytes = {old, new}
    Heads <- MCHeads
    Releases <- MCReleases
    Names = {1, 2, 3}
    MaxEdits = 0
    MaxErrors = 0
    MaxKills = 0
SPECIFICATION Spec
PROPERTY SuccessIsPublished
