CONSTANTS
    p1 = p1  p2 = p2
    None = None
    Processes = {p1, p2}
    Sources <- MCSources
    MaxRuns = 2
    MaxFaults = 2
SPECIFICATION Spec
INVARIANTS TypeOK ThemeKept
PROPERTIES FailureRestores SuccessServes
SYMMETRY Symmetry
