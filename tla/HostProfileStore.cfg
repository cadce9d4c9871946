CONSTANTS
    c1 = c1  c2 = c2  r1 = r1  r2 = r2
    None = None  Torn = Torn
    Clients = {c1, c2}
    Registries = {r1, r2}
    Stamps = {1, 2}
    Backups <- MCBackups
    MaxHistory = 3
    MaxBatches = 1
    MaxFaults = 2
SPECIFICATION Spec
SYMMETRY Symmetry
CHECK_DEADLOCK FALSE
INVARIANTS TypeOK HistoryIsChain ProfileIsTip UnsafeOnlyIfTorn
PROPERTIES MarkerNotOverwritten MarkerLast ImplementsRegister
