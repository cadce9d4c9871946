CONSTANTS
    c1 = c1  c2 = c2  r1 = r1  r2 = r2
    None = None  Torn = Torn
    Clients = {c1}
    Registries = {r1, r2}
    Stamps = {1}
    Backups <- MCOneBackup
    MaxHistory = 2
    MaxBatches = 2
    MaxFaults = 3
SPECIFICATION FairSpec
CHECK_DEADLOCK FALSE
PROPERTIES RecoveryTerminates
