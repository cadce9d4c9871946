CONSTANTS
    o1 = o1  o2 = o2  service = service  created = created
    None = None
    Operators = {o1, o2}
    Apps = {service, created}
    Made = created
    Manifests <- MCManifests
    Ports = {1, 2}
    Prepared <- MCPrepared
    Hosts <- MCHosts
    UiCommits = {"first", "second"}
    MaxCommands = 3
    MaxFaults = 1
    MaxEdits = 2
SPECIFICATION Spec
SYMMETRY Symmetry
INVARIANTS TypeOK DestinationKept StrangerKept
PROPERTIES OthersKept ReplacedIsBackedUp MigrationWhole PublishedIsBuilt
