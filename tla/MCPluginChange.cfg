SPECIFICATION ChangeSpec
CONSTANTS
    h = h
    c = c
    a = a
    b = b
    None = None
    Versions <- MCVersions
    Contents <- MCContents
    Actors <- MCActors
    Inherited <- MCInherited
    Host <- h
    Cli <- c
    Catalogs <- MCCatalogs
    Sources <- MCSources
    Requests <- MCRequests
    Empty = Empty
    Garbled = Garbled
    Missing = Missing
    Settings <- MCSettings
INVARIANTS
    IndexIsCoherent
    ActiveContractLoads
    ConfirmedIsExecuted
CHECK_DEADLOCK FALSE
