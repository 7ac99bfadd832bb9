SPECIFICATION FairSpec
CONSTANTS
    InterfacesOf <- MCInterfacesOf
    Configuration = 2
    Interface = 1
    Settings = {"expected", "oneEndpoint", "notHID"}
    MaxErrors = 1
    MaxOpens = 2
    MaxFailures = 2
INVARIANTS
    TypeOK
    FoundAgain
    WholeOrNothing
    ThreadsEndFirst
PROPERTY UnpluggedIsClosed
CHECK_DEADLOCK FALSE
