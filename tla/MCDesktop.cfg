\* Two devices of one service, each file written once by whoever comes first.
SPECIFICATION DesktopFairSpec
CONSTANTS
    Device = {d1, d2}
    None = None
    MaxVersion = 1
    MaxEvents = 2
    MaxSignals = 1
INVARIANTS
    DesktopTypeOK
    FilesKeepTheirDevice
    StaleIsTold
PROPERTY
    DevicesAreListed
