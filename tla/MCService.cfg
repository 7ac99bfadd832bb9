SPECIFICATION SFairSpec
CONSTANTS
    Device = {d1}
    Session = {s1}
    ClientID = {c1}
    Config = {dark, blue}
    DefaultConfig = dark
    NoSession = NoSession
    NoConfig = NoConfig
    NoID = NoID
    NoDevice = NoDevice
    MaxUEvents = 1
    MaxWaits = 1
    MaxSleepMsgs = 0
    InhibitFails = FALSE
    DelayExpires = FALSE
    MaxDaemons = 2
    MaxSignals = 2
INVARIANTS
    ServiceTypeOK
    ContainersMatchDaemon
    ActiveConfigShown
    RegistrationAgreed
PROPERTIES DaemonIsBack
