\* Two devices and one client, in the order of a fair main loop; no suspend.
SPECIFICATION FairSpec
CONSTANTS
    Device = {kbd1, kbd2}
    Config = {dark}
    DefaultConfig = dark
    NoConfig = NoConfig
    MaxUEvents = 1
    ClientID = {c1}
    Session = {s1}
    NoSession = NoSession
    MaxWaits = 1
    MaxSleepMsgs = 0
    InhibitFails = FALSE
    DelayExpires = FALSE
PROPERTIES
    LifecycleSpec
    Exits
    LostIsNotStarted
