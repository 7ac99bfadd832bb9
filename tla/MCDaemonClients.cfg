\* Two client IDs of two sessions around one device, and what they are told; no suspend.
SPECIFICATION HSpec
CONSTANTS
    Device = {kbd}
    Config = {dark, blue}
    DefaultConfig = dark
    NoConfig = NoConfig
    MaxUEvents = 2
    ClientID = {c1, c2}
    Session = {s1, s2}
    NoSession = NoSession
    MaxWaits = 1
    MaxSleepMsgs = 0
    InhibitFails = FALSE
    DelayExpires = FALSE
SYMMETRY ClientSymmetry
INVARIANTS
    SessionsDistinct
    IdleDevicesReset
    ClientsAreToldTheTruth
