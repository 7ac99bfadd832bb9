\* One device, one client, a machine that suspends while calls to logind fail,
\* and who stopped the device.
SPECIFICATION RSpec
CONSTANTS
    Device = {kbd}
    Config = {dark, blue}
    DefaultConfig = dark
    NoConfig = NoConfig
    MaxUEvents = 1
    ClientID = {c1}
    Session = {s1}
    NoSession = NoSession
    MaxWaits = 1
    MaxSleepMsgs = 2
    InhibitFails = TRUE
    DelayExpires = TRUE
INVARIANTS
    IndInv
    StoppedStaysStopped
