\* Three plugins, one that is not loaded, masks set twice.
SPECIFICATION FairSpec
CONSTANTS
    splashscreen = splashscreen
    systemMonitor = systemMonitor
    coretemp = coretemp
    endscreen = endscreen
    Plugin <- AllPlugins
    Masks <- FewMasks
    Plugins <- LoadedPlugins
    Default <- DefaultPlugins
    End = endscreen
    Blank = Blank
    MaxFrames <- FewFrames
    FrameCounters = 5
    MaxMasks = 2
INVARIANTS
    EndscreenIsLast
PROPERTIES
    MaskIsObeyed
