---------------------------- MODULE MCLCDScreen -----------------------------
(* The plugins of a machine without temperature sensors: the mask may name *)
(* the plugin coretemp, which is not loaded.                               *)
EXTENDS LCDScreen

CONSTANTS splashscreen, systemMonitor, coretemp, endscreen

AllPlugins == {splashscreen, systemMonitor, coretemp, endscreen}
LoadedPlugins == <<splashscreen, systemMonitor, endscreen>>
FewMasks == {{}, {splashscreen}, {systemMonitor}, {coretemp}, {endscreen},
             {splashscreen, endscreen}, {systemMonitor, coretemp}}
DefaultPlugins == {splashscreen, systemMonitor}
FewFrames == [p \in AllPlugins |-> IF p = splashscreen THEN 2 ELSE 3]
=============================================================================
