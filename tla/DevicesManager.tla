--------------------------- MODULE DevicesManager ---------------------------
(***************************************************************************)
(* The devices manager of the daemon (src/src/bin/daemon/devicesManager)   *)
(* together with the registry its keyboard driver keeps of the devices it  *)
(* has initialized (KeyboardDriver::_initializedDevices).                  *)
(*                                                                         *)
(* Everything here runs in the main thread of the daemon: one handler at a *)
(* time, each an action.  The operators with parameters are the operations *)
(* the clients manager and the sleep inhibition call; module Daemon puts   *)
(* them together.  The listening threads appear only through the flag they *)
(* share with the main thread (USBDevice::_threadsStatus): dead is the set *)
(* of devices for which it is false.                                       *)
(*                                                                         *)
(* _detectedDevices is filled and cleared inside a single handler by an    *)
(* enumeration of the bus, so it is never more than the set plugged.       *)
(***************************************************************************)
EXTENDS Naturals, FiniteSets, Sequences

CONSTANTS
    Device,         \* device IDs (bus and number)
    Config,         \* what a device can be told to show: backlight colour, LCD plugins
    DefaultConfig,  \* what resetDeviceState() makes it show
    MaxUEvents      \* bound: udev events waiting in the monitor socket

ASSUME DeviceAssumption == IsFiniteSet(Device)
ASSUME ConfigAssumption == DefaultConfig \in Config
ASSUME MaxUEventsAssumption == MaxUEvents \in Nat

VARIABLES
    plugged,        \* environment: devices on the bus
    uevents,        \* environment: udev events not yet received, oldest first
    daemonRunning,  \* DaemonControl::daemonized
    phase,          \* where the main thread is in GLogiKDaemon::run()
    started,        \* keys of _startedDevices
    stopped,        \* keys of _stoppedDevices
    unplugged,      \* keys of _unpluggedDevices, never erased
    sleeping,       \* _sleepingDevices
    initialized,    \* keys of KeyboardDriver::_initializedDevices
    dead,           \* opened devices whose threads gave up
    config,         \* the configuration each opened device shows
    numClients,     \* _numClients, a uint8_t
    out             \* the signals broadcast by the last step

environmentVars == <<plugged, uevents>>
deviceVars == <<started, stopped, unplugged, sleeping, initialized, dead, config>>
controlVars == <<daemonRunning, phase>>

Phases == {"starting", "monitoring", "draining", "exited"}

(* A signal of the daemon, with the devices it names. *)
SignalNames == {"DevicesStarted", "DevicesStopped", "DevicesUnplugged",
                "DaemonIsStarting", "DaemonIsStopping", "ReportYourself"}
Signal == [name : SignalNames, devices : SUBSET Device]

(* sendStatusSignalArrayToClients(): nothing is sent for n = 0 clients nor *)
(* once the daemon is about to exit.                                       *)
StatusSignal(n, signal, devices) ==
    IF n = 0 \/ ~daemonRunning \/ devices = {}
    THEN <<>>
    ELSE <<[name |-> signal, devices |-> devices]>>

(* sendSignalToClients(): a forced signal is sent without clients, and      *)
(* DaemonIsStopping by a daemon that is about to exit.                     *)
SignalToClients(n, signal, forced) ==
    IF (n = 0 /\ ~forced) \/ (~daemonRunning /\ signal # "DaemonIsStopping")
    THEN <<>>
    ELSE <<[name |-> signal, devices |-> {}]>>

(* getDeviceStatus() *)
DeviceStatus(d) ==
    CASE d \in started   -> "started"
      [] d \in stopped \ started -> "stopped"
      [] d \in unplugged \ (started \cup stopped) -> "unplugged"
      [] OTHER -> "unknown"

DevicesManagerInit ==
    /\ plugged \in SUBSET Device
    /\ uevents = <<>>
    /\ daemonRunning = TRUE
    /\ phase = "starting"
    /\ started = {}
    /\ stopped = {}
    /\ unplugged = {}
    /\ sleeping = {}
    /\ initialized = {}
    /\ dead = {}
    /\ config = [d \in Device |-> DefaultConfig]
    /\ numClients = 0
    /\ out = <<>>

-----------------------------------------------------------------------------
(* Operations on the devices, in terms of the set they are applied to.     *)

(* The configuration once the devices of S are reset or closed. *)
ResetConfig(S) == [d \in Device |-> IF d \in S THEN DefaultConfig ELSE config[d]]

(* KeyboardDriver::closeDevice() *)
CloseDevices(S) ==
    /\ initialized' = initialized \ S
    /\ dead' = dead \ S
    /\ config' = ResetConfig(S)

(* KeyboardDriver::initializeDevice() and openDevice() on the devices of S: *)
(* those of opened are opened, those of kept fail before their threads are  *)
(* spawned (their entry stays), the others fail when a thread is spawned    *)
(* (closeDevice() erases the entry).                                        *)
OpenOutcome(S, opened, kept) ==
    /\ opened \subseteq S \cap plugged
    /\ kept \subseteq S \ opened

OpenDevices(S, opened, kept) ==
    /\ OpenOutcome(S, opened, kept)
    /\ initialized' = (initialized \ S) \cup opened \cup kept
    /\ dead' = dead \ S

(* Mutant: a device is erased, not moved to the stopped ones. *)
StopDevicesLosesThem(S) == started' = started \ S /\ UNCHANGED stopped /\ CloseDevices(S)

(* DevicesManager::stopDevice() on the started devices of S *)
StopDevices(S) ==
    /\ started' = started \ S
    /\ stopped' = stopped \cup S
    /\ CloseDevices(S)

(* DevicesManager::startDevice() on the stopped devices of S *)
StartDevices(S, opened, kept) ==
    /\ OpenDevices(S, opened, kept)
    /\ started' = started \cup opened
    /\ stopped' = stopped \ opened

-----------------------------------------------------------------------------
(* Steps of startMonitoring().                                             *)

(* searchSupportedDevices(): the supported devices of the bus, whose       *)
(* attributes are read again from udev for each event.                     *)
Detected == plugged

(* The first enumeration: initializeDevices(true).  A device that cannot   *)
(* be opened is neither started nor stopped.                               *)
StartMonitoring(opened, kept) ==
    /\ phase = "starting"
    /\ phase' = "monitoring"
    /\ OpenDevices(Detected, opened, kept)
    /\ started' = opened
    /\ out' = StatusSignal(numClients, "DevicesStarted", opened) \o
              SignalToClients(numClients, "DaemonIsStarting", TRUE)
    /\ UNCHANGED <<plugged, uevents, daemonRunning, stopped, unplugged, sleeping,
                   config, numClients>>

ReceiveUEvent(action) ==
    /\ phase = "monitoring"
    /\ uevents # <<>>
    /\ Head(uevents) = action
    /\ uevents' = Tail(uevents)
    /\ UNCHANGED <<plugged, daemonRunning, phase, numClients>>

(* An "add" event: initializeDevices(false) puts the devices that are      *)
(* neither started nor stopped with the stopped ones, without opening them. *)
HotplugAdd ==
    LET new == Detected \ (started \cup stopped) IN
    /\ ReceiveUEvent("add")
    /\ stopped' = stopped \cup new
    /\ initialized' = initialized \cup new
    /\ out' = StatusSignal(numClients, "DevicesStopped", new)
    /\ UNCHANGED <<started, unplugged, sleeping, dead, config>>

(* The devices of S that the enumeration did not detect; mutant: all are   *)
(* taken as detected.                                                      *)
GoneNever(S) == {}
Gone(S) == S \ Detected

(* A "remove" event: checkForUnpluggedDevices() closes the started devices *)
(* that are gone and erases the stopped ones, whose entry in the driver    *)
(* stays.                                                                  *)
HotplugRemove ==
    LET goneStarted == Gone(started)
        goneStopped == Gone(stopped) IN
    /\ ReceiveUEvent("remove")
    /\ started' = started \ goneStarted
    /\ stopped' = stopped \ goneStopped
    /\ unplugged' = unplugged \cup goneStarted \cup goneStopped
    /\ CloseDevices(goneStarted)
    /\ out' = StatusSignal(numClients, "DevicesUnplugged", goneStarted \cup goneStopped)
    /\ UNCHANGED sleeping

(* The devices whose threads gave up. *)
Lost == started \cap dead

(* checkInitializedDevicesThreadsStatus(): every tenth turn of the loop    *)
CheckThreads ==
    /\ phase = "monitoring"
    /\ Lost # {}
    /\ StopDevices(Lost)
    /\ out' = StatusSignal(numClients, "DevicesStopped", Lost)
    /\ UNCHANGED <<environmentVars, controlVars, unplugged, sleeping, numClients>>

-----------------------------------------------------------------------------
(* Operations called on suspend, on resume and by the destructor.          *)

(* Mutant of the next definition: every known device is to be started.     *)
StopInitializedDevicesAll ==
    /\ sleeping' = started \cup stopped
    /\ StopDevices(started)
    /\ UNCHANGED unplugged

StopInitializedDevices ==
    /\ sleeping' = started
    /\ StopDevices(started)
    /\ UNCHANGED unplugged

(* Mutant of the next definition: _sleepingDevices is not cleared.         *)
StartSleepingDevicesUncleared(opened, kept) ==
    /\ StartDevices(sleeping \cap stopped, opened, kept)
    /\ UNCHANGED <<sleeping, unplugged, config>>

(* Each device that was started before the suspend and is still stopped    *)
(* is started again.  No signal is sent.                                   *)
StartSleepingDevices(opened, kept) ==
    /\ StartDevices(sleeping \cap stopped, opened, kept)
    /\ sleeping' = {}
    /\ UNCHANGED <<unplugged, config>>

-----------------------------------------------------------------------------
(* What the hardware and the threads do.                                   *)

(* Device numbers are handed out in turn, so that a number is used again   *)
(* only long after the removal of its previous owner was handled.          *)
Plug(d) ==
    /\ d \notin plugged \cup started \cup stopped
    /\ Len(uevents) < MaxUEvents
    /\ plugged' = plugged \cup {d}
    /\ uevents' = Append(uevents, "add")
    /\ out' = <<>>
    /\ UNCHANGED <<controlVars, deviceVars, numClients>>

Unplug(d) ==
    /\ d \in plugged
    /\ Len(uevents) < MaxUEvents
    /\ plugged' = plugged \ {d}
    /\ uevents' = Append(uevents, "remove")
    /\ out' = <<>>
    /\ UNCHANGED <<controlVars, deviceVars, numClients>>

(* checkDeviceFatalErrors(): a thread of the device gives up.  A device    *)
(* that is gone can only fail; a USB reset makes one fail as well.         *)
ThreadsGiveUp(d) ==
    /\ d \in started \ dead
    /\ dead' = dead \cup {d}
    /\ out' = <<>>
    /\ UNCHANGED <<environmentVars, controlVars, started, stopped, unplugged,
                   sleeping, initialized, config, numClients>>
=============================================================================
