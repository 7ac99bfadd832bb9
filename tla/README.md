# A specification of GLogiK

GLogiK handles the special keys of Logitech G510/G510s keyboards on Linux. A
privileged daemon (`GLogiKd`) owns the devices; each graphical session runs a
desktop service (`GLogiKs`) that registers with the daemon over D-Bus, keeps
the user's configuration and runs macros; a launcher starts and restarts the
service; a Qt program shows and edits the configuration.

This directory holds TLA+ modules translated from the C++ sources, TLC
configurations that check them on small instances, and proofs checked by TLAPS.
The program has no test suite: what is stated here comes from the code, its
comments and `NEWS.md`. Paths below are relative to `src/src/`.

## 1. Inventory

| Component | State it keeps | Operations | Talks to | Modelled in |
|---|---|---|---|---|
| Process (`bin/daemon/daemon.cpp`, `daemonControl.cpp`) | the running flag; where `run()` is | start, SIGTERM, exit sequence | everything below | `Daemon`; killed and started again in `Service` (privileges, PID file, command line: no) |
| Devices manager (`bin/daemon/devicesManager.cpp`) | maps of started, stopped and unplugged devices, list of sleeping ones, number of clients | enumeration, hotplug, removal, check of the threads, start, stop, suspend, resume | driver; clients by signals | `DevicesManager` |
| Clients manager and clients (`clientsManager.cpp`, `client.cpp`) | connected clients with session, state, check and ready flags and a configuration per device; `_numActive` | 13 D-Bus methods of which 9 change state; waiting for clients at the exit | devices manager, services | `ClientsManager` |
| Signals (`clientsSignals.cpp`) | – | status signals, `ReportYourself`, `DaemonIsStarting/Stopping` | services | `DevicesManager` (`StatusSignal`, `SignalToClients`), received in `Service` |
| Sleep inhibition (`sleepInhibition.cpp`) | delay lock, subscription | inhibit, handle `PrepareForSleep` | logind, devices manager | `Daemon` |
| Keyboard driver (`keyboardDriver.cpp`) | registry of initialized devices, threads; per device the LED mask, the recorded macro, flags shared by threads | open, reset, configure, close; the loops of two threads per device | USB layer, plugins manager, services by signals | `DevicesManager` (seen from the main thread), `MacroRecording`, `LCDScreen`, `GKeysMacro`, `USBDevice` (spawning and joining) |
| Logitech driver (`logitechG510.cpp`) | tables of keys | what a report presses, LEDs | USB layer | `MacroRecording`, `LCDScreen`, `GKeysMacro` |
| LCD plugins (`LCDScreenPluginsManager.cpp`, `LCDPlugins/`) | current plugin, lock, frame counter | next frame, lock, jump | driver | `LCDScreen` (drawing: no) |
| USB access (`libusb.cpp`, `usbinit.cpp`, `USBDevice*.cpp`) | handle, claimed interfaces, interfaces whose kernel driver was detached, endpoints, error counter | open, configure, detach, claim, find endpoints, transfers, release, attach, close | kernel, the two threads | `USBDevice` (`hidapi.cpp`, the other backend: no) |
| Service: D-Bus handler (`bin/service/DBusHandler.cpp`, `service.cpp`) | registration status, client ID, session state | register, retry, report state, react to signals and restarts, leave | daemon, launcher, session manager, GUI | `Service` towards the daemon, `Desktop` towards the GUI |
| Service: devices handler (`bin/service/devicesHandler.cpp`) | started and stopped devices, their file names and watch descriptors, notifications to ignore | start, stop, unplug, clear, save, reload | daemon, inotify, files | `DevicesHandler` on `FSNotify`; the containers also in `Service` |
| Service: keys (`GKeysEventManager.cpp`, `virtualKeyboard.cpp`) | banks of macros and commands | store a recorded macro, run one | uinput | `ServiceKeys` (spawning of commands: no) |
| Macros (`lib/shared/GKeysMacro.cpp`, `include/MBank.hpp`) | – | repair and cut a recorded macro | driver, service | `GKeysMacro`, `ServiceKeys` |
| Launcher (`bin/launcher/`) | time of the last spawn | spawn, drop early requests | service, GUI | `Desktop` |
| D-Bus library (`lib/dbus/`) | registry of events, match rules, introspection; message objects; async arguments | register, remove, append and read arguments, call, reply, error, signal | libdbus | `DBusEvents`, `DBusArguments`, `DBusExchange`, composed in `DBusProgram` |
| Files and processes (`lib/utils/`) | watches with counts | watch, unwatch, read events, make directories | inotify | `FSNotify` (fork, signal handlers, PID file: no) |
| Shared (`lib/shared/`) | properties of devices, X session | load, save, die | libSM | load and save in `DevicesHandler` and `Desktop` |
| GUI (`bin/gui/`) | selected device, opened file, what tabs show, ignored signal | start, list, select, apply, update on a signal, message boxes | service, daemon, launcher | `Desktop` (layout of the widgets: no) |

### What is hard

* **One thread, many handlers.** All handlers of the daemon run in its main
  thread: udev, D-Bus, timers and logind are read one after the other. No two
  handlers overlap, but any may follow any: the four maps, the registry of the
  driver and the counters must agree after every sequence of calls.
* **Two threads per device**, which share members of `USBDevice` with the main
  thread: atomics without a lock (LED mask, exit flag of the recording, threads
  status), a mutex for the LCD key and mask only, and nothing for the state of
  the plugins manager; nor for the one object with which all threads build
  their D-Bus signals.
* **Clients crash, are evicted, come back; so does the daemon.** The daemon
  learns it only by a check flag that is cleared by one registration and looked
  at by the next; the service by signals and by calls that fail.
* **Calls and signals overlap.** A service asks for lists of devices while
  signals about the same devices queue up behind the reply.
* **Everybody writes the same file.** The service saves macros, the GUI saves
  what the user applies, an editor saves what it likes. Each must reload what
  the others wrote and ignore what it wrote itself, which it knows only by a
  flag.
* **Suspend and resume** are announced by signals; the delay lock is
  best-effort.
* **Devices disappear** while started, stopped, sleeping or being opened; every
  USB call can fail, and what was done before it must be undone.
* **Reports of the keyboard** are missed before a recording begins, so that
  what a recorded macro presses and releases need not match.

`PROJECT.json` lists the hazards line by line, with the property that covers
each one or the reason why none does.

### What has to be true, by component

* devices manager: a device is in one map, a started one is known to the
  driver; statuses follow a lifecycle; what is gone or dead is closed; the
  resume starts only what the suspend stopped; clients know the statuses;
* clients manager: one client per session; `_numActive` is exact; no user's
  colours stay when nobody is active;
* process: the exit ends whatever clients do;
* driver: the M key enabled is the one clients were told, unless the signal about
  it was abandoned; closing a device gets its threads back and leaves it dark,
  unless the last report about the LEDs was not delivered;
* USB: the keyboard is given back as it was found; a start takes the keyboard
  whole or leaves it to the kernel as it was (not what the comments say, that a start
  throws on any failure); an unplugged device is closed;
* LCD: only enabled plugins are shown, whatever the races; the endscreen is last,
  unless its frame was not delivered or the main thread stores a stale count;
* macros: no key stays pressed; what is stored is what was recorded;
* service: after its signals it has the devices where the daemon has them, and
  they show its configuration; it is registered again when the daemon is back;
* devices handler: one file per device; watches live as long as their devices;
  no notification brings an older configuration back;
* D-Bus library: values arrive, exceptions as errors; callers are answered; rules
  and introspection follow the registry;
* GUI: no file gets another device's settings, unless it is saved from a window
  that failed to read what it shows; a stale view is told, unless the GUI took
  the signal about it for the one about its own save; devices are listed in the end,
  unless their signal came just before the GUI listened.

## 2. Modules

| Module | Content |
|---|---|
| `DevicesManager` | variables and operations of the devices manager and of the driver's registry; udev |
| `ClientsManager` (extends it) | clients and their D-Bus methods |
| `Daemon` (extends it) | exit sequence, suspend and resume, the environment; `Init`, `Next`, `Spec`, fairness |
| `DaemonProperties` | type invariant, safety, the inductive invariant, liveness; the instance of `DeviceLifecycle` |
| `DeviceLifecycle` | abstract specification: how the status of a device may change |
| `DaemonHistory`, `DaemonResume` | the daemon with a history of what its clients were told; of what was stopped when no suspend was under way |
| `Service` (extends `DaemonProperties`) | desktop services composed with the daemon: calls, queues of signals, crashes and restarts of both |
| `MacroRecording` | listening thread and main thread of one device: M keys, MR, recording, reset, close |
| `LCDScreen` | LCD thread, listening thread and main thread of one device: plugins, locks, masks |
| `USBDevice` | libusb calls of the main thread, spawning, ending and joining of the two threads, the kernel's side of the device |
| `GKeysMacro` | reports of standard keys, recorded events, `checkMacro()` |
| `ServiceKeys` (extends it) | signals about G keys, banks of the service, the virtual keyboard |
| `FSNotify` | watches of the service and the inotify queue |
| `DevicesHandler` (extends it) | devices of the service, their configuration files, saves and reloads, other programs that write |
| `DBusArguments` | how arguments are written and read, for every signature of a callback |
| `DBusExchange` (extends it) | method calls with their replies, errors and timeouts; signals built by several threads |
| `DBusEvents` | registry of events, match rules, introspection |
| `DBusProgram` (extends both) | a program that exposes its events, exchanges messages, and removes its interfaces |
| `Desktop` | launcher, service and GUI of a session around the configuration files |
| `*Proofs` | TLAPS proofs: `SystemProofs` (the daemon, with `DaemonResume` and `DaemonHistory`, and the services), `KeysProofs`, `MacroRecordingProofs`, `LCDScreenProofs`, `USBDeviceProofs`, `DevicesHandlerProofs`, `DBusProofs`, `DesktopProofs` |
| `MC*` | instances for TLC: symmetry sets, structured constants |

### How state and actions correspond to the code

**Daemon.** Variables carry the names of the members. `started`, `stopped`,
`unplugged` and `initialized` are the key sets of the maps (the values of the
maps are fixed by the key); `dead` is the set of devices whose
`_threadsStatus` is false; `config` is what an open device shows (colour and
LCD plugins as one value); `connected` and `client` are
`_connectedClients`; `out` holds the signals of the last step. An action is a
whole handler: `RestartDevice`, for example, stops the device, starts it with a
nondeterministic outcome, pushes the configuration of the active user and sends
the one signal that the code sends. The outcomes of opening are three, as in
`openDevice()`: opened; failed and the entry stays; failed at the spawning of a
thread and the entry is erased. udev tells `add` or `remove`; the device
concerned is found, as in the code, by enumerating what is on the bus *now*
(`plugged`), which may be more or less than what the event was about. A call
that is refused before it changes anything is not an action.

`uint8_t` counts of clients are taken modulo 256. `_numActive` is an unsigned
counter; the type invariant says it never goes below zero.

**Service.** A step of a service is one call to the daemon with what the service
does with the reply; `todo` holds the calls the running handler has still to
make, `inbox` the signals it has not read. Between two calls the daemon may do
anything, be killed (`DaemonDies`) or be gone, in which case calls fail and the
handler goes on, as the code does after logging the exception. Signals reach
the services that have declared them, in order. `login` is what logind answers.

**MacroRecording.** A step is one access to a member that the threads share:
reading `_MxKeysLedsMask`, resetting it, setting a bit in it, testing it,
setting or testing `_exitMacroRecordMode`. The main thread resets the device
(when the last active client leaves), sets a configuration (when a user becomes
active) and closes the device. The mask is read once when the LEDs are sent
(the code reads it once per LED, without any other access between). A report
for the LEDs is skipped when `requests` is off (`closeDevice()` of a device that is
gone or whose threads gave up) and may fail at any time, which the code only logs:
`lost` (history) tells that the last report was not delivered. Transfers that read
keys are skipped as well (`SkipTransfer`). The signal that tells a change of bank may be
abandoned, when another thread is building one (`signals_interfere`); the mask
is not set back: `untold` (history). `Reports` are the keys that are pressed at
once. A thread that has not registered its ID yet is not joined.

**LCDScreen.** Only the key and the mask are under a mutex (`Take`, `SetMask`, `PressKey`).
Everything else is one step per access to the members of the plugins
manager: the LCD thread reads and stores the count (`ReadCount`, `StoreCount`), compares it
with the frames of the current plugin (`CompareCount`), goes from plugin to plugin
(`Scan`), resets the count (`ResetCount`) and transfers the frame (`Draw`); at the end of its
loop it unlocks and jumps first (`UnlockAtEnd`, `JumpAtEnd`). The main thread unlocks,
looks at the current plugin, and, if it is not enabled, jumps in three steps: it
unlocks, reads the plugin's frames, stores them as the count (`JumpUnlocks`,
`JumpReadsFrames`, `JumpStoresCount`). A scan that finds no plugin shows a blank screen and
leaves the counter, which wraps. A transfer may be skipped or fail: `lost`
(history). `overtaken` (history): the main thread has stored a count that it read for
a plugin with fewer frames than the one the LCD thread is at when it looks for the
endscreen.

**USBDevice.** `pc` is the call the main thread makes next, from `libusb_open()`
to `libusb_close()`; each call may fail (`failures`, at most `MaxFailures` while
the device is there) and always fails once it is unplugged. `entry` numbers the
entries of `_initializedDevices`: a thread holds a reference (`ref`) to the one
it was spawned for, records its own ID in it when it starts, and is joined only
if it has. `found`, `spoiled` and `overtaken` are history: the drivers met at
`libusb_open()`; a call of the way back has failed or was skipped; a close was
faster than the start of a thread. A configuration descriptor that cannot be
read, or an interface that is not for a HID device, makes
`findUSBDeviceInterface()` return with nothing claimed, and the start goes on
(`LeftAlone`); otherwise a device that is started is claimed and complete
(`TakenWhole`).

**GKeysMacro, ServiceKeys.** `KeyReport` is one report of 8 bytes: modifier bits
compared by subtraction, slots compared from the last to the first, both limits
of the size. The loops of the code over the events of a report, of a macro and of what
is played are recursive functions of the number of steps made (`Fill`,
`Matched`, `Run`); intervals are left out. `Playable` is the reference definition: in every prefix no key is
released more often than pressed, and in the whole as often. The service checks
a macro again when it stores it, and plays it event by event.

**FSNotify, DevicesHandler.** A configuration is the number of the change that
produced it, a file one of these, `Absent` or `Garbage`. `live` and `directory` are
the kernel's: a watch follows the directory it was put on, not the path. A save
notes first that the next notification of this device is to be ignored
(`ignored`), then writes; `CheckNotifyEvents` reads everything that is queued,
drops equal neighbours as inotify does, and reloads what is not to be ignored.
`mishap` (history) says that a watch or a name could not be had.

**DBusArguments, DBusExchange, DBusEvents.** A message body is the sequence of its
basic values, since reading fills one queue per basic type; strings are their
lengths, because 0 is what the code treats apart. A loop that reads is `InTurn`: a
recursive function of the number of values read, which the first exception
ends. Every `SIG*` class is an entry of the table of signatures; `Values` says
what programs send, of each type. A call is sent, served by the main thread of the
peer, and answered by a reply, by an error followed by a default reply (as in
the code after an exception), or not before the timeout. `meant` (history) is
what the sender wanted to say. libdbus is external.

**Desktop.** The GUI's handlers are cut at their calls to the service. `of` is the
set of devices whose settings a file is made of, `version` tells successive
contents apart. A save of the service truncates the file, then writes it; a service
that is killed between leaves it empty (`truncated`), and a load of such a
file fails. `box` is an open message box: it is opened by the callback of a
signal, inside the slot of the timer that reads messages and with the
non-recursive mutex of `GKDBus::checkForMessages()` locked (`GKDBus.cpp:173`), so that no
message is read, and no other box opened, before it is closed. Three variables
are history. `misread`: what the tabs show could not be read, the file or the list of
plugins; a load that fails leaves the settings of the device before. `swallowed`: a
signal about the service's own write was taken for the answer to the GUI's save. Both
are about the view of the moment and end when the file is read again.
`spoiled` holds the devices whose file was saved while `misread`.

## 3. Runs

| Run | Shows |
|---|---|
| `clients` | `SessionsDistinct`, `IdleDevicesReset`, `ClientsAreToldTheTruth`: two IDs, two sessions, one device; what the signals tell is the status of every device |
| `devices` | `LifecycleSpec` (refinement), and under fairness `Exits`, `LostIsNotStarted`: two devices, one client |
| `sleep` | the inductive invariant `IndInv`, with failing calls to logind and a delay that expires; `StoppedStaysStopped`: over any number of suspends, no resume starts what was stopped before |
| `macro_recording` | `TypeOK`, `BankTold`, `ClosedIsDark`: all interleavings of the two threads, with reports that are skipped or fail and signals that are abandoned; under fairness `CloseEnds`: closing a device always joins its thread |
| `lcd` | `EndscreenIsLast`, and under fairness `MaskIsObeyed`: four plugins (one not loaded), two changes of the mask, lost frames |
| `macro` | `KeysTypeOK`, `ShortMacrosAreRepaired`, `NoKeyStaysDown`, `StoredAsSent`: all reports of a small keyboard, from the recording to the virtual keyboard |
| `files` | `TypeOK`, `OneFilePerDevice`, `WatchesFollowUse`, `ConfigurationIsNotReverted`: three devices, one directory, the service and another program |
| `service` | `ServiceTypeOK`, `ContainersMatchDaemon`, `ActiveConfigShown`, `RegistrationAgreed`, and under fairness `DaemonIsBack`: the service of one session, two lives of the daemon |
| `dbus` | `ProgramTypeOK`, `RegistryAgrees`, `ValuesArrive`, and under fairness `EveryCallIsAnswered`: every signature, two messages |
| `signals_interfere` (violated) | `SignalHasOneBuilder`: the listening thread and the main thread build a signal in the same object |
| `usb` | `TypeOK`, `FoundAgain`, `WholeOrNothing`, `ThreadsEndFirst`, and under fairness `UnpluggedIsClosed`: two starts, two failures |
| `desktop` | `DesktopTypeOK`, `FilesKeepTheirDevice`, `StaleIsTold`, and under fairness `DevicesAreListed`: two devices of one session, whose service is restarted, and killed while it writes |

The violated run is a finding in `PROJECT.json`, with the line it contradicts.

Every passing property has a *mutant*: an operator next to the definition it
mutates (its comment says which plausible mistake it makes) that makes TLC
report the property violated.

Deadlock is checked except where a bound ends every behaviour (`dbus` and
`signals_interfere`: messages; `files`: changes and failures; `usb`: starts); elsewhere
a process that has ended stutters explicitly.

### Bounds, and why they are enough

* Devices: 2 in `devices`, since maps interact through an enumeration that
  handles several devices in one handler, and 2 in `desktop`, since a selection
  can be mixed up with another; 3 in `files`, so that the names (2) run out; 1
  elsewhere.
* Clients: 2 IDs and 2 sessions in `clients`, enough for eviction,
  re-registration of a session and two active clients. IDs and sessions are
  symmetric there, where no temporal property is checked.
* `MaxUEvents` (2 in `clients`, else 1): udev events that wait. Two let events be
  handled when the bus has changed again.
* `MaxWaits` (40 in the code, 1 here) only counts turns; `MaxSleepMsgs` 2
  lets a suspend be announced before the resume of the previous one is handled.
* `Config`: the default and one other value; two where clients set them.
* `service`: one session. `MaxDaemons` 2, so that a registration may be with a
  daemon that is gone; `MaxSignals` 2, so that what was asked for and what is
  told overlap. No suspend (see the hazards for what it would show).
* M keys: 2, since a change of bank concerns the key before and the one after;
  the device has 3. `Reports`: no key, each key alone, both M keys, M keys with MR, a G key with MR.
* LCD: a plugin lasts 2 or 3 frames instead of 10 to 20, so that a count that
  was read for one is too small for another; `FrameCounters` 5 instead of 2^16,
  so that the counter wraps; `MaxMasks` 2, so that a second mask comes while the
  first is obeyed; 7 of the 16 masks: 0, each plugin alone, two pairs.
* Macros: limits 6 and 4 instead of 24 and 16; one slot and two modifiers
  instead of six and eight, so that three keys may be down at once. As in the
  code the cut is reached only with about half of the limit of presses still
  down.
* `files`: 4 descriptors, so that a watch that was removed is not confused with
  a new one; `MaxFileName` 2 (10 in the code); `MaxChanges` 1 still gives a
  configuration older than another; `MaxEvents` 2 for events that are merged and
  events that are not; `MaxFailures` 1: a failure followed by a success.
* `dbus`: two or three values per type, both ends of ranges and the empty
  string and array among them; `MaxMessages` 2 and `MaxFailures` 1: a call that
  times out is followed by another message. Five events of two objects and two
  interfaces that share a match rule; `MaxObjects` 1.
* `usb`: `MaxOpens` 2, so that a second start may meet what the first one left;
  two configurations, the wanted one with two interfaces; `MaxErrors` 1
  (3 in the code); `MaxFailures` 2: a failure and another one while undoing.
* `desktop`: one write of each file after the first, one unread signal, two
  things that happen to the service: enough to kill it while it writes and start
  another one, and to select one device after the other. The theorems about it have
  no bound.

No bound cuts a behaviour inside a handler.

### Fairness

* `Daemon`: each turn of the main loop receives a udev event if there is one,
  checks the threads periodically (`Start`, `UEvent`, `ThreadsCheck`) and tests
  the running flag (`LeaveLoop`); the exit sequence (`Wait`, `Exit`) depends on no
  other process. Weak fairness of each while the machine is awake. Nothing is
  assumed of clients, users, udev or logind.
* `Service`: the main loop polls the buses every 150 ms, so a call that can be
  made and a signal that is queued are dealt with. Nothing is assumed of the
  daemon, which may stay away.
* `MacroRecording`: both threads are scheduled; transfers have a timeout of
  10 ms (`Timeout` is a step of the thread; no transfer has to succeed). Nobody has
  to press a key, to reset or to close the device; a close that has begun goes on.
* `LCDScreen`: LCD thread and main thread are scheduled (`LCDStep`, `MainStep`). Nobody
  has to press a key or to set a mask, and no transfer has to succeed: that frames are
  transferred again and again is a hypothesis of `MaskIsObeyed`.
* `USBDevice`: libusb calls return, threads are scheduled, the main thread looks
  at the threads' status at every turn and closes devices at the exit. That
  udev reports an unplugging is *not* assumed.
* `DBusExchange`: the caller waits until reply or timeout, the main thread checks
  its messages, a thread that has begun a signal goes on.
* `Desktop`: the GUI's calls return (weak), and its timer goes off whatever the
  user does (strong for `CheckDBusMessages`, since a call that is being made disables
  it for a while). An open box makes the timer wait, and that the user closes
  it is *not* assumed: nothing is assumed of the user, the service or the launcher.

## 4. Proofs

Every theorem holds for all values of the constants that satisfy the named
assumptions of the modules: sets that are counted are finite, markers are
outside the sets they mark, bounds are naturals, an LCD frame counter has room
for the frames of a plugin, programs send values of the types they declare (`Values`).
No assumption of a module limits the number of devices, clients, files, messages or
starts. Five conditions are hypotheses of single theorems, because without them
the property is false:

* fewer than 255 sessions, or `FewClients`: the count of clients is a `uint8_t`, and a
  daemon with 256 clients believes that it has none and sends no signal
  (`FewSessions` derives the one from the other by counting sessions);
* `[][~SleepEvent]_vars` in `FewSessionsKnowStatuses`: a resume starts devices without
  a signal (a hazard of `PROJECT.json`);
* `[][~Intrudes]_allVars` in `RegistrationIsAgreed` and `ContainersOfFewSessions`: no
  registration of *another* session takes the ID of a service that is alive (by
  evicting it before it has answered, or by drawing the same ID afterwards). The
  service of a single session needs no such condition: `LoneServiceIsAgreed`,
  `LoneContainers`;
* a single session in `LoneConfigShown`: unregistering an active client resets the
  devices although another client may be active (a hazard of `PROJECT.json`);
* `Threads = {Main}` in `ValuesAlwaysArrive`: two threads of the daemon that build
  signals at once mix them (the finding of `signals_interfere`). Calls and their
  answers need no such condition: `CallsAndAnswersArrive`.

| Module | Theorems | Inductive invariant |
|---|---|---|
| `SystemProofs`: the daemon | `IndInvInvariant`, `TypeInvariant`, `OneClientPerSession`, `ActiveClientsCounted`, `IdleDaemonShowsDefaults`, `DriverKnowsStarted`, `SleepIsOrderly`, `DaemonImplementsLifecycle` | `IndInv` |
| `SystemProofs`: its suspends | `ResumeStartsOnlySleeping` | `ResumeInv`: `IndInv` and `StoppedIsForgotten` |
| `SystemProofs`: what clients are told | `FewSessionsKnowStatuses` | `ToldInv`: `IndInv`, `ClientsCounted`, `NobodyBeforeStart` and the property |
| `SystemProofs`: the services | `ServiceTypeInvariant`, `HandlersAreOrderly`, `RegistrationIsAgreed`, `LoneServiceIsAgreed`, `ContainersOfFewSessions`, `LoneContainers`, `LoneConfigShown` | `DaemonInv`, `HandlersInv`, `AgreedInv`, `ViewInv`, `ReportsFollow`, `ConfigInv` |
| `MacroRecordingProofs` | `ThreadsKeepTypes`, `EnabledBankIsTold`, `ClosedDeviceIsDark` | `TypeOK`, `BankInv`, `CloseInv` |
| `KeysProofs` | `KeysTypes`, `Repair`, `AllKeysReleased`, `CheckedOnce` | `KeysInv`: `KeysTypeOK`, `NoKeyStaysDown`, `SignalsOK`, `TypedIsChecked`, `BankIsPlayable` |
| `LCDScreenProofs` | `ScreenTypes`, `EndscreenStays` | `TypeOK`, `EndInv` |
| `USBDeviceProofs` | `USBTypes`, `DeviceIsGivenBack`, `StartsWholeOrNot`, `NoThreadOutlives` | `Types`, `PhaseInv`, `ThreadInv`, `ClaimInv`, `BackInv` |
| `DevicesHandlerProofs` | `HandlerTypes`, `OneFileForEach`, `WatchLivesWithItsDevices`, `NoChangeIsReverted` | `HandlerInv`: `FileInv`, `WatchInv`, `FreshInv` and types |
| `DBusProofs` | `ProgramTypes`, `CallsAndAnswersArrive`, `ValuesAlwaysArrive`, `RegistryStaysConsistent` | `ExchangeInv`: `BuilderInv`, `MessagesInv`, `ReportedInv`; `RegistryInv` |
| `DesktopProofs` | `DesktopTypes`, `FilesStayWithTheirDevice`, `UserIsTold` | `DesktopInv`, `StaleInv` |

Why the invariants are needed:

* **`IndInv`** strengthens the properties by four facts. `IdleDevicesReset` alone is
  not inductive: a device that is *not* started might show anything and then be
  started, hence `ClosedDevicesReset`; the first enumeration must find empty maps
  (`NothingBeforeStart`, which the refinement needs too); and `SleepProtocol`
  about the head of the queue of signals follows from an invariant about the
  whole queue: suspends and resumes alternate, the last one agrees with the state
  of the machine, and what the *next* one to be handled requires holds already
  (`SleepMsgsAlternate`). `NumActiveExact` needs cardinality lemmas on the set of
  active clients when several leave at once (`CountLeaving`). The proof goes part
  by part; each part first shows which handlers can disturb it (`ClientSteps`,
  `DeviceSteps`, `SleepSteps`) and then has one step per handler.
* **`StoppedIsForgotten`**: what was stopped when no suspend was under way is not
  in `sleeping`; only a suspend adds to it.
* **`ToldInv`**: the property is inductive once the count of clients is known to
  be exact, since a daemon that believes to have no client sends nothing, and
  once nobody is connected before the first enumeration, which sends nothing.
* **`Service`**: `DaemonInv` is `IndInv` but for what a daemon that was killed leaves
  (`NothingLeft`): the composition with services keeps the invariants of the daemon.
  Everything else depends on where a handler of the service is when a signal
  arrives, its call fails or its daemon dies. `HandlersInv` is the order of the calls
  that are left: devices are moved before the daemon is asked about the next one,
  the service listens before it asks and registers before both, and it
  unregisters last, when all devices are deleted. `AgreedInv`: who believes to be
  registered is a client, or was cut off, and no two have the same ID.
  `ViewInv`, for each device: the containers are right once the moves left are
  made, *or* a call left asks the daemon for the status the device has now, *or* a
  signal unread announces it. It has to name the status: a service that will be
  told that the device was stopped, when it has been started again, must be told
  that too. The reply of a call is the daemon's state at that moment, whereas
  the signals in the queue are older; that the two may be mixed is what the
  proof shows. Its steps are split into those of the service itself, of the
  daemon, and of other services (`Apart`). `ConfigInv`: the client object is ready
  and has the state of the session, it has an entry for each device of the
  containers with the configuration of the file, and a started device shows
  it; for each of these facts, the call that makes it so may be left instead. That the call comes at the
  right time is in the order of the handlers again (`Turn`: properties, then
  configuration, then the container, then *one* report after all of them) and in
  `ReportsFollow`: an answer about a started device or about the session is always
  followed by a report. When a report comes, `ViewInv` gives that the service
  has every started device it will not hear of, `EntryInv` that the daemon has
  its configuration.
* **`BankInv`, `CloseInv`**: at every place of the listening thread, which bits of
  the mask may be set; and that once the main thread has passed the join, the
  listening thread is at a place from which it lights nothing any more. Both
  hold although the mask is read, cleared and set in separate steps. That the key
  enabled is the one told is claimed only while `~untold`, which every signal
  that is sent restores; that the LEDs are off after the last report, only if it
  was delivered (`lost`).
* **`KeysInv`**: a macro is good (`Good`: shorter than the limit and playable) from the
  moment the daemon has checked it: in a signal (`SignalsOK`) and in the bank
  (`BankIsPlayable`), unless an overlong one was recorded. That it is good is a
  fact about `CheckMacro` for macros of every length, by induction over the steps
  of its loops: an induction on the *set* of the steps after which a
  fact holds (`Least`, from the well-foundedness of the naturals, then `Induction`),
  which the provers accept, and `Loop`, which gives the recursive function its
  values. The invariant of the search for releases is `MatchInv`: events paired
  so far are balanced, in every prefix too (`Balanced`); a press seen is paired or
  its release is missing (`Accounted`); and before a release that is
  redundant so far, no press is left that it could end (`Greedy`), without
  which erasing it might leave a key pressed. `FixReleasesWorks` and
  `CheckMacroWorks` then say that what is left is playable and has the presses
  of the recording, `FixReleasesKeeps` that a good macro passes unchanged (the
  second check, that of the service), and `RunPlayable` that playing a
  playable macro leaves no key pressed.
* **`EndInv`**: from its jump to the endscreen on (`LastInv`) the LCD thread finds no
  plugin locked, and a count that is past the frames of the current plugin
  whenever it looks at it, unless the main thread has stored a stale one (`overtaken`): its
  own jump made it so, and a jump of the main thread that has read the frames of this
  same plugin does not undo it. The scan is a circle: the plugins that it has left behind
  (`Passed`) are not the endscreen, so it cannot be back at its first plugin before it
  has met it (`ScanStep`).
* **`USBDevice`**: `PhaseInv` ties the handle and the entry to the call the main
  thread is at; `ClaimInv` says what is claimed there; `BackInv` that the
  interfaces with a driver *plus* those noted to be given back are the ones that
  had a driver at first, in whichever configuration the device is now;
  `ThreadInv` that a running thread is known to its entry unless a close has
  overtaken its start.
* **`HandlerInv`**: the names in use are distinct (`FileInv`); the references of a
  watch are at most its holders, exactly as many while nothing went wrong
  (`WatchInv`); and, for `NoChangeIsReverted`, a device whose file is *older* than its
  memory either ignores the next notification or has no notification of this
  file unread (`FreshInv`): every way to make a file older, a save that failed
  above all, has noted the notification first.
* **`ExchangeInv`**: a message on the bus is *faithful*, its body is its meaning as the
  library writes it (`Calls`, `Returns`, `Broadcasts`); the signal under construction holds
  what its builder has appended so far (`BuiltBy`); and a default value in front of
  the caller has its error in front of it (`Reported`). That faithful messages are
  read as they were meant is `ArgumentsRead`, the round trip of the library for
  all signatures and all values. It rests on one lemma per type (`StringArrives`,
  `GKDepsMapArrives`...) that says which queues are left after it is read, given any
  queues behind it (`After`), and on four lemmas about loops (`FieldsInTurn`...), by
  the induction on a set of steps described above. Why macros and string
  arrays may only come last is in the proof: the former are read until the
  queue is empty, the latter leave the sizes of their strings behind
  (`LastArrives`, as opposed to `PlainArrives`); `SentTypes` is that no signature
  breaks this.
* **`RegistryInv`**: rules are counted as often as events need them, and an
  object's introspection has at least one other event.
* **`DesktopInv`**: the tabs that can be used are about the device whose file was
  opened last, and what is kept of this file is that device's (`Faithful`) unless the
  window has misread what it shows; hence a save harms the one file it writes, and
  only then (`spoiled`). It is shown for one helper of the window after the other and
  then for each handler.
* **`StaleInv`**: while tabs can be used, or the LCD plugins of a device are being
  asked for, what is shown is what the file says, or a signal about the file is
  unread, or a box is open. For this the signals must be listened to from the
  moment the window is idle (`Listens`), and a save must put its signal in the
  queue in the step that changes the file. It is claimed while nothing was
  misread or swallowed; reading the file again makes it true again.

**Only model-checked.**

* Liveness (`Exits`, `LostIsNotStarted`, `CloseEnds`, `MaskIsObeyed`, `DaemonIsBack`,
  `EveryCallIsAnswered`, `UnpluggedIsClosed`, `DevicesAreListed`): it needs fairness
  and ENABLED, out of the prover's reach.
* `SignalHasOneBuilder`, which the code violates.

## 5. What the models show about the code

Besides the finding, behaviours of the models that a maintainer should know of.
They are reachable in the modules; no property forbids them, because nothing in
the code prevents them. Those that a property would otherwise exclude are named in it
by a history variable, and the property says what holds in all other cases. Each is at its line in the hazards of
`PROJECT.json` or follows from the definition named.

* A comment leaves clients five seconds to answer (`clientsManager.cpp:341`); they
  are evicted by the next registration, whenever it comes (`RegisterClient`). "Sender
  should wait and retry" (line 348), but the service gives up after the refusal.
* A service that was evicted while alive goes on believing that it is registered
  (two sessions needed). So does one whose daemon was killed: registered as it believes to be,
  it takes no notice of `DaemonIsStarting` (`DBusHandler.cpp:932`); hence `cutOff` in
  the properties.
* Unregistering an active client resets the devices although another client is
  active.
* A reset sends no `DeviceMBankSwitch`: the service stays in the bank that the
  keyboard does not show any more; and a reset at the end of a recording is
  toggled into MR lit without a recording (`keyboardDriver.cpp:644`).
* L2 pressed around a change of mask locks a plugin that is not enabled any more:
  the screen stays blank until it is unlocked (`keyboardDriver.cpp:822`).
* A recorded macro that is cut to the maximum size leaves keys pressed
  (`GKeysMacro.cpp:155`): hence `overlong` in the properties.
* A close that overtakes the start of a thread does not join it (`keyboardDriver.cpp:830`):
  hence `overtaken` in `ThreadsEndFirst` and `NoThreadOutlives`, which say nothing of such a
  thread. It may outlive the release of the device.
* A `DeviceMBankSwitch` that is abandoned is not undone (`keyboardDriver.cpp:216-219`): the mask was
  changed before, and the service stays in the other bank until the next switch:
  hence `untold`. The caught exceptions of the main thread's status signals
  (`clientsSignals.cpp:109-114`) have the same cause and are not modelled in `DaemonHistory`,
  where a signal that is sent arrives.
* A device that is closed because its threads gave up keeps its LEDs: USB requests
  are skipped (`libusb.cpp:100-103`), although it may still be plugged. A report that fails
  is only logged. Hence `lost`.
* The "Endscreen plugin, used when releasing a device" (`LCDPlugins/endscreen.cpp:46`) may
  not be the last one shown: the main thread reads the frames of a plugin
  (`LCDScreenPluginsManager.cpp:165`), the LCD thread goes on to one with more frames (15 of
  the splashscreen, 20 of the system monitor), leaves its loop and jumps to the
  endscreen, and the main thread stores its stale count over that jump: hence
  `overtaken` in `EndscreenIsLast`. At other times a stale count only makes a plugin
  last longer or shorter.
* A device may be started with nothing claimed: a configuration descriptor that cannot be
  read is skipped (`libusb.cpp:392-397`), as is an interface that is not for a HID device
  (474-480), although `openDevice()` and `openUSBDevice()` are said to throw on any failure
  (`keyboardDriver.cpp:973` and 983): hence `LeftAlone` in `WholeOrNothing`. The threads of such
  a device have no claimed interface to read from.
* After a save the GUI drops the next signal (`mainWindow.cpp:375`), meant to be the one
  about that save ("desktop service will detect that configuration file was modified,
  and will send us a signal. Ignore it.", lines 530-531). If the service writes the file
  first, its signal is dropped, and the tabs go on showing what the file no longer
  holds: hence `swallowed` in `StaleIsTold`.
* A configuration file that cannot be loaded leaves the settings of the device
  before in the window, under the new path (`mainWindow.cpp:584`); the next save
  writes them into the file of the device that is selected now (`spoiled`).
* A signal of the service that comes after it has answered that it has no device
  and before the GUI declares its signals is lost, and nothing makes the GUI ask
  again (`mainWindow.cpp:278-302`): hence `gui.missed` in `DevicesAreListed`.
* While a message box is open the GUI reads no message at all; what the service
  sends meanwhile waits in the queue of libdbus.
* A start that fails leaves endpoints of the attempt in the object, and a save of
  a configuration is reported as done when it failed (it is only logged).
* An unplugging of a device that a service does not know makes it initialize a
  device without properties.
* Introspection on a bus without declared signals gives up after the methods of
  the first interface; `DeviceMBankSwitch` and `DeviceGKeyEvent` are sent but not
  declared.

## 6. Not modelled

Pure I/O and layout: the bytes of USB transfers, PBM drawing, log files, the
text of configuration files, command line, PID file, privileges, the widgets of
the tabs. `hidapi.cpp` (its library does what `libusb.cpp` does by hand). The
reading of CPU, network and temperature statistics. The X session manager, which
only tells the service to leave. The spawning of commands by G keys and media
keys.

In what is modelled: exceptions for lack of memory other than those named above;
intervals between the events of a macro; the iterator of the plugins passing
through `end()` (a data race whose outcome the source does not decide: going past
the end and back to the first plugin is one step of the scan); the bits of an atomic
mask read one by one where nothing else is accessed between; signals
in flight on the bus beyond the order it keeps.

## 7. Plan

Done: the daemon; the threads of a device; USB access; the service with the
daemon; files and watches; keys; the D-Bus library; the session with launcher
and GUI. Proofs of all safety properties that the passing runs check.

Left, in this order:

1. An abstract specification of the registration that `Service` implements.
2. Two sessions in `Service` (its states are too many for the run as it is):
   what an active client sees when another leaves.
3. Suspends in `Service`: what devices show between a resume and the next report.
4. Spawned commands with their children, media keys, `hidapi.cpp`.
