------------------------------- MODULE Desktop -------------------------------
(***************************************************************************)
(* The processes of a desktop session: the launcher (src/bin/launcher),    *)
(* the service as the other two see it (src/bin/service) and the graphical *)
(* interface (src/bin/gui/Qt), which edits the configuration files that    *)
(* the service writes as well.                                             *)
(*                                                                         *)
(* The interface runs in one thread.  A step of it ends at a call to the   *)
(* service, so that the service may go away between two of them.  It reads *)
(* its messages from a timer.  A message box is opened by the callback of  *)
(* one of them, inside the slot of that timer and with the lock of GKDBus: *)
(* nothing else is read until it is closed.                                *)
(* What a file holds is abstracted to the devices whose settings it is     *)
(* made of, and to a version that tells its successive contents apart.     *)
(***************************************************************************)
EXTENDS Naturals, Sequences, FiniteSets

CONSTANTS
    Device,
    None,           \* no device
    MaxVersion,     \* bound: writes of a file
    MaxEvents,      \* bound: things that happen to the service
    MaxSignals      \* bound: signals that the interface, or the launcher, has not read

ASSUME DesktopAssumption ==
    /\ None \notin Device
    /\ {MaxVersion, MaxEvents, MaxSignals} \subseteq Nat

VARIABLES
    service,        \* "absent", "starting", "up" or "leaving"
    registered,     \* _registerStatus
    status,         \* status of the devices that the service handles
    file,           \* the configuration files
    saving,         \* devices whose file the service is writing
    truncated,      \* devices whose file is empty
    unread,         \* who wrote the files that the service is not yet notified of
    recent,         \* the launcher spawned a service less than ten seconds ago
    requests,       \* ServiceStartRequest signals the launcher has not read
    gui,            \* the state of the interface
    events,         \* what has happened to the service
    \* history, of what the tabs show: a file, or the list of plugins, could not
    \* be read; a signal about the file was ignored that was not about its own save
    misread, swallowed,
    spoiled         \* history: devices whose file was saved while misread

launcherVars == <<recent, requests>>
serviceVars  == <<service, registered, status, saving, unread>>
fileVars     == <<file, truncated>>
historyVars  == <<misread, swallowed, spoiled>>
desktopVars  == <<serviceVars, fileVars, launcherVars, gui, events, historyVars>>

Tab == {"BacklightColor", "LCDPlugins", "GKeys"}
Content == [of : SUBSET Device, version : 0 .. MaxVersion]
Nothing == [of |-> {}, version |-> 0]
ContentOf(d) == [of |-> {d}, version |-> 0]

-----------------------------------------------------------------------------
(* The interface before it is started.                                     *)

(* pc is where its thread stands: "off", "idle", before the call it has to *)
(* make ("map", "retry", "informations", "list", "plugins"), or about to   *)
(* declare its signals.  "missed" only tells that the service sent one     *)
(* between the answer to the last call and this declaration.               *)
Off == [pc |-> "off", listens |-> FALSE, inbox |-> <<>>, start |-> FALSE, list |-> {},
        started |-> {}, selected |-> None, path |-> None, opened |-> Nothing,
        shown |-> [t \in Tab |-> None], enabled |-> FALSE, ignore |-> FALSE, box |-> FALSE,
        missed |-> FALSE]

DesktopInit ==
    /\ service = "absent" /\ registered = FALSE
    /\ status = [d \in Device |-> "unknown"]
    /\ file = [d \in Device |-> ContentOf(d)]
    /\ saving = {} /\ truncated = {} /\ unread = [d \in Device |-> {}]
    /\ recent = FALSE
    /\ requests = 1     \* the launcher spawns a service on start
    /\ gui = Off
    /\ events = 0
    /\ misread = FALSE /\ swallowed = FALSE /\ spoiled = {}

-----------------------------------------------------------------------------
(* Signals of the service to the interface.                                *)

Updated == [name |-> "DevicesUpdated"]
Saved(d, own) == [name |-> "DeviceConfigurationSaved", device |-> d, own |-> own]

RoomFor == Len(gui.inbox) < MaxSignals
Request == requests < MaxSignals /\ requests' = requests + 1

Send(signal) ==
    /\ RoomFor
    /\ gui' = IF gui.listens THEN [gui EXCEPT !.inbox = Append(@, signal)]
              ELSE [gui EXCEPT !.missed = gui.pc = "declare"]
    /\ UNCHANGED historyVars

Silent == UNCHANGED <<gui, historyVars>>

SendIf(condition, signal) == IF condition THEN Send(signal) ELSE Silent

-----------------------------------------------------------------------------
(* The launcher.                                                           *)

(* A request within ten seconds of the last spawn is ignored.  A service   *)
(* that still runs loses its name to the new one, and is left out.         *)
SpawnService ==
    /\ requests > 0 /\ saving = {}
    /\ requests' = requests - 1
    /\ IF recent THEN UNCHANGED <<recent, serviceVars>>
       ELSE /\ recent' = TRUE
            /\ service' = "starting"
            /\ registered' = FALSE
            /\ status' = [d \in Device |-> "unknown"]
            /\ unread' = [d \in Device |-> {}]
            /\ UNCHANGED saving
    /\ UNCHANGED <<fileVars, events>>
    /\ Silent

TenSecondsPass ==
    /\ recent
    /\ recent' = FALSE
    /\ UNCHANGED <<serviceVars, fileVars, requests, events>>
    /\ Silent

-----------------------------------------------------------------------------
(* The service.                                                            *)

Handled == {d \in Device : status[d] # "unknown"}
Forgotten == [d \in Device |-> "unknown"]
Happens == events < MaxEvents /\ events' = events + 1

(* It registers and asks for the devices; without a daemon it gives up.    *)
(* The interface is told only when there is a device.  One that is stopped *)
(* already is to the interface one that stops right afterwards.            *)
ServiceIsUp ==
    /\ service = "starting"
    /\ service' = "up" /\ registered' = TRUE
    /\ status' \in [Device -> {"started", "unknown"}]
    /\ SendIf(status' # Forgotten, Updated)
    /\ UNCHANGED <<fileVars, saving, unread, launcherVars, events>>

ServiceGivesUp ==
    /\ service = "starting"
    /\ Happens
    /\ service' = "absent"
    /\ unread' = [d \in Device |-> {}]
    /\ UNCHANGED <<registered, status, fileVars, saving, launcherVars>>
    /\ Silent

(* The signals of the daemon about devices.                                *)
DeviceChanges(d) ==
    /\ service = "up" /\ registered /\ saving = {}
    /\ Happens
    /\ \E new \in {"started", "stopped", "unknown"} \ {status[d]} :
           status' = [status EXCEPT ![d] = new]
    /\ Send(Updated)
    /\ UNCHANGED <<service, registered, fileVars, saving, unread, launcherVars>>

DaemonIsStopping ==
    /\ service = "up" /\ registered /\ saving = {}
    /\ Happens
    /\ registered' = FALSE
    /\ status' = Forgotten
    /\ Send(Updated)
    /\ UNCHANGED <<service, fileVars, saving, unread, launcherVars>>

DaemonIsStarting ==
    /\ service = "up" /\ ~registered
    /\ registered' = TRUE
    /\ status' \in [Device -> {"started", "unknown"}]
    /\ SendIf(status' # Forgotten, Updated)
    /\ UNCHANGED <<service, fileVars, saving, unread, launcherVars, events>>

(* SIGUSR1, or a daemon that refuses the registration.                     *)
LeaveForRestart ==
    /\ service = "up" /\ saving = {}
    /\ Happens
    /\ service' = "leaving"
    /\ registered' = FALSE
    /\ status' = Forgotten
    /\ Request
    /\ SendIf(registered, Updated)
    /\ UNCHANGED <<fileVars, saving, unread, recent>>

ServiceExits ==
    /\ service = "leaving"
    /\ service' = "absent"
    /\ unread' = [d \in Device |-> {}]
    /\ UNCHANGED <<registered, status, fileVars, saving, launcherVars, events>>
    /\ Silent

(* A file that it was writing stays empty.                                 *)
ServiceIsKilled ==
    /\ service = "up"
    /\ Happens
    /\ service' = "absent"
    /\ registered' = FALSE
    /\ status' = Forgotten
    /\ unread' = [d \in Device |-> {}]
    /\ saving' = {}
    /\ UNCHANGED <<fileVars, launcherVars>>
    /\ Silent

(* A macro was recorded: the file is truncated, then written.              *)
TruncateFile(d) ==
    /\ service = "up" /\ status[d] = "started" /\ saving = {}
    /\ file[d].version < MaxVersion
    /\ saving' = {d} /\ truncated' = truncated \cup {d}
    /\ UNCHANGED <<service, registered, status, unread, file, launcherVars, events>>
    /\ Silent

(* The service tells the interface, and ignores the next notification      *)
(* about its own file.                                                     *)
WriteFile(d) ==
    /\ d \in saving
    /\ file[d].version < MaxVersion
    /\ saving' = {} /\ truncated' = truncated \ {d}
    /\ file' = [file EXCEPT ![d].version = @ + 1]
    /\ unread' = [unread EXCEPT ![d] = @ \cup {"service"}]
    /\ Send(Saved(d, FALSE))
    /\ UNCHANGED <<service, registered, status, launcherVars, events>>

(* A notification that comes with the one about its own save is ignored    *)
(* with it.                                                                *)
NotifyService(d) ==
    /\ service = "up" /\ saving = {} /\ unread[d] # {}
    /\ \E read \in {s \in SUBSET unread[d] : s # {} /\ ("service" \in unread[d] => "service" \in s)} :
           unread' = [unread EXCEPT ![d] = @ \ read]
    /\ SendIf("service" \notin unread[d] /\ d \in Handled, Saved(d, TRUE))
    /\ UNCHANGED <<service, registered, status, saving, fileVars, launcherVars, events>>

-----------------------------------------------------------------------------
(* The interface: what its handlers are made of.                           *)

OnlyGUI == UNCHANGED <<serviceVars, fileVars, events>>

(* A call waits for a service that is starting.                            *)
Answered == service # "starting"

(* Mutant: the tabs of the device stay enabled.                            *)
KeepTabs(g) == [g EXCEPT !.selected = None, !.pc = "idle"]

(* updateInterface() for no device.                                        *)
SelectNone(g) == [g EXCEPT !.selected = None, !.enabled = FALSE, !.pc = "idle"]

(* Mutant: the path of the file is only set for the first device.          *)
OpenFirstPath(g, d) ==
    IF d \notin g.started
    THEN [g EXCEPT !.selected = d, !.enabled = FALSE, !.pc = "idle"]
    ELSE [g EXCEPT !.selected = d, !.path = IF @ = None THEN d ELSE @, !.pc = "plugins",
                   !.opened = file[d], !.shown.BacklightColor = d]

(* updateInterface() for a device, until it asks for the plugins: a file   *)
(* that cannot be read leaves what was opened before.                      *)
Readable(d) == d \notin truncated
OpenDevice(g, d) ==
    IF d \notin g.started
    THEN [g EXCEPT !.selected = d, !.enabled = FALSE, !.pc = "idle"]
    ELSE [g EXCEPT !.selected = d, !.path = d, !.pc = "plugins",
                   !.opened = IF Readable(d) THEN file[d] ELSE @,
                   !.shown.BacklightColor = d]

UpdateInterface(g) == IF g.selected = None THEN SelectNone(g) ELSE OpenDevice(g, g.selected)

(* What is shown is read again.                                            *)
Misread(g) == g.selected \in g.started /\ ~Readable(g.selected)
NewView(g) == misread' = Misread(g) /\ swallowed' = FALSE /\ UNCHANGED spoiled

(* The first half of resetInterface(): nothing is selected, and the start  *)
(* button waits for the answer of the service.                             *)
ResetInterface(g) ==
    [SelectNone(g) EXCEPT !.list = {}, !.start = FALSE, !.missed = FALSE, !.pc = "informations"]

(* Mutant: without a list of devices the signals are never declared.       *)
RestIdle(g) == "idle"

(* Where the thread goes after resetInterface().                           *)
Rest(g) == IF g.listens THEN "idle" ELSE "declare"

-----------------------------------------------------------------------------
(* Calls of the interface to the service.                                  *)

StartGUI ==
    /\ gui.pc = "off"
    /\ gui' = [gui EXCEPT !.pc = "map"]
    /\ OnlyGUI /\ UNCHANGED <<launcherVars, historyVars>>

(* build() asks twice for the dependencies, and for a service in between.  *)
GetExecutablesDependenciesMap ==
    /\ gui.pc \in {"map", "retry"} /\ Answered
    /\ IF service = "up"
       THEN gui' = ResetInterface(gui) /\ UNCHANGED requests
       ELSE IF gui.pc = "map"
       THEN gui' = [gui EXCEPT !.pc = "retry"] /\ Request
       ELSE gui' = Off /\ UNCHANGED requests
    /\ OnlyGUI /\ UNCHANGED <<recent, historyVars>>

(* The start button is shown only for a name without an owner.             *)
GetInformations ==
    /\ gui.pc = "informations" /\ Answered
    /\ gui' = [gui EXCEPT !.pc = IF service = "up" /\ registered THEN "list" ELSE Rest(gui),
                          !.start = (service = "absent")]
    /\ OnlyGUI /\ UNCHANGED <<launcherVars, historyVars>>

GetDevicesList ==
    /\ gui.pc = "list" /\ Answered
    /\ LET devices == IF service = "up" THEN Handled ELSE {}
       IN  gui' = [gui EXCEPT !.pc = Rest(gui), !.list = devices,
                              !.started = {d \in devices : status[d] = "started"}]
    /\ OnlyGUI /\ UNCHANGED <<launcherVars, historyVars>>

(* Without an answer, the tabs that follow are neither updated nor         *)
(* disabled.                                                               *)
GetDeviceLCDPluginsProperties ==
    /\ gui.pc = "plugins" /\ Answered
    /\ gui' = IF service = "up"
              THEN [gui EXCEPT !.pc = "idle", !.enabled = TRUE,
                               !.shown = [t \in Tab |-> gui.selected]]
              ELSE [gui EXCEPT !.pc = "idle"]
    /\ misread' = (misread \/ service # "up")
    /\ OnlyGUI /\ UNCHANGED <<launcherVars, swallowed, spoiled>>

DeclareSignals ==
    /\ gui.pc = "declare"
    /\ gui' = [gui EXCEPT !.listens = TRUE, !.pc = "idle"]
    /\ OnlyGUI /\ UNCHANGED <<launcherVars, historyVars>>

-----------------------------------------------------------------------------
(* Events of the interface.                                                *)

(* History: the ignored signal was about a write of the service.           *)
Swallow(s) ==
    /\ swallowed' = (swallowed \/ (gui.ignore /\ s.device = gui.selected /\ ~s.own))
    /\ UNCHANGED <<misread, spoiled>>

(* Mutant: a box is shown for the other devices.                           *)
UpdatedForOthers(s) ==
    /\ gui' = [gui EXCEPT !.inbox = Tail(@), !.ignore = FALSE,
                          !.box = ~gui.ignore /\ s.device # gui.selected]
    /\ Swallow(s)

(* configurationFileUpdated(): the signal that follows a save is ignored,  *)
(* whatever it is about; else a box asks to reload the selected device.    *)
ConfigurationFileUpdated(s) ==
    /\ gui' = [gui EXCEPT !.inbox = Tail(@), !.ignore = FALSE,
                          !.box = ~gui.ignore /\ s.device = gui.selected]
    /\ Swallow(s)

CheckDBusMessages ==
    /\ gui.pc = "idle" /\ ~gui.box /\ gui.inbox # <<>>
    /\ LET s == Head(gui.inbox)
       IN  IF s.name = "DevicesUpdated"
           THEN gui' = ResetInterface([gui EXCEPT !.inbox = Tail(@)]) /\ UNCHANGED historyVars
           ELSE ConfigurationFileUpdated(s)
    /\ OnlyGUI /\ UNCHANGED launcherVars

CloseBox ==
    /\ gui.pc = "idle" /\ gui.box
    /\ LET g == [gui EXCEPT !.box = FALSE]
       IN  gui' = UpdateInterface(g) /\ NewView(g)
    /\ OnlyGUI /\ UNCHANGED launcherVars

UserMayAct == gui.pc = "idle" /\ ~gui.box

SelectDevice(d) ==
    /\ UserMayAct /\ d \in gui.list \cup {None} /\ d # gui.selected
    /\ LET g == [gui EXCEPT !.selected = d]
       IN  gui' = UpdateInterface(g) /\ NewView(g)
    /\ OnlyGUI /\ UNCHANGED launcherVars

(* What a tab changes in the opened configuration: a color, a mask or the  *)
(* event of a G key, among the settings that are kept.                     *)
Changed(content, t) ==
    [of |-> content.of \cup {gui.shown[t]}, version |-> file[gui.path].version + 1]

(* saveConfigurationFileAndUpdateInterface().  The file may be impossible  *)
(* to write, which is only logged.                                         *)
ApplyChanges(t) ==
    /\ UserMayAct /\ gui.enabled
    /\ file[gui.path].version < MaxVersion
    /\ \E written \in BOOLEAN :
           LET changed == Changed(gui.opened, t)
               kept == ~written /\ ~Readable(gui.path)
               g == [gui EXCEPT !.ignore = TRUE]
           IN  /\ file' = IF written THEN [file EXCEPT ![gui.path] = changed] ELSE file
               /\ truncated' = IF written THEN truncated \ {gui.path} ELSE truncated
               /\ unread' = IF written /\ service = "up"
                            THEN [unread EXCEPT ![gui.path] = @ \cup {"gui"}] ELSE unread
               /\ gui' = [OpenDevice(g, gui.selected) EXCEPT
                            !.opened = IF kept THEN changed ELSE file'[gui.path]]
               /\ misread' = kept /\ swallowed' = FALSE
               /\ spoiled' = IF written /\ misread THEN spoiled \cup {gui.path} ELSE spoiled
    /\ UNCHANGED <<service, registered, status, saving, launcherVars, events>>

PressStart ==
    /\ UserMayAct /\ gui.start
    /\ gui' = [gui EXCEPT !.start = FALSE]
    /\ Request
    /\ OnlyGUI /\ UNCHANGED <<recent, historyVars>>

Quit ==
    /\ UserMayAct
    /\ gui' = Off
    /\ OnlyGUI /\ UNCHANGED <<launcherVars, historyVars>>
-----------------------------------------------------------------------------
ServiceNext ==
    \/ ServiceIsUp \/ ServiceGivesUp \/ DaemonIsStopping \/ DaemonIsStarting
    \/ LeaveForRestart \/ ServiceExits \/ ServiceIsKilled
    \/ \E d \in Device : DeviceChanges(d) \/ TruncateFile(d) \/ WriteFile(d) \/ NotifyService(d)

GUICall ==
    \/ GetExecutablesDependenciesMap \/ GetInformations \/ GetDevicesList
    \/ GetDeviceLCDPluginsProperties \/ DeclareSignals

User ==
    \/ StartGUI \/ CloseBox \/ PressStart \/ Quit
    \/ \E d \in Device \cup {None} : SelectDevice(d)
    \/ \E t \in Tab : ApplyChanges(t)

DesktopNext == SpawnService \/ TenSecondsPass \/ ServiceNext \/ GUICall \/ CheckDBusMessages \/ User

DesktopSpec == DesktopInit /\ [][DesktopNext]_desktopVars

(* The timer of the interface goes off whatever the user does, except that *)
(* it waits for an open box.  That the user closes it is not assumed.      *)
DesktopFairness == WF_desktopVars(GUICall) /\ SF_desktopVars(CheckDBusMessages)

DesktopFairSpec == DesktopSpec /\ DesktopFairness

-----------------------------------------------------------------------------
(* Every variable has its type; the tabs can be used only for a device     *)
(* whose file was opened, and the start button only without a list.        *)
DesktopTypeOK ==
    /\ service \in {"absent", "starting", "up", "leaving"}
    /\ registered \in BOOLEAN /\ (registered => service = "up")
    /\ status \in [Device -> {"started", "stopped", "unknown"}]
    /\ ~registered => Handled = {}
    /\ file \in [Device -> Content]
    /\ saving \subseteq Device /\ truncated \subseteq Device /\ spoiled \subseteq Device
    /\ unread \in [Device -> SUBSET {"service", "gui"}]
    /\ requests \in Nat /\ events \in 0 .. MaxEvents
    /\ gui.selected \in gui.list \cup {None}
    /\ gui.enabled => gui.selected = gui.path /\ gui.path \in gui.started
    /\ gui.start => gui.list = {}
    /\ gui.box \in BOOLEAN /\ (gui.box => gui.selected # None)
    /\ Len(gui.inbox) <= MaxSignals

(* A file holds the settings of its own device, whatever the user selects  *)
(* and applies while devices come and go and processes stop, except the    *)
(* files that were saved while the window had failed to read what it shows *)
(* (a load that fails keeps the settings of the device before,             *)
(* mainWindow.cpp:584).  A failed read that is followed by a successful    *)
(* one does no harm, and no other file is touched.                         *)
FilesKeepTheirDevice == \A d \in Device \ spoiled : file[d].of = {d}

(* The box, or the signal, that will make the interface open the file of d *)
(* again.                                                                  *)
Told(g, d) ==
    \/ g.box
    \/ \E i \in DOMAIN g.inbox : g.inbox[i] \in {Updated, Saved(d, FALSE)}

(* A user who may apply changes sees the file as it is, or will be told    *)
(* that it is not: the signal about it is on its way, or its box is open.  *)
(* It is not claimed of a window that could not read what it shows, nor of *)
(* one that ignored the signal of the service as if it were about its own  *)
(* save: _ignoreNextSignal drops the next signal, whatever it is about     *)
(* (mainWindow.cpp:375).  Either lasts until the file is read again.       *)
StaleIsTold ==
    gui.enabled /\ gui.pc = "idle" /\ ~misread /\ ~swallowed
        => gui.opened.version = file[gui.selected].version \/ Told(gui, gui.selected)

(* A service that keeps running with a device shows up in the interface:   *)
(* its devices are listed there however often the service was restarted    *)
(* before, even if a box is left open.  One case is left out: the service  *)
(* sent its signal after it had answered that it had no device and before  *)
(* the interface declared the signal (mainWindow.cpp:278-302, gui.missed). *)
(* Nothing then makes the interface ask again.                             *)
Serving == service = "up" /\ registered /\ Handled # {}
DevicesAreListed ==
    <>[]Serving => []<>(gui.pc = "off" \/ gui.list # {} \/ gui.missed)
=============================================================================
