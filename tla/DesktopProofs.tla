---------------------------- MODULE DesktopProofs ----------------------------
(***************************************************************************)
(* Proofs, for any number of devices, writes and signals, that a           *)
(* configuration file holds the settings of its own device unless it was   *)
(* saved after a failed read (DesktopInv), and that what the window shows is what is in the file, or a signal that *)
(* tells of the change is still to be read (StaleInv).  The interface is   *)
(* proved about one helper after the other: what resetInterface() and      *)
(* updateInterface() make of a good state of it, then each handler.        *)
(***************************************************************************)
EXTENDS Desktop, TLAPS

Pcs == {"off", "map", "retry", "informations", "list", "plugins", "declare", "idle"}
Signals == {Updated} \cup {Saved(d, own) : d \in Device, own \in BOOLEAN}

GUIState ==
    [pc : Pcs, listens : BOOLEAN, inbox : Seq(Signals), start : BOOLEAN, list : SUBSET Device,
     started : SUBSET Device, selected : Device \cup {None}, path : Device \cup {None},
     opened : Content, shown : [Tab -> Device \cup {None}], enabled : BOOLEAN,
     ignore : BOOLEAN, box : BOOLEAN, missed : BOOLEAN]

(* Nothing is selected, and no tab enabled, outside the main loop; a list  *)
(* is asked for when there is none; the enabled tabs are about the device  *)
(* whose file was opened, and a box about the selected one.                *)
Consistent(g) ==
    /\ g \in GUIState
    /\ g.selected \in g.list \cup {None}
    /\ g.pc \notin {"idle", "plugins"} => g.selected = None /\ ~g.enabled
    /\ g.pc \in {"off", "informations"} => g.list = {}
    /\ g.pc = "list" => ~g.start
    /\ g.start => g.list = {}
    /\ g.enabled => g.selected = g.path /\ g.path \in g.started /\ g.shown \in [Tab -> Device]
    /\ g.pc = "plugins" => g.selected = g.path /\ g.path \in g.started
    /\ g.box => g.selected # None /\ g.pc = "idle"
    /\ Len(g.inbox) <= MaxSignals

(* What is kept of the opened file is of the selected device, unless the   *)
(* file is one of those that were saved after a failed read; what the tabs *)
(* show when they may be used is of the selected device.                   *)
Faithful(g, bad) ==
    /\ g.enabled \/ g.pc = "plugins" => g.path \in bad \/ g.opened.of = {g.path}
    /\ g.enabled /\ g.pc # "plugins" => \A t \in Tab : g.shown[t] = g.path

ServiceOK ==
    /\ service \in {"absent", "starting", "up", "leaving"}
    /\ registered \in BOOLEAN /\ (registered => service = "up")
    /\ status \in [Device -> {"started", "stopped", "unknown"}]
    /\ ~registered => Handled = {}
    /\ file \in [Device -> Content]
    /\ saving \subseteq Device /\ unread \in [Device -> SUBSET {"service", "gui"}]
    /\ requests \in Nat /\ events \in 0 .. MaxEvents
    /\ truncated \subseteq Device /\ spoiled \subseteq Device /\ misread \in BOOLEAN

FilesAreFaithful == \A d \in Device \ spoiled : file[d].of = {d}

DesktopInv ==
    /\ ServiceOK
    /\ Consistent(gui)
    /\ ~misread => Faithful(gui, spoiled)
    /\ FilesAreFaithful

-----------------------------------------------------------------------------
(* The helpers of the interface.                                           *)

LEMMA BoundsTypes == MaxVersion \in Nat /\ MaxEvents \in Nat /\ MaxSignals \in Nat
  BY DesktopAssumption

LEMMA SelectNoneConsistent ==
    ASSUME NEW g, Consistent(g), ~g.box
    PROVE  /\ Consistent(SelectNone(g)) /\ Faithful(SelectNone(g), spoiled)
           /\ SelectNone(g).pc = "idle" /\ SelectNone(g).inbox = g.inbox
  BY DEF Consistent, Faithful, SelectNone, GUIState, Pcs

(* resetInterface() leaves nothing selected and no list.                   *)
LEMMA ResetConsistent ==
    ASSUME NEW g, Consistent(g), ~g.box
    PROVE  Consistent(ResetInterface(g)) /\ Faithful(ResetInterface(g), spoiled)
  BY DEF Consistent, Faithful, ResetInterface, SelectNone, GUIState, Pcs

LEMMA OffConsistent == Consistent(Off) /\ Faithful(Off, spoiled)
  BY DesktopAssumption DEF Consistent, Faithful, Off, GUIState, Pcs, Nothing, Content

(* updateInterface() for a device opens the file of that device, unless it *)
(* cannot be read.                                                         *)
LEMMA OpenConsistent ==
    ASSUME NEW g, NEW d \in Device, Consistent(g), g.pc = "idle", ~g.box, d \in g.list,
           file \in [Device -> Content]
    PROVE  /\ Consistent(OpenDevice(g, d))
           /\ (d \in spoiled \/ file[d].of = {d}) /\ Readable(d) =>
                 Faithful(OpenDevice(g, d), spoiled)
           /\ d \notin g.started => Faithful(OpenDevice(g, d), spoiled)
  <1> DEFINE r == OpenDevice(g, d)
  <1>1. CASE d \notin g.started
    BY <1>1 DEF Consistent, Faithful, OpenDevice, GUIState, Pcs
  <1>2. CASE d \in g.started
    <2>1. r = [g EXCEPT !.selected = d, !.path = d, !.pc = "plugins",
                        !.opened = IF Readable(d) THEN file[d] ELSE @,
                        !.shown.BacklightColor = d]
      BY <1>2 DEF OpenDevice
    <2>2. r \in GUIState
      <3>1. [g.shown EXCEPT !["BacklightColor"] = d] \in [Tab -> Device \cup {None}]
        BY DEF Consistent, GUIState
      <3>2. file[d] \in Content
        OBVIOUS
      <3> HIDE DEF r
      <3> QED
        BY <2>1, <3>1, <3>2 DEF Consistent, GUIState, Pcs
    <2>3. g.enabled => r.shown \in [Tab -> Device]
      BY <2>1 DEF Consistent, GUIState
    <2>4. Consistent(r)
      BY <1>2, <2>1, <2>2, <2>3 DEF Consistent, GUIState
    <2>5. (d \in spoiled \/ file[d].of = {d}) /\ Readable(d) => Faithful(r, spoiled)
      BY <2>1 DEF Faithful, Consistent, GUIState
    <2> QED
      BY <1>2, <2>4, <2>5
  <1> QED
    BY <1>1, <1>2

LEMMA UpdateConsistent ==
    ASSUME NEW g, Consistent(g), g.pc = "idle", ~g.box, file \in [Device -> Content]
    PROVE  /\ Consistent(UpdateInterface(g))
           /\ FilesAreFaithful /\ ~Misread(g) => Faithful(UpdateInterface(g), spoiled)
  <1>1. CASE g.selected = None
    BY <1>1, SelectNoneConsistent DEF UpdateInterface
  <1>2. CASE g.selected # None
    <2>1. g.selected \in Device /\ g.selected \in g.list
      BY <1>2 DEF Consistent, GUIState
    <2> QED
      BY <1>2, <2>1, OpenConsistent DEF UpdateInterface, Misread, FilesAreFaithful
  <1> QED
    BY <1>1, <1>2

(* What the messages are, and those who ignore or wait for them, is of no  *)
(* concern to the rest.                                                    *)
LEMMA OnlyMessages ==
    ASSUME Consistent(gui), gui' \in GUIState, Len(gui'.inbox) <= MaxSignals,
           gui'.pc = gui.pc, gui'.list = gui.list, gui'.started = gui.started, gui'.start = gui.start,
           gui'.selected = gui.selected, gui'.path = gui.path, gui'.opened = gui.opened,
           gui'.shown = gui.shown, gui'.enabled = gui.enabled,
           gui'.box => gui.selected # None /\ gui.pc = "idle", spoiled' = spoiled
    PROVE  Consistent(gui)' /\ (Faithful(gui, spoiled) => Faithful(gui, spoiled)')
  BY DEF Consistent, Faithful

(* A signal of the service changes nothing but the messages that wait.     *)
LEMMA SendConsistent ==
    ASSUME Consistent(gui), NEW signal \in Signals, NEW b, SendIf(b, signal) \/ Send(signal)
    PROVE  Consistent(gui)' /\ (Faithful(gui, spoiled) => Faithful(gui, spoiled)') /\ misread' = misread
  <1>1. CASE Silent
    BY <1>1 DEF Silent, historyVars
  <1>2. CASE Send(signal)
    <2>1. gui' = [gui EXCEPT !.inbox = Append(@, signal)] \/ gui' = [gui EXCEPT !.missed = gui.pc = "declare"]
      BY <1>2 DEF Send
    <2>2. misread' = misread /\ spoiled' = spoiled /\ Len(gui.inbox) < MaxSignals
      BY <1>2 DEF Send, historyVars, RoomFor
    <2>3. CASE gui' = [gui EXCEPT !.inbox = Append(@, signal)]
      <3>1. gui.inbox \in Seq(Signals) /\ Len(gui.inbox) \in Nat /\ Append(gui.inbox, signal) \in Seq(Signals)
            /\ Len(Append(gui.inbox, signal)) = Len(gui.inbox) + 1
        BY DEF Consistent, GUIState
      <3>2. gui' \in GUIState
        BY <2>3, <3>1 DEF Consistent, GUIState
      <3>4. /\ gui'.pc = gui.pc /\ gui'.list = gui.list /\ gui'.started = gui.started /\ gui'.start = gui.start
            /\ gui'.selected = gui.selected /\ gui'.path = gui.path /\ gui'.opened = gui.opened
            /\ gui'.shown = gui.shown /\ gui'.enabled = gui.enabled /\ gui'.box = gui.box
        BY <2>3 DEF Consistent, GUIState
      <3>3. gui'.inbox = Append(gui.inbox, signal) /\ Len(gui'.inbox) <= MaxSignals
        BY <2>2, <2>3, <3>1, BoundsTypes DEF Consistent, GUIState
      <3> QED
        BY <2>2, <3>2, <3>3, <3>4, OnlyMessages DEF Consistent
    <2>4. CASE gui' = [gui EXCEPT !.missed = gui.pc = "declare"]
      BY <2>2, <2>4 DEF Consistent, GUIState, Faithful
    <2> QED
      BY <2>1, <2>2, <2>3, <2>4
  <1> QED
    BY <1>1, <1>2 DEF SendIf

-----------------------------------------------------------------------------
(* The steps of the launcher and of the service: a file is only written    *)
(* with the settings it had.                                               *)

KeepsFiles == spoiled' = spoiled /\ \A d \in Device : file[d]'.of = file[d].of

LEMMA RequestTyped ==
    ASSUME requests \in Nat, Request
    PROVE  requests' \in Nat
  BY DEF Request

LEMMA LauncherStep ==
    ASSUME DesktopInv, SpawnService \/ TenSecondsPass
    PROVE  DesktopInv'
  <1>1. gui' = gui /\ UNCHANGED <<misread, spoiled, file, truncated>>
    BY DEF SpawnService, TenSecondsPass, Silent, historyVars, fileVars, serviceVars
  <1>2. ServiceOK'
    <2>1. CASE SpawnService
      <3>1. requests' \in Nat /\ events' = events
        BY <2>1 DEF SpawnService, ServiceOK, DesktopInv
      <3>2. CASE recent
        BY <1>1, <2>1, <3>1, <3>2 DEF SpawnService, ServiceOK, DesktopInv, Handled, serviceVars
      <3>3. CASE ~recent
        <4>1. /\ service' = "starting" /\ registered' = FALSE /\ saving' = saving
              /\ status' = [d \in Device |-> "unknown"] /\ unread' = [d \in Device |-> {}]
          BY <2>1, <3>3 DEF SpawnService
        <4>2. Handled' = {}
          BY <4>1 DEF Handled
        <4> QED
          BY <1>1, <3>1, <4>1, <4>2 DEF ServiceOK, DesktopInv
      <3> QED
        BY <3>2, <3>3
    <2>2. CASE TenSecondsPass
      BY <1>1, <2>2 DEF TenSecondsPass, ServiceOK, DesktopInv, Handled, serviceVars
    <2> QED
      BY <2>1, <2>2
  <1> QED
    BY <1>1, <1>2 DEF DesktopInv, Consistent, Faithful, FilesAreFaithful

LEMMA EventsTyped ==
    ASSUME events \in 0 .. MaxEvents, Happens
    PROVE  events' \in 0 .. MaxEvents
  BY BoundsTypes DEF Happens

(* A service that is gone, or is not registered, handles no device.        *)
LEMMA ServiceForgets ==
    ASSUME ServiceOK, service' \in {"absent", "leaving", "up"}, registered' = FALSE,
           status' = Forgotten, file' = file, truncated' = truncated, saving' \subseteq saving,
           unread' \in [Device -> SUBSET {"service", "gui"}],
           requests' \in Nat, events' \in 0 .. MaxEvents, misread' = misread, spoiled' = spoiled
    PROVE  ServiceOK'
  <1>1. Handled' = {} /\ status' \in [Device -> {"started", "stopped", "unknown"}]
    BY DEF Handled, Forgotten
  <1> QED
    BY <1>1 DEF ServiceOK

LEMMA ServiceTypes ==
    ASSUME DesktopInv, ServiceNext
    PROVE  ServiceOK' /\ KeepsFiles
  <1>1. /\ ServiceOK /\ (Happens => events' \in 0 .. MaxEvents) /\ (Request => requests' \in Nat)
        /\ events \in 0 .. MaxEvents /\ requests \in Nat
    BY EventsTyped, RequestTyped DEF DesktopInv, ServiceOK
  <1> USE <1>1 DEF KeepsFiles, Silent, SendIf, Send, historyVars, launcherVars, fileVars
  <1>2. CASE ServiceIsUp \/ DaemonIsStarting
    BY <1>2 DEF ServiceIsUp, DaemonIsStarting, ServiceOK, Handled
  <1>3. CASE ServiceGivesUp \/ ServiceExits
    BY <1>3 DEF ServiceGivesUp, ServiceExits, ServiceOK, Handled
  <1>4. CASE DaemonIsStopping
    <2>1. unread' \in [Device -> SUBSET {"service", "gui"}]
      BY <1>4 DEF DaemonIsStopping, ServiceOK
    <2> QED
      BY <1>4, <2>1, ServiceForgets DEF DaemonIsStopping
  <1>5. CASE ServiceIsKilled
    <2>1. unread' \in [Device -> SUBSET {"service", "gui"}]
      BY <1>5 DEF ServiceIsKilled
    <2> QED
      BY <1>5, <2>1, ServiceForgets DEF ServiceIsKilled
  <1>6. CASE LeaveForRestart
    <2>1. unread' \in [Device -> SUBSET {"service", "gui"}]
      BY <1>6 DEF LeaveForRestart, ServiceOK
    <2> QED
      BY <1>6, <2>1, ServiceForgets DEF LeaveForRestart
  <1>7. ASSUME NEW d \in Device, DeviceChanges(d)
        PROVE  ServiceOK' /\ KeepsFiles
    BY <1>7 DEF DeviceChanges, ServiceOK, Handled
  <1>8. ASSUME NEW d \in Device, TruncateFile(d)
        PROVE  ServiceOK' /\ KeepsFiles
    BY <1>8 DEF TruncateFile, ServiceOK, Handled
  <1>9. ASSUME NEW d \in Device, NotifyService(d)
        PROVE  ServiceOK' /\ KeepsFiles
    <2>1. unread' \in [Device -> SUBSET {"service", "gui"}]
      <3>1. PICK read \in SUBSET unread[d] : unread' = [unread EXCEPT ![d] = @ \ read]
        BY <1>9 DEF NotifyService
      <3> QED
        BY <3>1 DEF ServiceOK
    <2>2. /\ UNCHANGED <<service, registered, status, saving, file, truncated, requests, events>>
          /\ UNCHANGED <<misread, spoiled>>
      BY <1>9 DEF NotifyService
    <2> QED
      BY <2>1, <2>2 DEF ServiceOK, Handled
  <1>10. ASSUME NEW d \in Device, WriteFile(d)
         PROVE  ServiceOK' /\ KeepsFiles
    <2>1. file' \in [Device -> Content] /\ \A e \in Device : file[e]'.of = file[e].of
      <3> DEFINE written == [file[d] EXCEPT !.version = @ + 1]
      <3>1. file' = [file EXCEPT ![d] = written] /\ file \in [Device -> Content]
        BY <1>10 DEF WriteFile, ServiceOK
      <3>2. file[d] \in Content /\ file[d].version < MaxVersion
        BY <1>10, <3>1 DEF WriteFile
      <3>3. written \in Content /\ written.of = file[d].of
        BY <3>2, BoundsTypes DEF Content
      <3> HIDE DEF written
      <3> QED
        BY <3>1, <3>3
    <2>2. /\ UNCHANGED <<service, registered, status, requests, events>> /\ saving' = {}
          /\ UNCHANGED <<misread, spoiled>> /\ truncated' \subseteq truncated
          /\ unread' \in [Device -> SUBSET {"service", "gui"}]
      BY <1>10 DEF WriteFile, ServiceOK
    <2> QED
      BY <2>1, <2>2 DEF ServiceOK, Handled
  <1> QED
    BY <1>2, <1>3, <1>4, <1>5, <1>6, <1>7, <1>8, <1>9, <1>10 DEF ServiceNext

LEMMA ServiceSignals ==
    ASSUME DesktopInv, ServiceNext
    PROVE  Consistent(gui)' /\ (Faithful(gui, spoiled) => Faithful(gui, spoiled)') /\ misread' = misread
  <1> USE DEF DesktopInv
  <1>1. CASE ServiceIsUp \/ DaemonIsStarting \/ DaemonIsStopping \/ LeaveForRestart
    <2>1. Updated \in Signals
      BY DEF Signals
    <2> QED
      BY <1>1, <2>1, SendConsistent DEF ServiceIsUp, DaemonIsStarting, DaemonIsStopping, LeaveForRestart
  <1>2. CASE ServiceGivesUp \/ ServiceExits \/ ServiceIsKilled
    BY <1>2 DEF ServiceGivesUp, ServiceExits, ServiceIsKilled, Silent, historyVars, Consistent, Faithful
  <1>3. ASSUME NEW d \in Device, DeviceChanges(d) \/ TruncateFile(d) \/ WriteFile(d) \/ NotifyService(d)
        PROVE  Consistent(gui)' /\ (Faithful(gui, spoiled) => Faithful(gui, spoiled)') /\ misread' = misread
    <2>1. Updated \in Signals /\ \A own \in BOOLEAN : Saved(d, own) \in Signals
      BY DEF Signals
    <2>2. CASE TruncateFile(d)
      BY <2>2 DEF TruncateFile, Silent, historyVars, Consistent, Faithful
    <2> QED
      BY <1>3, <2>1, <2>2, SendConsistent DEF DeviceChanges, WriteFile, NotifyService
  <1> QED
    BY <1>1, <1>2, <1>3 DEF ServiceNext

LEMMA ServiceStep ==
    ASSUME DesktopInv, ServiceNext
    PROVE  DesktopInv'
  BY ServiceTypes, ServiceSignals DEF DesktopInv, KeepsFiles, FilesAreFaithful

-----------------------------------------------------------------------------
(* The steps of the interface.                                             *)

(* A step that touches neither the service nor the files.                  *)
LEMMA GUIStep ==
    ASSUME DesktopInv, OnlyGUI, requests' \in Nat, misread' \in BOOLEAN, spoiled' = spoiled,
           Consistent(gui)',
           ~misread' /\ (~misread => Faithful(gui, spoiled)) => Faithful(gui, spoiled)'
    PROVE  DesktopInv'
  BY DEF DesktopInv, ServiceOK, OnlyGUI, serviceVars, fileVars, Handled, FilesAreFaithful

LEMMA CallsStep ==
    ASSUME DesktopInv, GUICall
    PROVE  DesktopInv'
  <1> USE DEF DesktopInv
  <1>1. requests \in Nat /\ misread \in BOOLEAN
    BY DEF ServiceOK
  <1>2. CASE GetExecutablesDependenciesMap
    <2>1. OnlyGUI /\ spoiled' = spoiled /\ misread' = misread /\ requests' \in Nat
      BY <1>1, <1>2, RequestTyped DEF GetExecutablesDependenciesMap, historyVars
    <2>2. gui' = ResetInterface(gui) \/ gui' = [gui EXCEPT !.pc = "retry"] \/ gui' = Off
      BY <1>2 DEF GetExecutablesDependenciesMap
    <2>3. (gui.pc = "map" \/ gui.pc = "retry") /\ ~gui.box
      BY <1>2 DEF GetExecutablesDependenciesMap, Consistent
    <2>4. CASE gui' = [gui EXCEPT !.pc = "retry"]
      <3>1. Consistent(gui)' /\ Faithful(gui, spoiled)'
        BY <2>3, <2>4 DEF Consistent, Faithful, GUIState, Pcs
      <3> QED
        BY <1>1, <2>1, <3>1, GUIStep
    <2> QED
      BY <1>1, <2>1, <2>2, <2>3, <2>4, ResetConsistent, OffConsistent, GUIStep
  <1>3. CASE GetInformations
    <2>1. OnlyGUI /\ spoiled' = spoiled /\ misread' = misread /\ requests' = requests
      BY <1>3 DEF GetInformations, historyVars, launcherVars
    <2>2. Consistent(gui)' /\ Faithful(gui, spoiled)'
      BY <1>3 DEF GetInformations, Rest, Consistent, Faithful, GUIState, Pcs
    <2> QED
      BY <1>1, <2>1, <2>2, GUIStep
  <1>4. CASE GetDevicesList
    <2>1. OnlyGUI /\ spoiled' = spoiled /\ misread' = misread /\ requests' = requests
      BY <1>4 DEF GetDevicesList, historyVars, launcherVars
    <2>2. Consistent(gui)' /\ Faithful(gui, spoiled)'
      BY <1>4 DEF GetDevicesList, Rest, Consistent, Faithful, GUIState, Pcs, Handled
    <2> QED
      BY <1>1, <2>1, <2>2, GUIStep
  <1>5. CASE GetDeviceLCDPluginsProperties
    <2>1. OnlyGUI /\ spoiled' = spoiled /\ misread' = (misread \/ service # "up") /\ requests' = requests
      BY <1>5 DEF GetDeviceLCDPluginsProperties, launcherVars
    <2>2. gui.pc = "plugins" /\ gui.selected \in Device
      BY <1>5 DEF GetDeviceLCDPluginsProperties, Consistent, GUIState
    <2>3. Consistent(gui)'
      BY <1>5, <2>2 DEF GetDeviceLCDPluginsProperties, Consistent, GUIState, Pcs
    <2>4. service = "up" /\ Faithful(gui, spoiled) => Faithful(gui, spoiled)'
      BY <1>5, <2>2 DEF GetDeviceLCDPluginsProperties, Consistent, Faithful, GUIState
    <2> QED
      BY <1>1, <2>1, <2>3, <2>4, GUIStep
  <1>6. CASE DeclareSignals
    <2>1. OnlyGUI /\ spoiled' = spoiled /\ misread' = misread /\ requests' = requests
      BY <1>6 DEF DeclareSignals, historyVars, launcherVars
    <2>2. Consistent(gui)' /\ Faithful(gui, spoiled)'
      BY <1>6 DEF DeclareSignals, Consistent, Faithful, GUIState, Pcs
    <2> QED
      BY <1>1, <2>1, <2>2, GUIStep
  <1> QED
    BY <1>2, <1>3, <1>4, <1>5, <1>6 DEF GUICall

LEMMA MessagesStep ==
    ASSUME DesktopInv, CheckDBusMessages
    PROVE  DesktopInv'
  <1> USE DEF DesktopInv
  <1>1. requests \in Nat /\ misread \in BOOLEAN
    BY DEF ServiceOK
  <1>2. OnlyGUI /\ spoiled' = spoiled /\ misread' = misread /\ requests' = requests /\ gui.pc = "idle" /\ gui.inbox # <<>> /\ ~gui.box
    BY DEF CheckDBusMessages, ConfigurationFileUpdated, Swallow, historyVars, launcherVars
  <1>3. /\ gui.inbox \in Seq(Signals) /\ Head(gui.inbox) \in Signals /\ Tail(gui.inbox) \in Seq(Signals)
        /\ Len(Tail(gui.inbox)) <= MaxSignals
    BY <1>2, DesktopAssumption DEF Consistent, GUIState
  <1>4. CASE gui' = ResetInterface([gui EXCEPT !.inbox = Tail(@)])
    <2>1. Consistent([gui EXCEPT !.inbox = Tail(@)]) /\ ~[gui EXCEPT !.inbox = Tail(@)].box
      BY <1>2, <1>3 DEF Consistent, GUIState
    <2> QED
      BY <1>1, <1>2, <1>4, <2>1, ResetConsistent, GUIStep
  <1>5. CASE ConfigurationFileUpdated(Head(gui.inbox)) /\ Head(gui.inbox).name # "DevicesUpdated"
    <2>1. Consistent(gui)' /\ (Faithful(gui, spoiled) => Faithful(gui, spoiled)')
      <3>1. PICK n \in BOOLEAN :
               /\ gui' = [gui EXCEPT !.inbox = Tail(@), !.ignore = FALSE, !.box = n]
               /\ n => Head(gui.inbox).device = gui.selected
        <4> DEFINE n == ~gui.ignore /\ Head(gui.inbox).device = gui.selected
        <4>1. gui' = [gui EXCEPT !.inbox = Tail(@), !.ignore = FALSE, !.box = n] /\ n \in BOOLEAN
          BY <1>5 DEF ConfigurationFileUpdated
        <4> QED
          BY <4>1
      <3>2. n => gui.selected # None
        <4>1. PICK d \in Device, own \in BOOLEAN : Head(gui.inbox) = Saved(d, own)
          BY <1>3, <1>5 DEF Signals, Updated
        <4> QED
          BY <3>1, <4>1, DesktopAssumption DEF Saved
      <3>3. gui' \in GUIState /\ Len(gui'.inbox) <= MaxSignals
        BY <1>3, <3>1 DEF Consistent, GUIState
      <3>4. /\ gui'.pc = gui.pc /\ gui'.list = gui.list /\ gui'.started = gui.started /\ gui'.start = gui.start
            /\ gui'.selected = gui.selected /\ gui'.path = gui.path /\ gui'.opened = gui.opened
            /\ gui'.shown = gui.shown /\ gui'.enabled = gui.enabled /\ gui'.box = n
        BY <3>1 DEF Consistent, GUIState
      <3> QED
        BY <1>2, <3>2, <3>3, <3>4, OnlyMessages
    <2> QED
      BY <1>1, <1>2, <2>1, GUIStep
  <1> QED
    BY <1>4, <1>5 DEF CheckDBusMessages

(* What a tab writes into the file of the path is what was opened, with    *)
(* the settings that the tab shows.                                        *)
LEMMA ApplyStep ==
    ASSUME DesktopInv, NEW t \in Tab, ApplyChanges(t)
    PROVE  DesktopInv'
  <1> DEFINE d == gui.path
             changed == Changed(gui.opened, t)
             g == [gui EXCEPT !.ignore = TRUE]
  <1> USE DEF DesktopInv
  <1>1. /\ gui.pc = "idle" /\ gui.enabled /\ d \in Device /\ gui.selected = d /\ d \in gui.started /\ ~gui.box
        /\ gui.shown[t] \in Device /\ d \in gui.list
    BY DesktopAssumption DEF ApplyChanges, UserMayAct, Consistent, GUIState
  <1>2. changed \in Content
    <2>1. file[d] \in Content /\ file[d].version < MaxVersion /\ gui.opened \in Content
      BY <1>1 DEF ApplyChanges, ServiceOK, Consistent, GUIState
    <2> QED
      BY <1>1, <2>1, DesktopAssumption DEF Changed, Content
  <1>3. Faithful(gui, spoiled) => d \in spoiled \/ changed.of = {d}
    BY <1>1 DEF Faithful, Changed
  <1>4. PICK written \in BOOLEAN :
           LET kept == ~written /\ ~Readable(d) IN
           /\ file' = IF written THEN [file EXCEPT ![d] = changed] ELSE file
           /\ unread' = IF written /\ service = "up"
                        THEN [unread EXCEPT ![d] = @ \cup {"gui"}] ELSE unread
           /\ gui' = [OpenDevice(g, d) EXCEPT !.opened = IF kept THEN changed ELSE file'[d]]
           /\ misread' = kept
           /\ truncated' = IF written THEN truncated \ {d} ELSE truncated
           /\ spoiled' = IF written /\ misread THEN spoiled \cup {d} ELSE spoiled
    BY <1>1 DEF ApplyChanges
  <1>5. file' \in [Device -> Content] /\ file'[d] \in Content
    BY <1>1, <1>2, <1>4 DEF ServiceOK
  <1>6. ServiceOK'
    <2>1. unread' \in [Device -> SUBSET {"service", "gui"}]
      BY <1>1, <1>4 DEF ServiceOK
    <2>2. UNCHANGED <<service, registered, status, saving, requests, events>>
      BY DEF ApplyChanges, launcherVars
    <2> QED
      BY <1>4, <1>5, <2>1, <2>2 DEF ServiceOK, Handled
  <1>7. Consistent(g) /\ g.pc = "idle" /\ ~g.box /\ g.list = gui.list /\ d \in g.started
    BY <1>1 DEF Consistent, GUIState
  <1>8. Consistent(OpenDevice(g, d))
    BY <1>1, <1>7, OpenConsistent DEF ServiceOK
  <1>9. Consistent(gui)'
    BY <1>2, <1>4, <1>5, <1>8 DEF Consistent, GUIState
  <1>10. FilesAreFaithful'
    <2>1. \A e \in Device \ {d} : file'[e] = file[e] /\ (e \in spoiled' <=> e \in spoiled)
      BY <1>1, <1>4 DEF ServiceOK
    <2>2. d \in spoiled' \/ file'[d].of = {d}
      BY <1>1, <1>3, <1>4 DEF ServiceOK, FilesAreFaithful
    <2> QED
      BY <2>1, <2>2 DEF FilesAreFaithful
  <1>11. ASSUME ~misread'
         PROVE  Faithful(gui, spoiled)'
    <2>1. gui'.pc = "plugins" /\ gui'.path = d
      BY <1>1, <1>4, <1>7, <1>8 DEF OpenDevice, Consistent, GUIState
    <2>2. gui'.opened = file'[d]
      BY <1>1, <1>4, <1>7, <1>8, <1>11 DEF OpenDevice, Consistent, GUIState
    <2> QED
      BY <1>1, <1>10, <2>1, <2>2 DEF Faithful, FilesAreFaithful
  <1> QED
    BY <1>6, <1>9, <1>10, <1>11

LEMMA UserStep ==
    ASSUME DesktopInv, User
    PROVE  DesktopInv'
  <1> USE DEF DesktopInv
  <1>1. requests \in Nat /\ misread \in BOOLEAN /\ file \in [Device -> Content]
    BY DEF ServiceOK
  <1>2. CASE StartGUI
    <2>1. Consistent(gui)' /\ (Faithful(gui, spoiled) => Faithful(gui, spoiled)')
      BY <1>2 DEF StartGUI, Consistent, Faithful, GUIState, Pcs
    <2> QED
      BY <1>1, <1>2, <2>1, GUIStep DEF StartGUI, historyVars, launcherVars
  <1>3. CASE CloseBox
    <2> DEFINE g == [gui EXCEPT !.box = FALSE]
    <2>1. Consistent(g) /\ g.pc = "idle" /\ ~g.box
      BY <1>3, DesktopAssumption DEF CloseBox, Consistent, GUIState
    <2>2. OnlyGUI /\ UNCHANGED <<requests, spoiled>> /\ gui' = UpdateInterface(g) /\ misread' = Misread(g)
      BY <1>3 DEF CloseBox, NewView, launcherVars
    <2> QED
      BY <1>1, <2>1, <2>2, UpdateConsistent, GUIStep DEF Misread, ServiceOK
  <1>4. CASE PressStart
    <2>1. Consistent(gui)' /\ (Faithful(gui, spoiled) => Faithful(gui, spoiled)')
      BY <1>4 DEF PressStart, UserMayAct, historyVars, Consistent, Faithful, GUIState
    <2> QED
      BY <1>1, <1>4, <2>1, RequestTyped, GUIStep DEF PressStart, historyVars
  <1>5. CASE Quit
    BY <1>1, <1>5, OffConsistent, GUIStep DEF Quit, historyVars, launcherVars
  <1>6. ASSUME NEW d \in Device \cup {None}, SelectDevice(d)
        PROVE  DesktopInv'
    <2> DEFINE g == [gui EXCEPT !.selected = d]
    <2>1. OnlyGUI /\ UNCHANGED <<requests, spoiled>> /\ gui' = UpdateInterface(g) /\ misread' = Misread(g)
      BY <1>6 DEF SelectDevice, NewView, launcherVars
    <2>2. CASE d = None
      <3>1. UpdateInterface(g) = [gui EXCEPT !.selected = None, !.enabled = FALSE, !.pc = "idle"]
        BY <2>2 DEF UpdateInterface, SelectNone, Consistent, GUIState
      <3>2. gui.pc = "idle" /\ ~gui.box
        BY <1>6 DEF SelectDevice, UserMayAct
      <3>3. Consistent(SelectNone(gui)) /\ Faithful(SelectNone(gui), spoiled) /\ spoiled' = spoiled
        BY <2>1, <3>2, SelectNoneConsistent
      <3>4. Consistent(gui)' /\ Faithful(gui, spoiled)'
        BY <2>1, <3>1, <3>3 DEF SelectNone
      <3> QED
        BY <1>1, <2>1, <3>4, GUIStep DEF Misread
    <2>3. CASE d # None
      <3>1. d \in Device /\ d \in gui.list /\ gui.pc = "idle" /\ ~gui.box
        BY <1>6, <2>3 DEF SelectDevice, UserMayAct
      <3>2. g.selected = d
        BY DEF Consistent, GUIState
      <3>3. UpdateInterface(g) = OpenDevice(g, d)
        BY <2>3, <3>2 DEF UpdateInterface
      <3>4. OpenDevice(g, d) = OpenDevice(gui, d)
        <4>1. g.started = gui.started
          BY DEF Consistent, GUIState
        <4>2. CASE d \notin gui.started
          BY <4>1, <4>2 DEF OpenDevice, Consistent, GUIState
        <4>3. CASE d \in gui.started
          BY <4>1, <4>3 DEF OpenDevice, Consistent, GUIState
        <4> QED
          BY <4>2, <4>3
      <3>5. Consistent(gui)'
        BY <1>1, <2>1, <3>1, <3>3, <3>4, OpenConsistent
      <3>6. ASSUME ~Misread(g)
            PROVE  Faithful(gui, spoiled)'
        <4>1. d \notin gui.started \/ Readable(d)
          BY <3>2, <3>6 DEF Misread, Consistent, GUIState
        <4> QED
          BY <1>1, <2>1, <3>1, <3>3, <3>4, <4>1, OpenConsistent DEF FilesAreFaithful
      <3> QED
        BY <1>1, <2>1, <3>1, <3>5, <3>6, GUIStep DEF Misread
    <2> QED
      BY <2>2, <2>3
  <1> QED
    BY <1>2, <1>3, <1>4, <1>5, <1>6, ApplyStep DEF User

-----------------------------------------------------------------------------
(* What holds in every state.                                              *)

LEMMA DesktopInvInit == DesktopInit => DesktopInv
  <1> SUFFICES ASSUME DesktopInit PROVE DesktopInv
    OBVIOUS
  <1> USE DEF DesktopInit
  <1>1. file \in [Device -> Content] /\ FilesAreFaithful
    BY BoundsTypes DEF ContentOf, Content, FilesAreFaithful
  <1>2. ServiceOK
    <2>1. Handled = {} /\ status \in [Device -> {"started", "stopped", "unknown"}]
      BY DEF Handled
    <2>2. unread \in [Device -> SUBSET {"service", "gui"}] /\ saving = {}
          /\ misread = FALSE /\ truncated = {} /\ spoiled = {}
      OBVIOUS
    <2>3. requests \in Nat /\ events \in 0 .. MaxEvents
      BY BoundsTypes
    <2> QED
      BY <1>1, <2>1, <2>2, <2>3 DEF ServiceOK
  <1> QED
    BY <1>1, <1>2, OffConsistent DEF DesktopInv

LEMMA DesktopInvStep ==
    ASSUME DesktopInv, [DesktopNext]_desktopVars
    PROVE  DesktopInv'
  <1>1. CASE UNCHANGED desktopVars
    BY <1>1 DEF desktopVars, serviceVars, fileVars, launcherVars, historyVars, DesktopInv, ServiceOK,
                Handled, Consistent, Faithful, FilesAreFaithful
  <1> QED
    BY <1>1, LauncherStep, ServiceStep, CallsStep, MessagesStep, UserStep DEF DesktopNext

(* The types, and what the enabled tabs and the start button are about.    *)
THEOREM DesktopTypes == DesktopSpec => []DesktopTypeOK
  <1>1. DesktopInv => DesktopTypeOK
    BY DEF DesktopInv, ServiceOK, Consistent, GUIState, DesktopTypeOK
  <1> QED
    BY <1>1, DesktopInvInit, DesktopInvStep, PTL DEF DesktopSpec

(* saveConfigurationFileAndUpdateInterface() writes into the file of a     *)
(* device what was read from it, with what the tabs show of it, whatever   *)
(* the user selects while devices come and go and processes stop.  The     *)
(* files it saved while the window had not been able to read what it shows *)
(* are excepted, and only those: no other file is harmed by a failed read. *)
THEOREM FilesStayWithTheirDevice == DesktopSpec => []FilesKeepTheirDevice
  <1>1. DesktopInv => FilesKeepTheirDevice
    BY DEF DesktopInv, FilesAreFaithful, FilesKeepTheirDevice
  <1> QED
    BY <1>1, DesktopInvInit, DesktopInvStep, PTL DEF DesktopSpec
-----------------------------------------------------------------------------
(* What the user sees of a file.                                           *)

ToldIfStale(g) ==
    g.enabled \/ g.pc = "plugins" => g.opened.version = file[g.path].version \/ Told(g, g.path)

Listens(g) == g.pc \in {"idle", "plugins"} => g.listens

StaleInv ==
    /\ DesktopInv
    /\ Listens(gui)
    /\ ~misread /\ ~swallowed => ToldIfStale(gui)

(* What is in a sequence is its head or in its tail, and stays in it when  *)
(* more comes.                                                             *)
LEMMA HeadOrTail ==
    ASSUME NEW S, NEW q \in Seq(S), q # <<>>, NEW P, \E i \in DOMAIN q : q[i] \in P
    PROVE  Head(q) \in P \/ \E i \in DOMAIN Tail(q) : Tail(q)[i] \in P
  <1>1. PICK i \in DOMAIN q : q[i] \in P
    OBVIOUS
  <1>2. CASE i = 1
    BY <1>1, <1>2
  <1>3. CASE i # 1
    <2>1. i - 1 \in DOMAIN Tail(q) /\ Tail(q)[i - 1] = q[i]
      BY <1>1, <1>3
    <2> QED
      BY <1>1, <2>1
  <1> QED
    BY <1>2, <1>3

LEMMA AppendKeeps ==
    ASSUME NEW S, NEW q \in Seq(S), NEW e \in S, NEW P, e \in P \/ \E i \in DOMAIN q : q[i] \in P
    PROVE  \E i \in DOMAIN Append(q, e) : Append(q, e)[i] \in P
  <1>1. /\ DOMAIN Append(q, e) = 1 .. (Len(q) + 1) /\ Append(q, e)[Len(q) + 1] = e /\ Len(q) \in Nat
        /\ DOMAIN q = 1 .. Len(q) /\ \A i \in 1 .. Len(q) : Append(q, e)[i] = q[i]
    OBVIOUS
  <1>2. CASE e \in P
    BY <1>1, <1>2
  <1>3. CASE \E i \in DOMAIN q : q[i] \in P
    BY <1>1, <1>3
  <1> QED
    BY <1>2, <1>3

(* A signal, or none, reaches an interface that listens.                   *)
LEMMA SendTells ==
    ASSUME DesktopInv, Listens(gui), NEW signal \in Signals, Send(signal)
    PROVE  /\ Listens(gui)' /\ swallowed' = swallowed
           /\ UNCHANGED <<gui.enabled, gui.pc, gui.opened, gui.path>>
           /\ \A d \in Device :
                 /\ Told(gui, d) => Told(gui', d)
                 /\ gui.pc \in {"idle", "plugins"} /\ signal = Saved(d, FALSE) => Told(gui', d)
  <1>1. gui \in GUIState /\ gui.inbox \in Seq(Signals)
    BY DEF DesktopInv, Consistent, GUIState
  <1>2. swallowed' = swallowed
    BY DEF Send, historyVars
  <1>3. CASE gui.listens
    <2>1. gui' = [gui EXCEPT !.inbox = Append(@, signal)]
      BY <1>3 DEF Send
    <2>2. /\ gui'.inbox = Append(gui.inbox, signal) /\ gui'.box = gui.box /\ gui'.pc = gui.pc
          /\ gui'.enabled = gui.enabled /\ gui'.opened = gui.opened /\ gui'.path = gui.path
          /\ gui'.listens = gui.listens
      BY <1>1, <2>1 DEF GUIState
    <2>3. ASSUME NEW d \in Device, Told(gui, d) \/ signal = Saved(d, FALSE)
          PROVE  Told(gui', d)
      <3> DEFINE P == {Updated, Saved(d, FALSE)}
      <3>1. CASE gui.box
        BY <2>2, <3>1 DEF Told
      <3>2. CASE signal \in P \/ \E i \in DOMAIN gui.inbox : gui.inbox[i] \in P
        <4> HIDE DEF P
        <4>1. \E i \in DOMAIN Append(gui.inbox, signal) : Append(gui.inbox, signal)[i] \in P
          BY <1>1, <3>2, AppendKeeps
        <4> QED
          BY <2>2, <4>1 DEF Told, P
      <3> QED
        BY <2>3, <3>1, <3>2 DEF Told
    <2> QED
      BY <1>2, <2>2, <2>3 DEF Listens
  <1>4. CASE ~gui.listens
    <2>1. gui' = [gui EXCEPT !.missed = gui.pc = "declare"]
      BY <1>4 DEF Send
    <2>2. /\ gui'.inbox = gui.inbox /\ gui'.box = gui.box /\ gui'.pc = gui.pc
          /\ gui'.enabled = gui.enabled /\ gui'.opened = gui.opened /\ gui'.path = gui.path
          /\ gui'.listens = gui.listens
      BY <1>1, <2>1 DEF GUIState
    <2> QED
      BY <1>2, <1>4, <2>2 DEF Listens, Told
  <1> QED
    BY <1>3, <1>4

(* A step that leaves the interface alone, or sends it a signal, and       *)
(* writes no file.                                                         *)
LEMMA OthersStale ==
    ASSUME StaleInv, DesktopInv', NEW signal \in Signals, Silent \/ Send(signal), misread' = misread,
           file' = file \/ \E d \in Device : signal = Saved(d, FALSE) /\ Send(signal)
                                             /\ \A e \in Device \ {d} : file'[e] = file[e]
    PROVE  StaleInv'
  <1> USE DEF StaleInv
  <1>1. CASE Silent /\ file' = file
    <2>1. gui' = gui /\ swallowed' = swallowed /\ file' = file /\ misread' = misread
      BY <1>1 DEF Silent, historyVars
    <2>2. Listens(gui)' = Listens(gui)
      BY <2>1 DEF Listens
    <2>3. ToldIfStale(gui) => ToldIfStale(gui)'
      BY <2>1 DEF ToldIfStale, Told
    <2> QED
      BY <2>1, <2>2, <2>3
  <1>2. CASE Send(signal)
    <2>1. Listens(gui)' /\ swallowed' = swallowed /\ UNCHANGED <<gui.enabled, gui.pc, gui.opened, gui.path>>
      BY <1>2, SendTells
    <2>2. ASSUME ~misread, ~swallowed, gui.enabled \/ gui.pc = "plugins"
          PROVE  gui.opened.version = file'[gui.path].version \/ Told(gui', gui.path)
      <3>1. gui.path \in Device /\ gui.pc \in {"idle", "plugins"}
        BY <2>2 DEF DesktopInv, Consistent, GUIState
      <3>2. gui.opened.version = file[gui.path].version \/ Told(gui, gui.path)
        BY <2>2 DEF ToldIfStale
      <3>3. Told(gui, gui.path) => Told(gui', gui.path)
        BY <1>2, <3>1, SendTells
      <3>4. signal = Saved(gui.path, FALSE) => Told(gui', gui.path)
        BY <1>2, <3>1, SendTells
      <3> QED
        BY <3>1, <3>2, <3>3, <3>4
    <2>3. ~misread' /\ ~swallowed' => ToldIfStale(gui)'
      BY <2>1, <2>2 DEF ToldIfStale, Told
    <2> QED
      BY <2>1, <2>3
  <1> QED
    BY <1>1, <1>2

LEMMA ServiceStale ==
    ASSUME StaleInv, DesktopInv', SpawnService \/ TenSecondsPass \/ ServiceNext
    PROVE  StaleInv'
  <1>1. Updated \in Signals /\ \A d \in Device, own \in BOOLEAN : Saved(d, own) \in Signals
    BY DEF Signals
  <1>2. Silent => misread' = misread
    BY DEF Silent, historyVars
  <1>3. \A signal : Send(signal) => misread' = misread
    BY DEF Send, historyVars
  <1>4. CASE SpawnService \/ TenSecondsPass \/ ServiceGivesUp \/ ServiceExits \/ ServiceIsKilled
    BY <1>1, <1>2, <1>4, OthersStale
       DEF SpawnService, TenSecondsPass, ServiceGivesUp, ServiceExits, ServiceIsKilled, fileVars
  <1>5. CASE ServiceIsUp \/ DaemonIsStarting \/ DaemonIsStopping \/ LeaveForRestart
    <2>1. file' = file /\ (Silent \/ Send(Updated))
      BY <1>5 DEF ServiceIsUp, DaemonIsStarting, DaemonIsStopping, LeaveForRestart, SendIf, fileVars
    <2> QED
      BY <1>1, <1>2, <1>3, <2>1, OthersStale
  <1>6. ASSUME NEW d \in Device, DeviceChanges(d) \/ TruncateFile(d) \/ NotifyService(d)
        PROVE  StaleInv'
    <2>1. file' = file /\ (Silent \/ Send(Updated) \/ Send(Saved(d, TRUE)))
      BY <1>6 DEF DeviceChanges, TruncateFile, NotifyService, SendIf, fileVars
    <2> QED
      BY <1>1, <1>2, <1>3, <2>1, OthersStale
  <1>7. ASSUME NEW d \in Device, WriteFile(d)
        PROVE  StaleInv'
    <2>1. Send(Saved(d, FALSE)) /\ \A e \in Device \ {d} : file'[e] = file[e]
      BY <1>7 DEF WriteFile, StaleInv, DesktopInv, ServiceOK
    <2> QED
      BY <1>1, <1>3, <2>1, OthersStale
  <1> QED
    BY <1>4, <1>5, <1>6, <1>7 DEF ServiceNext

(* Nothing can be stale where no tab is enabled.                           *)
LEMMA NothingStale ==
    ASSUME DesktopInv', Listens(gui)', ~gui'.enabled, gui'.pc # "plugins"
    PROVE  StaleInv'
  BY DEF StaleInv, ToldIfStale

LEMMA CallsStale ==
    ASSUME StaleInv, DesktopInv', GUICall
    PROVE  StaleInv'
  <1>0. Consistent(gui) /\ gui \in GUIState
    BY DEF StaleInv, DesktopInv, Consistent
  <1>1. CASE GetExecutablesDependenciesMap
    <2>1. ~gui.enabled
      BY <1>0, <1>1 DEF GetExecutablesDependenciesMap, Consistent
    <2>2. /\ gui' = ResetInterface(gui) \/ gui' = [gui EXCEPT !.pc = "retry"] \/ gui' = Off
      BY <1>1 DEF GetExecutablesDependenciesMap
    <2>3. CASE gui' = ResetInterface(gui)
      BY <1>0, <2>3, NothingStale DEF ResetInterface, SelectNone, GUIState, Listens
    <2>4. CASE gui' = [gui EXCEPT !.pc = "retry"]
      BY <1>0, <2>1, <2>4, NothingStale DEF GUIState, Listens
    <2>5. CASE gui' = Off
      BY <2>5, NothingStale DEF Off, Listens
    <2> QED
      BY <2>2, <2>3, <2>4, <2>5
  <1>2. CASE GetInformations \/ GetDevicesList \/ DeclareSignals
    <2>1. ~gui.enabled
      BY <1>0, <1>2 DEF GetInformations, GetDevicesList, DeclareSignals, Consistent
    <2>2. ~gui'.enabled /\ gui'.pc # "plugins" /\ Listens(gui)'
      BY <1>0, <1>2, <2>1 DEF GetInformations, GetDevicesList, DeclareSignals, Rest, GUIState, Listens
    <2> QED
      BY <2>2, NothingStale
  <1>3. CASE GetDeviceLCDPluginsProperties
    <2>1. /\ gui.pc = "plugins" /\ gui'.pc = "idle" /\ gui'.listens = gui.listens /\ gui'.inbox = gui.inbox
          /\ gui'.box = gui.box /\ gui'.opened = gui.opened /\ gui'.path = gui.path /\ file' = file
          /\ (~misread' => ~misread) /\ (~swallowed' => ~swallowed)
      BY <1>0, <1>3 DEF GetDeviceLCDPluginsProperties, OnlyGUI, fileVars, GUIState
    <2> QED
      BY <2>1 DEF StaleInv, Listens, ToldIfStale, Told
  <1> QED
    BY <1>1, <1>2, <1>3 DEF GUICall

LEMMA MessagesStale ==
    ASSUME StaleInv, DesktopInv', CheckDBusMessages
    PROVE  StaleInv'
  <1> DEFINE s == Head(gui.inbox)
  <1>0. /\ Consistent(gui) /\ gui \in GUIState /\ gui.inbox \in Seq(Signals) /\ gui.inbox # <<>> /\ gui.pc = "idle"
        /\ gui.listens /\ file' = file
    BY DEF StaleInv, DesktopInv, Consistent, GUIState, CheckDBusMessages, Listens, OnlyGUI, fileVars
  <1>1. CASE gui' = ResetInterface([gui EXCEPT !.inbox = Tail(@)])
    <2>1. ~gui'.enabled /\ gui'.pc \notin {"idle", "plugins"}
      BY <1>0, <1>1 DEF ResetInterface, SelectNone, GUIState
    <2> QED
      BY <2>1, NothingStale DEF Listens
  <1>2. CASE ConfigurationFileUpdated(s) /\ s.name # "DevicesUpdated"
    <2>1. s \in Signals /\ s # Updated
      BY <1>0, <1>2 DEF Updated
    <2>2. PICK n \in BOOLEAN :
            /\ gui' = [gui EXCEPT !.inbox = Tail(@), !.ignore = FALSE, !.box = n]
            /\ ~gui.ignore /\ s.device = gui.selected => n
      <3> DEFINE n == ~gui.ignore /\ s.device = gui.selected
      <3>1. gui' = [gui EXCEPT !.inbox = Tail(@), !.ignore = FALSE, !.box = n] /\ n \in BOOLEAN
        BY <1>2 DEF ConfigurationFileUpdated
      <3> QED
        BY <3>1
    <2>3. /\ gui'.inbox = Tail(gui.inbox) /\ gui'.box = n /\ gui'.pc = gui.pc /\ gui'.listens = gui.listens
          /\ gui'.enabled = gui.enabled /\ gui'.opened = gui.opened /\ gui'.path = gui.path
      BY <1>0, <2>2 DEF GUIState
    <2>4. misread' = misread
          /\ swallowed' = (swallowed \/ (gui.ignore /\ s.device = gui.selected /\ ~s.own))
      BY <1>2 DEF ConfigurationFileUpdated, Swallow
    <2>5. ASSUME ~misread, ~swallowed', gui.enabled
          PROVE  gui.opened.version = file[gui.path].version \/ Told(gui', gui.path)
      <3>1. gui.selected = gui.path /\ gui.path \in Device
        BY <1>0, <2>5 DEF Consistent, GUIState
      <3>2. gui.opened.version = file[gui.path].version \/ Told(gui, gui.path)
        BY <2>4, <2>5 DEF StaleInv, ToldIfStale
      <3>3. ~gui.box
        BY DEF CheckDBusMessages
      <3>4. CASE \E i \in DOMAIN gui.inbox : gui.inbox[i] \in {Updated, Saved(gui.path, FALSE)}
        <4>1. s \in {Updated, Saved(gui.path, FALSE)}
              \/ \E i \in DOMAIN Tail(gui.inbox) : Tail(gui.inbox)[i] \in {Updated, Saved(gui.path, FALSE)}
          BY <1>0, <3>4, HeadOrTail
        <4>2. CASE s = Saved(gui.path, FALSE)
          <5>1. s.device = gui.selected /\ s.own = FALSE
            BY <3>1, <4>2 DEF Saved
          <5>2. ~gui.ignore
            BY <2>4, <2>5, <5>1
          <5> QED
            BY <2>2, <2>3, <5>1, <5>2 DEF Told
        <4> QED
          BY <2>1, <2>3, <4>1, <4>2 DEF Told
      <3> QED
        BY <3>2, <3>3, <3>4 DEF Told
    <2> QED
      BY <1>0, <2>3, <2>4, <2>5 DEF StaleInv, Listens, ToldIfStale
  <1> QED
    BY <1>1, <1>2 DEF CheckDBusMessages

(* updateInterface() shows the file of the selected device as it is.       *)
LEMMA OpenedIsCurrent ==
    ASSUME NEW g, g \in GUIState, g.pc = "idle", g.listens, NEW d \in Device
    PROVE  /\ OpenDevice(g, d).listens
           /\ OpenDevice(g, d).enabled \/ OpenDevice(g, d).pc = "plugins" => d \in g.started
           /\ d \in g.started /\ Readable(d) =>
                 OpenDevice(g, d).path = d /\ OpenDevice(g, d).opened = file[d]
  BY DEF OpenDevice, GUIState

LEMMA UserStale ==
    ASSUME StaleInv, DesktopInv', User
    PROVE  StaleInv'
  <1>0. Consistent(gui) /\ gui \in GUIState
    BY DEF StaleInv, DesktopInv, Consistent
  <1>1. ASSUME NEW g \in GUIState, g.pc = "idle", g.listens, gui' = UpdateInterface(g),
               ~misread' => ~Misread(g), file' = file
        PROVE  StaleInv'
    <2>1. CASE g.selected = None
      <3>1. ~gui'.enabled /\ gui'.pc = "idle" /\ gui'.listens
        BY <1>1, <2>1 DEF UpdateInterface, SelectNone, GUIState
      <3> QED
        BY <3>1, NothingStale DEF Listens
    <2>2. CASE g.selected # None
      <3>1. g.selected \in Device /\ gui' = OpenDevice(g, g.selected)
        BY <1>1, <2>2 DEF UpdateInterface, GUIState
      <3>2. /\ gui'.listens
            /\ gui'.enabled \/ gui'.pc = "plugins" => g.selected \in g.started
            /\ g.selected \in g.started /\ Readable(g.selected)
                  => gui'.path = g.selected /\ gui'.opened = file[g.selected]
        BY <1>1, <3>1, OpenedIsCurrent
      <3> QED
        BY <1>1, <3>2 DEF StaleInv, Listens, ToldIfStale, Misread
    <2> QED
      BY <2>1, <2>2
  <1>2. CASE StartGUI
    <2>1. ~gui'.enabled /\ gui'.pc = "map"
      BY <1>0, <1>2 DEF StartGUI, Consistent, GUIState
    <2> QED
      BY <2>1, NothingStale DEF Listens
  <1>3. CASE CloseBox
    <2> DEFINE g == [gui EXCEPT !.box = FALSE]
    <2>1. g \in GUIState /\ g.pc = "idle" /\ g.listens
      BY <1>0, <1>3, DesktopAssumption DEF CloseBox, GUIState, StaleInv, Listens
    <2> QED
      BY <1>1, <1>3, <2>1 DEF CloseBox, OnlyGUI, NewView, fileVars
  <1>4. CASE PressStart
    <2>1. gui' = [gui EXCEPT !.start = FALSE] /\ misread' = misread /\ swallowed' = swallowed /\ file' = file
      BY <1>4 DEF PressStart, OnlyGUI, fileVars, historyVars
    <2>2. /\ gui'.inbox = gui.inbox /\ gui'.box = gui.box /\ gui'.pc = gui.pc /\ gui'.listens = gui.listens
          /\ gui'.enabled = gui.enabled /\ gui'.opened = gui.opened /\ gui'.path = gui.path
      BY <1>0, <2>1 DEF GUIState
    <2> QED
      BY <2>1, <2>2 DEF StaleInv, Listens, ToldIfStale, Told
  <1>5. CASE Quit
    <2>1. ~gui'.enabled /\ gui'.pc = "off"
      BY <1>5 DEF Quit, Off
    <2> QED
      BY <2>1, NothingStale DEF Listens
  <1>6. ASSUME NEW d \in Device \cup {None}, SelectDevice(d)
        PROVE  StaleInv'
    <2> DEFINE g == [gui EXCEPT !.selected = d]
    <2>1. g \in GUIState /\ g.pc = "idle" /\ g.listens
      BY <1>0, <1>6 DEF SelectDevice, UserMayAct, GUIState, StaleInv, Listens
    <2> QED
      BY <1>1, <1>6, <2>1 DEF SelectDevice, OnlyGUI, NewView, fileVars
  <1>7. ASSUME NEW t \in Tab, ApplyChanges(t)
        PROVE  StaleInv'
    <2> DEFINE g == [gui EXCEPT !.ignore = TRUE]
               d == gui.path
    <2>1. /\ gui.enabled /\ gui.pc = "idle" /\ gui.listens /\ d \in Device /\ gui.selected = d /\ d \in gui.started
      BY <1>0, <1>7 DEF ApplyChanges, UserMayAct, Consistent, GUIState, StaleInv, Listens
    <2>2. g \in GUIState /\ g.pc = "idle" /\ g.listens /\ g.started = gui.started
      BY <1>0, <2>1 DEF GUIState
    <2>3. PICK written \in BOOLEAN :
             LET kept == ~written /\ ~Readable(d) IN
             /\ gui' = [OpenDevice(g, d) EXCEPT !.opened = IF kept THEN Changed(gui.opened, t) ELSE file'[d]]
             /\ misread' = kept
      BY <1>7, <2>1 DEF ApplyChanges
    <2>4. OpenDevice(g, d).listens /\ OpenDevice(g, d).path = d
      BY <2>1, <2>2 DEF OpenDevice, GUIState
    <2>5. gui'.listens /\ gui'.path = d /\ (~misread' => gui'.opened = file'[d])
      <3>1. OpenDevice(g, d) = [g EXCEPT !.selected = d, !.path = d, !.pc = "plugins",
                                         !.opened = IF Readable(d) THEN file[d] ELSE @,
                                         !.shown.BacklightColor = d]
        BY <2>1, <2>2 DEF OpenDevice
      <3> QED
        BY <2>2, <2>3, <2>4, <3>1 DEF GUIState
    <2> QED
      BY <2>5 DEF StaleInv, Listens, ToldIfStale
  <1> QED
    BY <1>2, <1>3, <1>4, <1>5, <1>6, <1>7 DEF User

LEMMA StaleStep ==
    ASSUME StaleInv, [DesktopNext]_desktopVars
    PROVE  StaleInv'
  <1>1. DesktopInv'
    BY DesktopInvStep DEF StaleInv
  <1>2. CASE UNCHANGED desktopVars
    BY <1>1, <1>2 DEF desktopVars, serviceVars, fileVars, launcherVars, historyVars, StaleInv, Listens, ToldIfStale, Told
  <1> QED
    BY <1>1, <1>2, ServiceStale, CallsStale, MessagesStale, UserStale DEF DesktopNext

(* As long as the interface read what it asked for and ignored no signal   *)
(* but that about its own save, the user does not apply changes to another *)
(* content of the file than the one that is shown, without a box open or   *)
(* the signal that opens it on its way.                                    *)
THEOREM UserIsTold == DesktopSpec => []StaleIsTold
  <1>1. DesktopInit => StaleInv
    BY DesktopInvInit DEF DesktopInit, StaleInv, Off, Listens, ToldIfStale
  <1>2. StaleInv => StaleIsTold
    <2> SUFFICES ASSUME StaleInv, gui.enabled, ~misread, ~swallowed,
                        gui.opened.version # file[gui.selected].version
                 PROVE  Told(gui, gui.selected)
      BY DEF StaleIsTold
    <2>1. gui.selected = gui.path
      BY DEF StaleInv, DesktopInv, Consistent
    <2> QED
      BY <2>1 DEF StaleInv, ToldIfStale
  <1> QED
    BY <1>1, <1>2, StaleStep, PTL DEF DesktopSpec

=============================================================================
