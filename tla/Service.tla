------------------------------- MODULE Service -------------------------------
(***************************************************************************)
(* The desktop services (src/bin/service/{DBusHandler,devicesHandler,      *)
(* service}.cpp), one for the session of each user, and the launcher that  *)
(* starts them (src/bin/launcher), composed with the daemon.               *)
(*                                                                         *)
(* A service runs in one thread: it handles the signals of the buses in    *)
(* order, and a handler makes its calls to the daemon one after the other, *)
(* each waiting for the reply; meanwhile the daemon does whatever else it  *)
(* has to.  So a step of a service is one call, with what the service does *)
(* with the reply, and todo holds the calls that are left of the handler.  *)
(* A call that the daemon cannot answer any more fails; the service logs   *)
(* the error and goes on with the next one.  Configuration files, whose    *)
(* handling is in module DevicesHandler, appear as the configuration conf  *)
(* that the service reads from them.                                       *)
(***************************************************************************)
EXTENDS DaemonProperties, SequencesExt

CONSTANTS
    NoID,         \* _clientID when it is "undefined"
    NoDevice,     \* the device of a call about none
    MaxDaemons,   \* bound: daemons started one after the other
    MaxSignals    \* bound: signals waiting at a service when something new happens

ASSUME ServiceAssumption ==
    /\ NoID \notin ClientID /\ NoDevice \notin Device
    /\ MaxDaemons \in Nat /\ MaxSignals \in Nat

VARIABLES
    running,      \* sessions whose service runs
    registered,   \* sessions whose service has _registerStatus
    id,           \* _clientID
    sessionState, \* _sessionState, "unset" before the first answer of logind
    startedHere,  \* keys of _startedDevices
    stoppedHere,  \* keys of _stoppedDevices
    conf,         \* the configuration in the file of each device
    listening,    \* sessions whose service has declared its signals
    todo,         \* calls that the running handler has still to make
    inbox,        \* signals not yet handled, oldest first
    login,        \* environment: what logind says of the session
    daemons,      \* daemons started so far
    cutOff        \* sessions whose daemon went away before they unregistered (for the properties)

serviceVars == <<running, registered, id, sessionState, startedHere, stoppedHere, listening, todo>>
outsideVars == <<conf, login, daemons, cutOff>>
allVars     == <<vars, serviceVars, outsideVars, inbox>>

(* The calls of the service that are about a device, and the others; the   *)
(* signals that it receives.                                               *)
DeviceCalls == {"IsStarted", "IsStopped", "IsUnplugged", "GetDeviceProperties", "SetDeviceBacklightColor",
                "Start", "Stop", "DeleteDeviceConfiguration", "StopDevice", "StartDevice", "RestartDevice"}
OtherCalls  == {"RegisterClient", "Get", "UpdateClientState", "AddMatch", "GetStartedDevices",
                "ToggleClientReadyPropertie", "GetStoppedDevices", "UnregisterClient", "exit"}
Calls       == [call : DeviceCalls, device : Device] \cup [call : OtherCalls, device : {NoDevice}]
Received    == [name : SignalNames \cup {"PropertiesChanged"}, devices : SUBSET Device]

Call(name, d) == [call |-> name, device |-> d]
InTurn(names) == [i \in DOMAIN names |-> Call(names[i], NoDevice)]
CallEach(name, devices) == [i \in 1 .. Cardinality(devices) |-> Call(name, SetToSeq(devices)[i])]

Current(s) == Head(todo[s])
Handled(s) == startedHere[s] \cup stoppedHere[s]
KnownTo(s) == id[s] \in connected   \* would the daemon find the client of this ID?

SInit ==
    /\ Init
    /\ running = {} /\ registered = {} /\ listening = {} /\ cutOff = {}
    /\ id = [s \in Session |-> NoID]
    /\ sessionState = [s \in Session |-> "unset"]
    /\ startedHere = [s \in Session |-> {}] /\ stoppedHere = [s \in Session |-> {}]
    /\ conf \in [Session -> [Device -> Config]]
    /\ todo = [s \in Session |-> <<>>] /\ inbox = [s \in Session |-> <<>>]
    /\ login = [s \in Session |-> "online"]
    /\ daemons = 1

-----------------------------------------------------------------------------
(* Signals.  The bus hands the signals of a step to the services that have *)
(* declared them.                                                          *)

Delivered(signals) == [s \in Session |-> IF s \in listening THEN inbox[s] \o signals ELSE inbox[s]]

RoomFor(s) == Len(inbox[s]) < MaxSignals

(* No reply will come: the name of the daemon has no owner.                *)
NoDaemon == phase = "exited"

DaemonAnswers == Listening /\ power # "asleep"

DaemonUntouched ==
    /\ out' = <<>>
    /\ UNCHANGED <<environmentVars, controlVars, deviceVars, numClients, clientVars, waits, sleepVars>>

ServiceOnly == DaemonUntouched /\ UNCHANGED outsideVars

(* A call to the daemon, whose handler is A if the daemon accepts it; else *)
(* nothing changes but what the service makes of the reply.                *)
Replied == DaemonAnswers \/ NoDaemon

Calling(accepted, A) ==
    /\ \/ DaemonAnswers /\ accepted /\ A /\ UNCHANGED <<waits, sleepVars>>
       \/ Replied /\ ~(DaemonAnswers /\ accepted) /\ DaemonUntouched
    /\ UNCHANGED outsideVars

Asking == Replied /\ ServiceOnly

-----------------------------------------------------------------------------
(* The calls of the service, and what it makes of their replies.           *)

Doing(s, name) == s \in running /\ todo[s] # <<>> /\ Current(s).call = name

(* The service goes on with these calls, then with the rest of the handler. *)
Then(s, calls) ==
    /\ todo' = [todo EXCEPT ![s] = calls \o Tail(@)]
    /\ inbox' = Delivered(out')

(* The process ends: its containers and its signals go with it.            *)
ProcessEnds(s) ==
    /\ running' = running \ {s} /\ registered' = registered \ {s} /\ listening' = listening \ {s}
    /\ id' = [id EXCEPT ![s] = NoID]
    /\ sessionState' = [sessionState EXCEPT ![s] = "unset"]
    /\ startedHere' = [startedHere EXCEPT ![s] = {}]
    /\ stoppedHere' = [stoppedHere EXCEPT ![s] = {}]
    /\ todo' = [todo EXCEPT ![s] = <<>>]
    /\ inbox' = [Delivered(out') EXCEPT ![s] = <<>>]

(* registerWithDaemon(): a service that cannot register gives up and exits. *)
Register(s) ==
    /\ Doing(s, "RegisterClient")
    /\ \/ \E c \in ClientID :
            /\ DaemonAnswers
            /\ Calling(TRUE, RegisterClient(s, c))
            /\ id' = [id EXCEPT ![s] = c]
            /\ registered' = registered \cup {s}
            /\ Then(s, <<>>)
            /\ UNCHANGED <<running, sessionState, startedHere, stoppedHere, listening>>
       \/ /\ Calling(TRUE, RegisterRefused(s) \/ RegisterFailed(s))
          /\ ProcessEnds(s)

(* getCurrentSessionState() *)
ReadSession(s) ==
    /\ Doing(s, "Get")
    /\ sessionState' = [sessionState EXCEPT ![s] = login[s]]
    /\ ServiceOnly
    /\ Then(s, <<>>)
    /\ UNCHANGED <<running, registered, id, startedHere, stoppedHere, listening>>

Local(s) == UNCHANGED <<running, registered, id, sessionState, startedHere, stoppedHere, listening>>

(* reportChangedState(); the one at the end of devicesStarted() is made    *)
(* only by the service of the active session.                              *)
Report(s) ==
    /\ Doing(s, "UpdateClientState")
    /\ IF s \in registered
         THEN Calling(KnownTo(s), UpdateClientState(id[s], sessionState[s]))
         ELSE ServiceOnly
    /\ Then(s, <<>>)
    /\ Local(s)

(* Mutant: the devices that were started are not reported for. *)
ReportNever(s) == <<>>

ReportIfActive(s) ==
    IF sessionState[s] = "active" THEN InTurn(<<"UpdateClientState">>) ELSE <<>>

(* initializeGKDBusSignals() *)
Listen(s) ==
    /\ Doing(s, "AddMatch")
    /\ listening' = listening \cup {s}
    /\ ServiceOnly
    /\ Then(s, <<>>)
    /\ UNCHANGED <<running, registered, id, sessionState, startedHere, stoppedHere>>

(* initializeDevices() asks for the devices that are started, says it is   *)
(* ready, then asks for those that are stopped.                            *)
GetStarted(s) ==
    /\ Doing(s, "GetStartedDevices")
    /\ Asking
    /\ Then(s, IF DaemonAnswers /\ KnownTo(s)
                 THEN CallEach("IsStarted", started) \o ReportIfActive(s) ELSE <<>>)
    /\ Local(s)

ToggleReady(s) ==
    /\ Doing(s, "ToggleClientReadyPropertie")
    /\ Calling(KnownTo(s), ToggleClientReadyPropertie(id[s]))
    /\ Then(s, <<>>)
    /\ Local(s)

GetStopped(s) ==
    /\ Doing(s, "GetStoppedDevices")
    /\ Asking
    /\ Then(s, IF DaemonAnswers /\ KnownTo(s) THEN CallEach("IsStopped", stopped) ELSE <<>>)
    /\ Local(s)

(* What the daemon answers to GetDeviceStatus. *)
StatusSaid(s, d) == IF DaemonAnswers /\ KnownTo(s) THEN DeviceStatus(d) ELSE "unknown"

Initialize(d, then) == <<Call("GetDeviceProperties", d), Call("SetDeviceBacklightColor", d), Call(then, d)>>

(* devicesStarted(), devicesStopped() and devicesUnplugged() ask for the   *)
(* status of each device they are told of, and follow the signal only if   *)
(* the answer agrees with it.  A device that is in neither container is    *)
(* initialized before it is forgotten; by then it has no capabilities, so  *)
(* that no configuration is sent.                                          *)
CheckStarted(s) ==
    LET d == Current(s).device IN
    /\ Doing(s, "IsStarted")
    /\ Asking
    /\ Then(s, IF StatusSaid(s, d) # "started" \/ d \in startedHere[s] THEN <<>>
               ELSE IF d \in stoppedHere[s] THEN <<Call("Start", d)>>
               ELSE Initialize(d, "Start"))
    /\ Local(s)

CheckStopped(s) ==
    LET d == Current(s).device IN
    /\ Doing(s, "IsStopped")
    /\ Asking
    /\ Then(s, IF StatusSaid(s, d) # "stopped" \/ d \in stoppedHere[s] THEN <<>>
               ELSE IF d \in startedHere[s] THEN <<Call("Stop", d)>>
               ELSE Initialize(d, "Stop"))
    /\ Local(s)

CheckUnplugged(s) ==
    LET d == Current(s).device IN
    /\ Doing(s, "IsUnplugged")
    /\ Asking
    /\ Then(s, IF StatusSaid(s, d) # "unplugged" THEN <<>>
               ELSE IF d \in Handled(s) THEN <<Call("DeleteDeviceConfiguration", d)>>
               ELSE <<Call("GetDeviceProperties", d), Call("Stop", d), Call("DeleteDeviceConfiguration", d)>>)
    /\ Local(s)

(* setDeviceProperties(): an entry at the daemon for the device, then the  *)
(* configuration found in its file.                                        *)
Initializing(s) ==
    LET d == Current(s).device IN
    /\ Doing(s, "GetDeviceProperties")
    /\ Calling(KnownTo(s) /\ client[id[s]].check /\ client[id[s]].devices[d] = NoConfig,
               GetDeviceProperties(id[s], d))
    /\ Then(s, <<>>)
    /\ Local(s)

(* sendDeviceConfigurationToDaemon() *)
SendConfiguration(s) ==
    LET d == Current(s).device IN
    /\ Doing(s, "SetDeviceBacklightColor")
    /\ Calling(KnownTo(s) /\ client[id[s]].devices[d] # NoConfig,
               SetDeviceConfig(id[s], d, conf[s][d]))
    /\ Then(s, <<>>)
    /\ Local(s)

Moving(s, name, to, from) ==
    LET d == Current(s).device IN
    /\ Doing(s, name)
    /\ to' = [to EXCEPT ![s] = @ \cup {d}]
    /\ from' = [from EXCEPT ![s] = @ \ {d}]
    /\ ServiceOnly
    /\ Then(s, <<>>)
    /\ UNCHANGED <<running, registered, id, sessionState, listening>>

(* startDevice() and stopDevice() *)
MoveToStarted(s) == Moving(s, "Start", startedHere, stoppedHere)
MoveToStopped(s) == Moving(s, "Stop", stoppedHere, startedHere)

(* unplugDevice() erases the device and tells the daemon to do the same.   *)
UnplugDevice(s) ==
    LET d == Current(s).device IN
    /\ Doing(s, "DeleteDeviceConfiguration")
    /\ startedHere' = [startedHere EXCEPT ![s] = @ \ {d}]
    /\ stoppedHere' = [stoppedHere EXCEPT ![s] = @ \ {d}]
    /\ Calling(KnownTo(s) /\ client[id[s]].devices[d] # NoConfig,
               DeleteDeviceConfiguration(id[s], d))
    /\ Then(s, <<>>)
    /\ UNCHANGED <<running, registered, id, sessionState, listening>>

(* Mutants: the service forgets to note that it is unregistered, or keeps  *)
(* its ID.                                                                 *)
UnregisterUnnoted(s) ==
    /\ Doing(s, "UnregisterClient")
    /\ Calling(KnownTo(s), UnregisterClient(id[s]))
    /\ Then(s, <<>>)
    /\ UNCHANGED <<running, registered, id, sessionState, startedHere, stoppedHere, listening>>

UnregisterKeepsID(s) ==
    /\ Doing(s, "UnregisterClient")
    /\ Calling(KnownTo(s), UnregisterClient(id[s]))
    /\ registered' = IF DaemonAnswers /\ KnownTo(s) THEN registered \ {s} ELSE registered
    /\ Then(s, <<>>)
    /\ UNCHANGED <<running, id, sessionState, startedHere, stoppedHere, listening>>

(* unregisterWithDaemon(): without the daemon's consent the service goes   *)
(* on as if it were registered.                                            *)
Unregister(s) ==
    /\ Doing(s, "UnregisterClient")
    /\ Calling(KnownTo(s), UnregisterClient(id[s]))
    /\ IF DaemonAnswers /\ KnownTo(s)
         THEN registered' = registered \ {s} /\ id' = [id EXCEPT ![s] = NoID]
         ELSE UNCHANGED <<registered, id>>
    /\ Then(s, <<>>)
    /\ UNCHANGED <<running, sessionState, startedHere, stoppedHere, listening>>

(* The main loop ends. *)
ExitService(s) ==
    /\ Doing(s, "exit")
    /\ ServiceOnly
    /\ ProcessEnds(s)

(* deviceStatusChangeRequest() *)
ChangeStatus(s) ==
    LET d == Current(s).device
        c == id[s]
        may == KnownTo(s) /\ MayChangeDevices(c) IN
    /\ \/ /\ Doing(s, "StopDevice")
          /\ Calling(may /\ d \in started, StopDevice(c, d))
       \/ /\ Doing(s, "StartDevice")
          /\ Calling(may /\ d \in stopped,
                     \E opened, kept \in SUBSET {d} : StartDevice(c, d, opened, kept))
       \/ /\ Doing(s, "RestartDevice")
          /\ Calling(may /\ d \in started,
                     \E opened, kept \in SUBSET {d} : RestartDevice(c, d, opened, kept))
    /\ Then(s, <<>>)
    /\ Local(s)

-----------------------------------------------------------------------------
(* The handlers, as the calls they make.                                   *)

Registration(s) == InTurn(<<"RegisterClient", "Get", "UpdateClientState">>)
InitializeDevices == InTurn(<<"GetStartedDevices", "ToggleClientReadyPropertie", "GetStoppedDevices">>)

(* clearAndUnregister() *)
ClearAndUnregister(s) ==
    IF s \in registered
      THEN CallEach("DeleteDeviceConfiguration", Handled(s)) \o InTurn(<<"UnregisterClient">>)
      ELSE <<>>

(* Mutant: a daemon that starts again is ignored by services it had. *)
HandlerIgnoresStart(s, signal) ==
    CASE signal.name = "DevicesStarted"   -> CallEach("IsStarted", signal.devices) \o ReportIfActive(s)
      [] signal.name = "DevicesStopped"   -> CallEach("IsStopped", signal.devices)
      [] signal.name = "DevicesUnplugged" -> CallEach("IsUnplugged", signal.devices)
      [] signal.name = "DaemonIsStopping" -> ClearAndUnregister(s)
      [] signal.name = "DaemonIsStarting" ->
           <<>>
      [] signal.name = "ReportYourself"   -> InTurn(<<"UpdateClientState">>)
      [] signal.name = "PropertiesChanged" -> InTurn(<<"Get", "UpdateClientState">>)

HandlerOf(s, signal) ==
    CASE signal.name = "DevicesStarted"   -> CallEach("IsStarted", signal.devices) \o ReportIfActive(s)
      [] signal.name = "DevicesStopped"   -> CallEach("IsStopped", signal.devices)
      [] signal.name = "DevicesUnplugged" -> CallEach("IsUnplugged", signal.devices)
      [] signal.name = "DaemonIsStopping" -> ClearAndUnregister(s)
      [] signal.name = "DaemonIsStarting" ->
           IF s \in registered THEN <<>> ELSE Registration(s) \o InitializeDevices
      [] signal.name = "ReportYourself"   -> InTurn(<<"UpdateClientState">>)
      [] signal.name = "PropertiesChanged" -> InTurn(<<"Get", "UpdateClientState">>)

Idle(s) == s \in running /\ todo[s] = <<>>

HandleSignal(s) ==
    /\ Idle(s) /\ inbox[s] # <<>>
    /\ todo' = [todo EXCEPT ![s] = HandlerOf(s, Head(inbox[s]))]
    /\ inbox' = [inbox EXCEPT ![s] = Tail(@)]
    /\ DaemonUntouched
    /\ UNCHANGED <<running, registered, id, sessionState, startedHere, stoppedHere, listening, outsideVars>>

ServiceCall(s) ==
    \/ Register(s) \/ ReadSession(s) \/ Report(s) \/ Listen(s)
    \/ GetStarted(s) \/ ToggleReady(s) \/ GetStopped(s)
    \/ CheckStarted(s) \/ CheckStopped(s) \/ CheckUnplugged(s)
    \/ Initializing(s) \/ SendConfiguration(s)
    \/ MoveToStarted(s) \/ MoveToStopped(s) \/ UnplugDevice(s)
    \/ Unregister(s) \/ ExitService(s)
    \/ ChangeStatus(s)

-----------------------------------------------------------------------------
(* What happens to the services.                                           *)

(* Mutant: the signals are listened to once the devices are initialized.   *)
LaunchListensLast(s) ==
    /\ s \notin running
    /\ running' = running \cup {s}
    /\ todo' = [todo EXCEPT ![s] = Registration(s) \o InitializeDevices \o InTurn(<<"AddMatch">>)]
    /\ cutOff' = cutOff \ {s}
    /\ DaemonUntouched
    /\ UNCHANGED <<conf, login, daemons, inbox, registered, id, sessionState, startedHere, stoppedHere, listening>>

(* The launcher spawns a service, whose constructor registers it (a user's *)
(* request; the launcher ignores one that comes too soon).                 *)
Launch(s) ==
    /\ s \notin running
    /\ running' = running \cup {s}
    /\ todo' = [todo EXCEPT ![s] = Registration(s) \o InTurn(<<"AddMatch">>) \o InitializeDevices]
    /\ cutOff' = cutOff \ {s}
    /\ DaemonUntouched
    /\ UNCHANGED <<conf, login, daemons, inbox, registered, id, sessionState, startedHere, stoppedHere, listening>>

(* SIGUSR1 makes the main loop end, and cleanDBusRequests() unregister.    *)
AskRestart(s) ==
    /\ Idle(s)
    /\ todo' = [todo EXCEPT ![s] = ClearAndUnregister(s) \o InTurn(<<"exit">>)]
    /\ ServiceOnly
    /\ UNCHANGED inbox
    /\ Local(s)

Crash(s) ==
    /\ s \in running
    /\ ServiceOnly
    /\ ProcessEnds(s)

(* The GUI asks for another status of a device, or a file was changed: the *)
(* service reloads it, sends it, and reports so that it is shown.          *)
GUIRequest(s, d) ==
    /\ Idle(s) /\ RoomFor(s) /\ d \in Handled(s)
    /\ \E name \in {"StopDevice", "StartDevice", "RestartDevice"} :
         todo' = [todo EXCEPT ![s] = <<Call(name, d)>>]
    /\ ServiceOnly
    /\ UNCHANGED inbox
    /\ Local(s)

ReloadFile(s, d) ==
    /\ Idle(s) /\ d \in Handled(s)
    /\ \E v \in Config \ {conf[s][d]} : conf' = [conf EXCEPT ![s][d] = v]
    /\ todo' = [todo EXCEPT ![s] = <<Call("SetDeviceBacklightColor", d)>> \o ReportIfActive(s)]
    /\ DaemonUntouched
    /\ Local(s)
    /\ UNCHANGED <<inbox, login, daemons, cutOff>>

(* The user switches to or from this session: logind tells both services.  *)
SwitchSession(s) ==
    /\ \A t \in Session : RoomFor(t)
    /\ login' = [t \in Session |->
                   IF t = s THEN (IF login[s] = "active" THEN "online" ELSE "active") ELSE "online"]
    /\ DaemonUntouched
    /\ inbox' = [t \in Session |->
                   IF t \in running /\ login'[t] # login[t]
                   THEN Append(inbox[t], [name |-> "PropertiesChanged", devices |-> {}]) ELSE inbox[t]]
    /\ UNCHANGED <<serviceVars, conf, daemons, cutOff>>

-----------------------------------------------------------------------------
(* The daemon's own steps, and what happens to it.                         *)

LeftBehind == {s \in registered : id[s] \in connected \/ s \in cutOff}

DaemonStep ==
    /\ \A s \in Session : RoomFor(s)
    /\ \/ power # "asleep" /\ (Start \/ UEvent \/ ThreadsCheck \/ LeaveLoop \/ Wait \/ Exit)
       \/ Environment
    /\ inbox' = Delivered(out')
    /\ cutOff' = IF NoDaemon' THEN LeftBehind ELSE cutOff
    /\ UNCHANGED <<serviceVars, conf, login, daemons>>

(* Killed: none of the exit sequence is done. *)
DaemonDies ==
    /\ ~ NoDaemon
    /\ phase' = "exited"
    /\ started' = {} /\ stopped' = {} /\ sleeping' = {} /\ initialized' = {} /\ dead' = {}
    /\ config' = [d \in Device |-> DefaultConfig]
    /\ connected' = {} /\ client' = [c \in ClientID |-> NoClient] /\ numActive' = 0
    /\ delayLock' = FALSE /\ out' = <<>>
    /\ cutOff' = LeftBehind
    /\ UNCHANGED <<inbox, environmentVars, daemonRunning, unplugged, numClients, waits, subscribed,
                   power, sleepMsgs, serviceVars, conf, login, daemons>>

(* Another daemon is started: new objects, same devices. *)
StartDaemon ==
    /\ NoDaemon /\ daemons < MaxDaemons
    /\ daemons' = daemons + 1
    /\ phase' = "starting" /\ daemonRunning' = TRUE
    /\ unplugged' = {} /\ uevents' = <<>> /\ numClients' = 0 /\ waits' = 0
    /\ delayLock' \in Inhibited(FALSE) /\ subscribed' = delayLock' /\ sleepMsgs' = <<>>
    /\ out' = <<>>
    /\ UNCHANGED <<inbox, plugged, started, stopped, sleeping, initialized, dead, config, clientVars, power,
                   serviceVars, conf, login, cutOff>>

SNext ==
    \/ \E s \in Session : ServiceCall(s)
    \/ \E s \in Session : HandleSignal(s)
    \/ \E s \in Session : Launch(s) \/ AskRestart(s) \/ Crash(s) \/ SwitchSession(s)
    \/ \E s \in Session, d \in Device : GUIRequest(s, d) \/ ReloadFile(s, d)
    \/ DaemonStep
    \/ DaemonDies
    \/ StartDaemon

SSpec == SInit /\ [][SNext]_allVars

(* A service waits for nothing but the replies to its calls and for its    *)
(* signals: its main loop polls the buses every 150 ms.                    *)
SFairness == \A s \in Session : WF_allVars(ServiceCall(s)) /\ WF_allVars(HandleSignal(s))

SFairSpec == SSpec /\ SFairness

-----------------------------------------------------------------------------

(* Every variable of the services has its type - a handler never calls     *)
(* about a device that is none, nor about none when it needs one - and the *)
(* ID of a service is "undefined" whenever it is not registered.           *)
ServiceTypeOK ==
    /\ registered \cup listening \cup cutOff \subseteq Session /\ running \subseteq Session
    /\ id \in [Session -> ClientID \cup {NoID}] /\ \A s \in Session : s \in registered <=> id[s] # NoID
    /\ sessionState \in [Session -> {"unset", "active", "online"}]
    /\ login \in [Session -> {"active", "online"}]
    /\ startedHere \in [Session -> SUBSET Device] /\ stoppedHere \in [Session -> SUBSET Device]
    /\ conf \in [Session -> [Device -> Config]]
    /\ todo \in [Session -> Seq(Calls)]
    /\ inbox \in [Session -> Seq(Received)]

DaemonGoesOn == phase = "monitoring" /\ daemonRunning

(* The service s has nothing left to handle, and is a client of the daemon. *)
Settled(s) ==
    /\ DaemonGoesOn
    /\ Idle(s) /\ inbox[s] = <<>>
    /\ s \in registered /\ KnownTo(s)

(* Whatever happened meanwhile - devices plugged, lost, started and stopped *)
(* while the service was asking for them, daemons and services restarted -  *)
(* a service that has handled all its signals has the devices in the        *)
(* containers where the daemon has them.                                    *)
ContainersMatchDaemon ==
    \A s \in Session : Settled(s) => startedHere[s] = started /\ stoppedHere[s] = stopped

(* Then the devices show the configuration that the service of the active  *)
(* session has read from its files.                                        *)
ActiveConfigShown ==
    \A s \in Session : Settled(s) /\ sessionState[s] = "active" =>
        \A d \in started : config[d] = conf[s][d]

(* A service believes that it is registered only if the daemon knows it,   *)
(* unless the daemon went away before it unregistered.                     *)
RegistrationAgreed ==
    \A s \in Session : s \in registered /\ Idle(s) /\ s \notin cutOff /\ phase = "monitoring" => KnownTo(s)

(* A service that unregistered when the daemon stopped is a client of the  *)
(* next daemon again, as long as both run.                                 *)
DaemonIsBack ==
    \A s \in Session :
        (s \in running /\ DaemonGoesOn)
          ~> (s \in registered /\ KnownTo(s)) \/ s \notin running \/ s \in cutOff \/ ~DaemonGoesOn
=============================================================================
