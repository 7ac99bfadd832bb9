--------------------------- MODULE ClientsManager ---------------------------
(***************************************************************************)
(* The clients manager of the daemon (src/src/bin/daemon/clientsManager)   *)
(* and the objects it keeps, one per registered desktop service            *)
(* (src/src/bin/daemon/client).  Its handlers are D-Bus methods called by  *)
(* the services; they run in the main thread, between the steps of the     *)
(* devices manager, whose operations they call.                            *)
(*                                                                         *)
(* A call that is refused before it changes anything (unknown client ID,   *)
(* unhandled state, client not ready, not alive or not active) is not an   *)
(* action: the state of the daemon stays as it is.                         *)
(***************************************************************************)
EXTENDS DevicesManager

CONSTANTS
    ClientID,       \* what the random generator may draw
    Session,        \* session object paths
    NoSession,      \* the session of an ID that is not registered
    NoConfig        \* "this client has no entry for the device"

ASSUME ClientIDAssumption == IsFiniteSet(ClientID)
ASSUME SessionAssumption == NoSession \notin Session
ASSUME NoConfigAssumption == NoConfig \notin Config

VARIABLES
    connected,      \* keys of _connectedClients
    client,         \* the Client object of each key
    numActive       \* _numActive

clientVars == <<connected, client, numActive>>

States == {"unknown", "active", "online"}

Client == [session : Session \cup {NoSession},
           state   : States,
           check   : BOOLEAN,
           ready   : BOOLEAN,
           devices : [Device -> Config \cup {NoConfig}]]

(* Client::Client(): an entry for each started and each stopped device *)
NewClient(s) ==
    [session |-> s, state |-> "unknown", check |-> TRUE, ready |-> FALSE,
     devices |-> [d \in Device |->
                    IF d \in started \cup stopped THEN DefaultConfig ELSE NoConfig]]

NoClient ==
    [session |-> NoSession, state |-> "unknown", check |-> FALSE, ready |-> FALSE,
     devices |-> [d \in Device |-> NoConfig]]

ClientsManagerInit ==
    /\ connected = {}
    /\ client = [c \in ClientID |-> NoClient]
    /\ numActive = 0

ActiveIn(conn, cl) == {c \in conn : cl[c].state = "active"}
Active == ActiveIn(connected, client)

(* setNumClients() takes a uint8_t *)
NumClients(conn) == Cardinality(conn) % 256

(* D-Bus messages are read by the monitoring loop, and again while the     *)
(* daemon waits for its clients to unregister.                             *)
Listening == phase \in {"monitoring", "draining"}

(* A handler that leaves the devices alone, and one that changes no more   *)
(* than what they show.                                                    *)
LeavesDevices == UNCHANGED <<environmentVars, controlVars, deviceVars>>
OnlyConfig ==
    UNCHANGED <<environmentVars, controlVars, started, stopped, unplugged, sleeping,
                initialized, dead>>

(* resetDevicesStates() *)
ResetDevicesStates == config' = ResetConfig(started)

(* Client::setDeviceActiveUser() on the devices of S: the configuration of *)
(* the client object cl goes to those it has an entry for.                 *)
Pushed(cl, S) ==
    [d \in Device |-> IF d \in S /\ cl.devices[d] # NoConfig THEN cl.devices[d] ELSE config[d]]

-----------------------------------------------------------------------------
(* Registration.                                                           *)

AlreadyRegistered(s) == \E c \in connected : client[c].check /\ client[c].session = s

(* The clients that did not answer the last ReportYourself; mutant: nobody *)
(* is taken for crashed.                                                   *)
NobodyUnresponsive == {}
Unresponsive == {c \in connected : ~client[c].check}

(* unregisterClient() on each of the clients of S *)
Unregistered(S) == [c \in ClientID |-> IF c \in S THEN NoClient ELSE client[c]]

(* Mutant: the devices keep the configuration of the client.               *)
ForgetWithoutReset(S) ==
    /\ numActive' = numActive - Cardinality(S \cap Active)
    /\ UNCHANGED config

ForgetDevicesOf(S) ==
    /\ numActive' = numActive - Cardinality(S \cap Active)
    /\ IF S \cap Active # {} THEN ResetDevicesStates ELSE UNCHANGED config

(* registerClient(), when a live client of this session is registered: all *)
(* clients have to report.                                                 *)
RegisterRefused(s) ==
    /\ Listening
    /\ AlreadyRegistered(s)
    /\ client' = [c \in ClientID |->
                    IF c \in connected THEN [client[c] EXCEPT !.check = FALSE] ELSE client[c]]
    /\ out' = SignalToClients(NumClients(connected), "ReportYourself", FALSE)
    /\ LeavesDevices
    /\ UNCHANGED <<connected, numActive, numClients>>

(* registerClient(), otherwise: the clients that did not report are        *)
(* unregistered, then the new one gets the ID c.                           *)
RegisterClient(s, c) ==
    /\ Listening
    /\ ~AlreadyRegistered(s)
    /\ c \notin connected \ Unresponsive
    /\ connected' = (connected \ Unresponsive) \cup {c}
    /\ client' = [Unregistered(Unresponsive) EXCEPT ![c] = NewClient(s)]
    /\ ForgetDevicesOf(Unresponsive)
    /\ numClients' = NumClients(connected')
    /\ out' = <<>>
    /\ OnlyConfig

(* registerClient(), when the new object cannot be made: the ID that was   *)
(* drawn is in use, or the allocation fails.                               *)
RegisterFailed(s) ==
    /\ Listening
    /\ ~AlreadyRegistered(s)
    /\ connected' = connected \ Unresponsive
    /\ client' = Unregistered(Unresponsive)
    /\ ForgetDevicesOf(Unresponsive)
    /\ numClients' = NumClients(connected')
    /\ out' = <<>>
    /\ OnlyConfig

UnregisterClient(c) ==
    /\ Listening
    /\ c \in connected
    /\ connected' = connected \ {c}
    /\ client' = Unregistered({c})
    /\ ForgetDevicesOf({c})
    /\ numClients' = NumClients(connected')
    /\ out' = <<>>
    /\ OnlyConfig

-----------------------------------------------------------------------------
(* The state of a client.                                                  *)

NumActiveAfter(old, new) ==
    CASE old = "active" /\ new # "active" -> numActive - 1
      [] old # "active" /\ new = "active" -> numActive + 1
      [] OTHER -> numActive

UpdateClientState(c, state) ==
    LET updated == [client[c] EXCEPT !.state = state, !.check = TRUE] IN
    /\ Listening
    /\ c \in connected
    /\ state \in {"active", "online"}
    /\ client' = [client EXCEPT ![c] = updated]
    /\ numActive' = NumActiveAfter(client[c].state, state)
    /\ config' = IF state = "active" /\ updated.ready THEN Pushed(updated, started)
                 ELSE IF numActive' = 0 THEN ResetConfig(started)
                 ELSE config
    /\ out' = <<>>
    /\ OnlyConfig
    /\ UNCHANGED <<connected, numClients>>

ToggleClientReadyPropertie(c) ==
    /\ Listening
    /\ c \in connected
    /\ client' = [client EXCEPT ![c].ready = ~@]
    /\ config' = IF client'[c].ready /\ client[c].state = "active"
                 THEN Pushed(client[c], started) ELSE config
    /\ out' = <<>>
    /\ OnlyConfig
    /\ UNCHANGED <<connected, numActive, numClients>>

-----------------------------------------------------------------------------
(* The devices, on behalf of a client.                                     *)

MayChangeDevices(c) ==
    /\ Listening
    /\ c \in connected
    /\ client[c].ready
    /\ client[c].check
    /\ client[c].state = "active"

StopDevice(c, d) ==
    /\ MayChangeDevices(c)
    /\ d \in started
    /\ StopDevices({d})
    /\ out' = StatusSignal(NumClients(connected), "DevicesStopped", {d})
    /\ UNCHANGED <<environmentVars, controlVars, unplugged, sleeping, clientVars, numClients>>

(* startDevice(); when it fails the device stays stopped and no signal is  *)
(* sent.                                                                   *)
StartDevice(c, d, opened, kept) ==
    /\ MayChangeDevices(c)
    /\ d \in stopped
    /\ StartDevices({d}, opened, kept)
    /\ config' = Pushed(client[c], opened)
    /\ out' = StatusSignal(NumClients(connected), "DevicesStarted", opened)
    /\ UNCHANGED <<environmentVars, controlVars, unplugged, sleeping, clientVars, numClients>>

(* Mutant of the next definition: clients are not told that the start      *)
(* failed.                                                                 *)
RestartSignalOptimistic(opened) == "DevicesStarted"
RestartSignal(opened) == IF opened = {} THEN "DevicesStopped" ELSE "DevicesStarted"

(* restartDevice(): stopDevice() and startDevice() with their own signals  *)
(* disabled, then one signal that tells how it ended.                      *)
RestartDevice(c, d, opened, kept) ==
    /\ MayChangeDevices(c)
    /\ d \in started
    /\ OpenDevices({d}, opened, kept)
    /\ started' = (started \ {d}) \cup opened
    /\ stopped' = (stopped \cup {d}) \ opened
    /\ config' = [config EXCEPT ![d] =
                    IF d \in opened /\ client[c].devices[d] # NoConfig
                    THEN client[c].devices[d] ELSE DefaultConfig]
    /\ out' = StatusSignal(NumClients(connected), RestartSignal(opened), {d})
    /\ UNCHANGED <<environmentVars, controlVars, unplugged, sleeping, clientVars, numClients>>

-----------------------------------------------------------------------------
(* The entries a client has for the devices.                               *)

ClientDevices(c, devices) ==
    /\ client' = [client EXCEPT ![c].devices = devices]
    /\ out' = <<>>
    /\ LeavesDevices
    /\ UNCHANGED <<connected, numActive, numClients>>

(* Client::initializeDevice() keeps the entry it finds. *)
GetDeviceProperties(c, d) ==
    /\ Listening
    /\ c \in connected
    /\ client[c].check
    /\ client[c].devices[d] = NoConfig
    /\ ClientDevices(c, [client[c].devices EXCEPT ![d] = DefaultConfig])

DeleteDeviceConfiguration(c, d) ==
    /\ Listening
    /\ c \in connected
    /\ client[c].devices[d] # NoConfig
    /\ ClientDevices(c, [client[c].devices EXCEPT ![d] = NoConfig])

(* setDeviceBacklightColor() and setDeviceLCDPluginsMask(): stored, and    *)
(* shown by the device only at the next report of an active client.        *)
SetDeviceConfig(c, d, v) ==
    /\ Listening
    /\ c \in connected
    /\ client[c].devices[d] # NoConfig
    /\ ClientDevices(c, [client[c].devices EXCEPT ![d] = v])
=============================================================================
