---------------------------- MODULE SystemProofs ----------------------------
(***************************************************************************)
(* Proofs, for any finite number of clients and devices, any sessions and  *)
(* any bounds, about the daemon alone (first part) and about the desktop   *)
(* services and the daemon they talk to (second part, from "The services"  *)
(* on).                                                                    *)
(*                                                                         *)
(* The daemon: the safety properties of DaemonProperties and the           *)
(* implementation of DeviceLifecycle.  IndInv is inductive: the lemmas     *)
(* named ...Step prove its parts one after the other, in the order types,  *)
(* sessions, count, devices, configurations, signals of logind; each step  *)
(* is split first into the handlers that can disturb the part.  Then the   *)
(* history variables of DaemonResume and DaemonHistory: what the daemon    *)
(* remembers for its users and what it tells its clients.                  *)
(*                                                                         *)
(* The services leave the daemon what module Daemon says of it (DaemonInv  *)
(* through DaemonPart), but that it may be killed and started again.  What *)
(* a service believes depends on the calls that its handler has still to   *)
(* make and on the signals it has still to read, so that the invariants    *)
(* are about both:                                                         *)
(*   HandlersInv   the calls left of a handler are in an order that keeps  *)
(*                 the service consistent wherever it is interrupted;      *)
(*   AgreedInv     a registered service is a client of the daemon, or was  *)
(*                 cut off from it;                                        *)
(*   ViewInv       of each device, a service that is a client has the      *)
(*                 status the daemon has - once the moves left are made -, *)
(*                 or will ask for it, or will read a signal that makes it *)
(*                 ask;                                                    *)
(*   ConfigInv     a client is ready and in the state of its session, the  *)
(*                 daemon has its configuration of each device, and started*)
(*                 devices show it - or the calls that make it so are left *)
(*                 (ReportsFollow says which come together).  Only for a   *)
(*                 single session: the service of another user resets what *)
(*                 devices show when it leaves.                            *)
(* A step is one of the service s (ServiceCall, OwnEvent) or leaves s as   *)
(* it is but for the signals it hears (Apart, OwnOrApart).                 *)
(***************************************************************************)
EXTENDS Service, DaemonResume, DaemonHistory, FiniteSetTheorems, SequenceTheorems, TLAPS

(* setNumClients() is given a uint8_t, whatever the number of clients.     *)
LEMMA NumClientsType ==
    ASSUME NEW S \in SUBSET ClientID
    PROVE  NumClients(S) \in 0..255
  <1>1. IsFiniteSet(S)
    BY ClientIDAssumption, FS_Subset
  <1>2. Cardinality(S) \in Nat
    BY <1>1, FS_CardinalityType
  <1> QED
    BY <1>2 DEF NumClients

(* sendStatusSignalArrayToClients() sends nothing, or one signal that      *)
(* names devices.                                                          *)
LEMMA StatusSignalType ==
    ASSUME NEW n, NEW name \in SignalNames, NEW devices \in SUBSET Device
    PROVE  StatusSignal(n, name, devices) \in Seq(Signal)
  <1>1. <<>> \in Seq(Signal)
    OBVIOUS
  <1>2. [name |-> name, devices |-> devices] \in Signal
    BY DEF Signal
  <1> QED
    BY <1>1, <1>2 DEF StatusSignal

(* sendSignalToClients() sends nothing, or one signal that names no        *)
(* device.                                                                 *)
LEMMA SignalToClientsType ==
    ASSUME NEW n, NEW name \in SignalNames, NEW forced \in BOOLEAN
    PROVE  SignalToClients(n, name, forced) \in Seq(Signal)
  <1>1. <<>> \in Seq(Signal)
    OBVIOUS
  <1>2. [name |-> name, devices |-> {}] \in Signal
    BY DEF Signal
  <1> QED
    BY <1>1, <1>2 DEF SignalToClients

(* resetDevicesStates() leaves each device with a configuration.           *)
LEMMA ResetConfigType ==
    ASSUME config \in [Device -> Config], NEW S
    PROVE  ResetConfig(S) \in [Device -> Config]
  BY ConfigAssumption DEF ResetConfig

(* setDeviceActiveUser() never shows the missing entry of a client.        *)
LEMMA PushedType ==
    ASSUME config \in [Device -> Config], NEW cl \in Client, NEW S
    PROVE  Pushed(cl, S) \in [Device -> Config]
  BY DEF Pushed, Client

(* The object that registerClient() makes, and the absent one, are         *)
(* clients.                                                                *)
LEMMA NewClientType ==
    ASSUME NEW s \in Session
    PROVE  NewClient(s) \in Client /\ NoClient \in Client
  BY ConfigAssumption DEF NewClient, NoClient, Client, States

(* The daemon starts with every member in its type.                        *)
THEOREM InitTypeOK == Init => TypeOK
  <1> SUFFICES ASSUME Init PROVE TypeOK
    OBVIOUS
  <1> USE DEF Init, DevicesManagerInit, ClientsManagerInit, Inhibited
  <1>1. client \in [ClientID -> Client]
    BY DEF NoClient, Client, States
  <1>2. config \in [Device -> Config]
    BY ConfigAssumption
  <1>3. delayLock \in BOOLEAN /\ subscribed \in BOOLEAN
    BY LogindAssumption
  <1>4. uevents \in Seq({"add", "remove"}) /\ out \in Seq(Signal) /\ sleepMsgs \in Seq(BOOLEAN)
    OBVIOUS
  <1>5. waits \in 0..MaxWaits /\ numClients \in 0..255
    BY MaxWaitsAssumption
  <1> QED
    BY <1>1, <1>2, <1>3, <1>4, <1>5 DEF TypeOK, DevicesTypeOK, ClientsTypeOK, SleepTypeOK, Phases

-----------------------------------------------------------------------------
(* The clients.                                                            *)

(* A step leaves the clients manager alone, or it is one of its handlers,  *)
(* or the exit of the daemon.                                              *)
LEMMA ClientSteps ==
    ASSUME [Next]_vars
    PROVE  \/ UNCHANGED clientVars
           \/ Exit
           \/ \E s \in Session :
                 RegisterRefused(s) \/ RegisterFailed(s) \/ \E c \in ClientID : RegisterClient(s, c)
           \/ \E c \in ClientID :
                 \/ UnregisterClient(c)
                 \/ \E state \in {"active", "online"} : UpdateClientState(c, state)
                 \/ ToggleClientReadyPropertie(c)
                 \/ \E d \in Device :
                      \/ GetDeviceProperties(c, d)
                      \/ DeleteDeviceConfiguration(c, d)
                      \/ \E v \in Config : SetDeviceConfig(c, d, v)
  <1>1. CASE UNCHANGED vars
    BY <1>1 DEF vars, clientVars
  <1>2. CASE MainThread
    <2>1. Start \/ UEvent \/ ThreadsCheck => UNCHANGED clientVars
      BY DEF Start, UEvent, ThreadsCheck, LeavesClients
    <2>2. SleepEvent => UNCHANGED clientVars
      BY DEF SleepEvent, GoToSleep, WakeUp, HandleSleepEvent
    <2>3. LeaveLoop \/ MonitoringFails \/ Wait => UNCHANGED clientVars
      BY DEF LeaveLoop, MonitoringFails, StartWaiting, Wait
    <2>4. ASSUME NEW c \in ClientID, NEW d \in Device
          PROVE  /\ StopDevice(c, d) => UNCHANGED clientVars
                 /\ \A opened, kept \in SUBSET {d} :
                       StartDevice(c, d, opened, kept) \/ RestartDevice(c, d, opened, kept)
                       => UNCHANGED clientVars
      BY DEF StopDevice, StartDevice, RestartDevice
    <2> QED
      BY <1>2, <2>1, <2>2, <2>3, <2>4 DEF MainThread, ClientCall
  <1>3. CASE Environment
    BY <1>3 DEF Environment, LeavesClients, SigTerm, PrepareForSleep, Suspend, Resume, OnlySleep
  <1>4. CASE Exited
    BY <1>4 DEF Exited, vars, clientVars
  <1> QED
    BY <1>1, <1>2, <1>3, <1>4 DEF Next

(* The handlers that change no more than the entries of a client.          *)
LEMMA OnlyEntries ==
    ASSUME TypeOK, NEW c \in ClientID, NEW d \in Device, NEW v \in Config,
           GetDeviceProperties(c, d) \/ DeleteDeviceConfiguration(c, d) \/ SetDeviceConfig(c, d, v)
    PROVE  /\ UNCHANGED <<connected, numActive, started, stopped, initialized, config, phase>>
           /\ client' \in [ClientID -> Client]
           /\ \A e \in ClientID : /\ client'[e].session = client[e].session
                                   /\ client'[e].state = client[e].state
  <1>1. client[c].devices \in [Device -> Config \cup {NoConfig}]
    BY DEF TypeOK, ClientsTypeOK, Client
  <1>2. PICK devices \in [Device -> Config \cup {NoConfig}] : ClientDevices(c, devices)
    <2>1. CASE GetDeviceProperties(c, d)
      BY <1>1, <2>1, ConfigAssumption DEF GetDeviceProperties
    <2>2. CASE DeleteDeviceConfiguration(c, d)
      BY <1>1, <2>2 DEF DeleteDeviceConfiguration
    <2>3. CASE SetDeviceConfig(c, d, v)
      BY <1>1, <2>3 DEF SetDeviceConfig
    <2> QED
      BY <2>1, <2>2, <2>3
  <1>3. [client[c] EXCEPT !.devices = devices] \in Client
    BY DEF TypeOK, ClientsTypeOK, Client
  <1> QED
    BY <1>2, <1>3 DEF ClientDevices, LeavesDevices, deviceVars, controlVars, TypeOK, ClientsTypeOK, Client

(* Every handler leaves the clients manager with clients of their type.    *)
LEMMA ClientTypes ==
    ASSUME TypeOK, [Next]_vars
    PROVE  connected' \subseteq ClientID /\ client' \in [ClientID -> Client]
  <1> USE DEF TypeOK, ClientsTypeOK
  <1>1. CASE UNCHANGED clientVars
    BY <1>1 DEF clientVars
  <1>2. CASE Exit
    BY <1>2 DEF Exit, NoClient, Client, States
  <1>3. ASSUME NEW s \in Session, RegisterRefused(s)
        PROVE  connected' \subseteq ClientID /\ client' \in [ClientID -> Client]
    BY <1>3 DEF RegisterRefused, Client
  <1>4. ASSUME NEW s \in Session, RegisterFailed(s)
        PROVE  connected' \subseteq ClientID /\ client' \in [ClientID -> Client]
    BY <1>4, NewClientType DEF RegisterFailed, Unregistered
  <1>5. ASSUME NEW s \in Session, NEW c \in ClientID, RegisterClient(s, c)
        PROVE  connected' \subseteq ClientID /\ client' \in [ClientID -> Client]
    BY <1>5, NewClientType DEF RegisterClient, Unregistered
  <1>6. ASSUME NEW c \in ClientID, UnregisterClient(c)
        PROVE  connected' \subseteq ClientID /\ client' \in [ClientID -> Client]
    <2>1. NoClient \in Client
      BY DEF NoClient, Client, States
    <2> QED
      BY <1>6, <2>1 DEF UnregisterClient, Unregistered
  <1>7. ASSUME NEW c \in ClientID, NEW state \in {"active", "online"}, UpdateClientState(c, state)
        PROVE  connected' \subseteq ClientID /\ client' \in [ClientID -> Client]
    <2>1. [client[c] EXCEPT !.state = state, !.check = TRUE] \in Client
      BY <1>7 DEF Client, States
    <2> QED
      BY <1>7, <2>1 DEF UpdateClientState
  <1>8. ASSUME NEW c \in ClientID, ToggleClientReadyPropertie(c)
        PROVE  connected' \subseteq ClientID /\ client' \in [ClientID -> Client]
    BY <1>8 DEF ToggleClientReadyPropertie, Client
  <1>9. ASSUME NEW c \in ClientID, NEW d \in Device, NEW v \in Config,
               GetDeviceProperties(c, d) \/ DeleteDeviceConfiguration(c, d) \/ SetDeviceConfig(c, d, v)
        PROVE  connected' \subseteq ClientID /\ client' \in [ClientID -> Client]
    BY <1>9, OnlyEntries
  <1> QED
    BY <1>1, <1>2, <1>3, <1>4, <1>5, <1>6, <1>7, <1>8, <1>9, ConfigAssumption, ClientSteps

(* SessionsDistinct is inductive: a registration that is accepted keeps    *)
(* only the clients that are alive, and none of them has that session.     *)
LEMMA SessionsDistinctStep ==
    ASSUME TypeOK, SessionsDistinct, [Next]_vars
    PROVE  SessionsDistinct'
  <1> USE DEF TypeOK, ClientsTypeOK, SessionsDistinct
  <1>1. CASE UNCHANGED clientVars
    BY <1>1 DEF clientVars
  <1>2. CASE Exit
    BY <1>2 DEF Exit
  <1>3. ASSUME NEW s \in Session, RegisterRefused(s)
        PROVE  SessionsDistinct'
    BY <1>3 DEF RegisterRefused, Client
  <1>4. ASSUME NEW s \in Session, RegisterFailed(s)
        PROVE  SessionsDistinct'
    BY <1>4 DEF RegisterFailed, Unregistered, Unresponsive
  <1>5. ASSUME NEW s \in Session, NEW c \in ClientID, RegisterClient(s, c)
        PROVE  SessionsDistinct'
    <2>1. \A e \in connected' \ {c} : e \in connected \ Unresponsive /\ client'[e] = client[e]
      BY <1>5 DEF RegisterClient, Unregistered
    <2>2. \A e \in connected' \ {c} : client'[e].session # s
      BY <1>5, <2>1 DEF RegisterClient, AlreadyRegistered, Unresponsive
    <2>3. client'[c].session = s
      BY <1>5 DEF RegisterClient, Unregistered, NewClient
    <2> QED
      BY <2>1, <2>2, <2>3
  <1>6. ASSUME NEW c \in ClientID, UnregisterClient(c)
        PROVE  SessionsDistinct'
    BY <1>6 DEF UnregisterClient, Unregistered
  <1>7. ASSUME NEW c \in ClientID, NEW state \in {"active", "online"}, UpdateClientState(c, state)
        PROVE  SessionsDistinct'
    <2>1. [client[c] EXCEPT !.state = state, !.check = TRUE].session = client[c].session
      BY DEF Client
    <2>2. \A e \in ClientID : client'[e].session = client[e].session
      BY <1>7, <2>1 DEF UpdateClientState
    <2> QED
      BY <1>7, <2>2 DEF UpdateClientState
  <1>8. ASSUME NEW c \in ClientID, ToggleClientReadyPropertie(c)
        PROVE  SessionsDistinct'
    BY <1>8 DEF ToggleClientReadyPropertie, Client
  <1>9. ASSUME NEW c \in ClientID, NEW d \in Device, NEW v \in Config,
               GetDeviceProperties(c, d) \/ DeleteDeviceConfiguration(c, d) \/ SetDeviceConfig(c, d, v)
        PROVE  SessionsDistinct'
    BY <1>9, OnlyEntries
  <1> QED
    BY <1>1, <1>2, <1>3, <1>4, <1>5, <1>6, <1>7, <1>8, <1>9, ConfigAssumption, ClientSteps

(* The counter.  Each handler changes the set of the active clients the    *)
(* way it changes the counter.                                             *)
LEMMA ActiveFinite ==
    ASSUME NEW S \in SUBSET ClientID
    PROVE  IsFiniteSet(S) /\ Cardinality(S) \in Nat
  BY ClientIDAssumption, FS_Subset, FS_CardinalityType

(* Clients leave: those of S, and the counter decreases by those that were *)
(* active.                                                                 *)
LEMMA CountLeaving ==
    ASSUME TypeOK, NumActiveExact, NEW S, ForgetDevicesOf(S), Active' = Active \ S
    PROVE  NumActiveExact'
  <1>1. Active \in SUBSET ClientID
    BY DEF TypeOK, ClientsTypeOK, Active, ActiveIn
  <1>2. Cardinality(Active \ S) = Cardinality(Active) - Cardinality(Active \cap S)
    BY <1>1, ActiveFinite, FS_Difference
  <1>3. Active \cap S = S \cap Active
    OBVIOUS
  <1> QED
    BY <1>2, <1>3 DEF ForgetDevicesOf, NumActiveExact

(* The number of active clients only depends on who is connected and on    *)
(* their states.                                                           *)
LEMMA CountUnchanged ==
    ASSUME NumActiveExact, Active' = Active, UNCHANGED numActive
    PROVE  NumActiveExact'
  BY DEF NumActiveExact

(* _numActive follows the set of active clients through every handler: an  *)
(* update of the state, an unregistration, and the eviction of any number  *)
(* of clients at once.                                                     *)
LEMMA NumActiveStep ==
    ASSUME TypeOK, NumActiveExact, [Next]_vars
    PROVE  NumActiveExact'
  <1> USE DEF TypeOK, ClientsTypeOK, Active, ActiveIn
  <1>1. CASE UNCHANGED clientVars
    BY <1>1, CountUnchanged DEF clientVars
  <1>2. CASE Exit
    BY <1>2, FS_EmptySet DEF Exit, NumActiveExact
  <1>3. ASSUME NEW s \in Session, RegisterRefused(s)
        PROVE  NumActiveExact'
    <2>1. \A e \in ClientID : client'[e].state = client[e].state
      BY <1>3 DEF RegisterRefused, Client
    <2> QED
      BY <1>3, <2>1, CountUnchanged DEF RegisterRefused
  <1>4. ASSUME NEW s \in Session, RegisterFailed(s)
        PROVE  NumActiveExact'
    <2>1. Active' = Active \ Unresponsive
      BY <1>4 DEF RegisterFailed, Unregistered
    <2> QED
      BY <1>4, <2>1, CountLeaving DEF RegisterFailed
  <1>5. ASSUME NEW s \in Session, NEW c \in ClientID, RegisterClient(s, c)
        PROVE  NumActiveExact'
    <2>1. client'[c].state = "unknown"
      BY <1>5 DEF RegisterClient, Unregistered, NewClient
    <2>2. \A e \in connected' \ {c} : e \in connected \ Unresponsive /\ client'[e] = client[e]
      BY <1>5 DEF RegisterClient, Unregistered
    <2>3. \A e \in connected \ Unresponsive : e \in connected' \ {c}
      BY <1>5 DEF RegisterClient
    <2>4. Active' = Active \ Unresponsive
      BY <2>1, <2>2, <2>3
    <2> QED
      BY <1>5, <2>4, CountLeaving DEF RegisterClient
  <1>6. ASSUME NEW c \in ClientID, UnregisterClient(c)
        PROVE  NumActiveExact'
    <2>1. Active' = Active \ {c}
      BY <1>6 DEF UnregisterClient, Unregistered
    <2> QED
      BY <1>6, <2>1, CountLeaving DEF UnregisterClient
  <1>7. ASSUME NEW c \in ClientID, NEW state \in {"active", "online"}, UpdateClientState(c, state)
        PROVE  NumActiveExact'
    <2>1. [client[c] EXCEPT !.state = state, !.check = TRUE].state = state
      BY DEF Client
    <2>2. /\ client'[c].state = state
          /\ \A e \in ClientID \ {c} : client'[e] = client[e]
          /\ connected' = connected /\ c \in connected
          /\ numActive' = NumActiveAfter(client[c].state, state)
      BY <1>7, <2>1 DEF UpdateClientState
    <2>3. Active \in SUBSET ClientID
      OBVIOUS
    <2>4. CASE client[c].state = "active" /\ state # "active"
      <3>1. c \in Active /\ Active' = Active \ {c}
        BY <2>2, <2>4
      <3>2. Cardinality(Active \ {c}) = Cardinality(Active) - 1
        BY <2>3, <3>1, ActiveFinite, FS_RemoveElement
      <3> QED
        BY <2>2, <2>4, <3>1, <3>2 DEF NumActiveAfter, NumActiveExact
    <2>5. CASE client[c].state # "active" /\ state = "active"
      <3>1. c \notin Active /\ Active' = Active \cup {c}
        BY <2>2, <2>5
      <3>2. Cardinality(Active \cup {c}) = Cardinality(Active) + 1
        BY <2>3, <3>1, ActiveFinite, FS_AddElement
      <3> QED
        BY <2>2, <2>5, <3>1, <3>2 DEF NumActiveAfter, NumActiveExact
    <2>6. CASE client[c].state = "active" <=> state = "active"
      <3>1. Active' = Active
        BY <2>2, <2>6
      <3>2. UNCHANGED numActive
        BY <2>2, <2>6 DEF NumActiveAfter
      <3> QED
        BY <3>1, <3>2, CountUnchanged
    <2> QED
      BY <2>4, <2>5, <2>6
  <1>8. ASSUME NEW c \in ClientID, ToggleClientReadyPropertie(c)
        PROVE  NumActiveExact'
    <2>1. \A e \in ClientID : client'[e].state = client[e].state
      BY <1>8 DEF ToggleClientReadyPropertie, Client
    <2> QED
      BY <1>8, <2>1, CountUnchanged DEF ToggleClientReadyPropertie
  <1>9. ASSUME NEW c \in ClientID, NEW d \in Device, NEW v \in Config,
               GetDeviceProperties(c, d) \/ DeleteDeviceConfiguration(c, d) \/ SetDeviceConfig(c, d, v)
        PROVE  NumActiveExact'
    BY <1>9, OnlyEntries, CountUnchanged
  <1> QED
    BY <1>1, <1>2, <1>3, <1>4, <1>5, <1>6, <1>7, <1>8, <1>9, ConfigAssumption, ClientSteps

-----------------------------------------------------------------------------
(* Types.                                                                  *)

(* The clients manager keeps its types: the count, being exact, never goes *)
(* below 0.                                                                *)
LEMMA ClientsTypeStep ==
    ASSUME TypeOK, NumActiveExact, [Next]_vars
    PROVE  ClientsTypeOK'
  <1>1. connected' \subseteq ClientID /\ client' \in [ClientID -> Client]
    BY ClientTypes
  <1>2. Active' \in SUBSET ClientID
    BY <1>1 DEF Active, ActiveIn
  <1>3. numActive' \in Nat
    BY <1>2, NumActiveStep, ActiveFinite DEF NumActiveExact
  <1> QED
    BY <1>1, <1>3 DEF ClientsTypeOK

(* The handlers of the clients manager that only change the configurations *)
LEMMA OnlyConfigTypes ==
    ASSUME DevicesTypeOK, OnlyConfig, config' \in [Device -> Config],
           numClients' \in 0..255, out' = <<>>
    PROVE  DevicesTypeOK'
  BY EmptySeq DEF OnlyConfig, environmentVars, controlVars, DevicesTypeOK

(* A handler that leaves the devices alone keeps their types.              *)
LEMMA LeavesDevicesTypes ==
    ASSUME DevicesTypeOK, LeavesDevices, UNCHANGED numClients, out' \in Seq(Signal)
    PROVE  DevicesTypeOK'
  BY DEF LeavesDevices, environmentVars, controlVars, deviceVars, DevicesTypeOK

(* The handlers that add or remove clients keep the types of the devices.  *)
LEMMA RegistrationTypes ==
    ASSUME TypeOK, connected' \subseteq ClientID, NEW S, ForgetDevicesOf(S), OnlyConfig,
           numClients' = NumClients(connected'), out' = <<>>
    PROVE  DevicesTypeOK'
  <1>1. config' \in [Device -> Config]
    BY ResetConfigType DEF TypeOK, DevicesTypeOK, ForgetDevicesOf, ResetDevicesStates
  <1> QED
    BY <1>1, NumClientsType, OnlyConfigTypes DEF TypeOK

(* The handlers that clients call keep the types of the devices.           *)
LEMMA ClientCallTypes ==
    ASSUME TypeOK, ClientCall, [Next]_vars
    PROVE  DevicesTypeOK'
  <1>1. connected' \subseteq ClientID /\ client' \in [ClientID -> Client]
    BY ClientTypes
  <1>2. ASSUME NEW s \in Session, RegisterRefused(s)
        PROVE  DevicesTypeOK'
    BY <1>2, SignalToClientsType, LeavesDevicesTypes DEF RegisterRefused, SignalNames, TypeOK
  <1>3. ASSUME NEW s \in Session, RegisterFailed(s)
        PROVE  DevicesTypeOK'
    BY <1>1, <1>3, RegistrationTypes DEF RegisterFailed
  <1>4. ASSUME NEW s \in Session, NEW c \in ClientID, RegisterClient(s, c)
        PROVE  DevicesTypeOK'
    BY <1>1, <1>4, RegistrationTypes DEF RegisterClient
  <1>5. ASSUME NEW c \in ClientID, UnregisterClient(c)
        PROVE  DevicesTypeOK'
    BY <1>1, <1>5, RegistrationTypes DEF UnregisterClient
  <1>6. ASSUME NEW c \in ClientID, NEW state \in {"active", "online"}, UpdateClientState(c, state)
        PROVE  DevicesTypeOK'
    <2>1. [client[c] EXCEPT !.state = state, !.check = TRUE] \in Client
      BY DEF TypeOK, ClientsTypeOK, Client, States
    <2>2. config' \in [Device -> Config]
      BY <1>6, <2>1, PushedType, ResetConfigType DEF UpdateClientState, TypeOK, DevicesTypeOK
    <2> QED
      BY <1>6, <2>2, OnlyConfigTypes DEF UpdateClientState, TypeOK, DevicesTypeOK
  <1>7. ASSUME NEW c \in ClientID, ToggleClientReadyPropertie(c)
        PROVE  DevicesTypeOK'
    <2>1. config' \in [Device -> Config]
      BY <1>7, PushedType DEF ToggleClientReadyPropertie, TypeOK, DevicesTypeOK, ClientsTypeOK
    <2> QED
      BY <1>7, <2>1, OnlyConfigTypes DEF ToggleClientReadyPropertie, TypeOK, DevicesTypeOK
  <1>8. ASSUME NEW c \in ClientID, NEW d \in Device, StopDevice(c, d)
        PROVE  DevicesTypeOK'
    BY <1>8, StatusSignalType, ResetConfigType
       DEF StopDevice, StopDevices, CloseDevices, SignalNames, environmentVars, controlVars,
           TypeOK, DevicesTypeOK
  <1>9. ASSUME NEW c \in ClientID, NEW d \in Device, NEW opened \in SUBSET {d}, NEW kept \in SUBSET {d},
               StartDevice(c, d, opened, kept)
        PROVE  DevicesTypeOK'
    <2>1. config' \in [Device -> Config]
      BY <1>9, PushedType DEF StartDevice, MayChangeDevices, TypeOK, DevicesTypeOK, ClientsTypeOK
    <2> QED
      BY <1>9, <2>1, StatusSignalType
         DEF StartDevice, StartDevices, OpenDevices, OpenOutcome, SignalNames, environmentVars,
             controlVars, TypeOK, DevicesTypeOK
  <1>10. ASSUME NEW c \in ClientID, NEW d \in Device, NEW opened \in SUBSET {d}, NEW kept \in SUBSET {d},
                RestartDevice(c, d, opened, kept)
         PROVE  DevicesTypeOK'
    <2>1. client[c].devices[d] \in Config \cup {NoConfig}
      BY DEF TypeOK, ClientsTypeOK, Client
    <2>2. config' \in [Device -> Config]
      BY <1>10, <2>1, ConfigAssumption DEF RestartDevice, TypeOK, DevicesTypeOK
    <2>3. RestartSignal(opened) \in SignalNames
      BY DEF RestartSignal, SignalNames
    <2> QED
      BY <1>10, <2>2, <2>3, StatusSignalType
         DEF RestartDevice, OpenDevices, OpenOutcome, environmentVars, controlVars, TypeOK, DevicesTypeOK
  <1>11. ASSUME NEW c \in ClientID, NEW d \in Device, NEW v \in Config,
                GetDeviceProperties(c, d) \/ DeleteDeviceConfiguration(c, d) \/ SetDeviceConfig(c, d, v)
         PROVE  DevicesTypeOK'
    <2>1. LeavesDevices /\ UNCHANGED numClients /\ out' = <<>>
      BY <1>11 DEF GetDeviceProperties, DeleteDeviceConfiguration, SetDeviceConfig, ClientDevices
    <2> QED
      BY <2>1, EmptySeq, LeavesDevicesTypes DEF TypeOK
  <1> QED
    BY <1>2, <1>3, <1>4, <1>5, <1>6, <1>7, <1>8, <1>9, <1>10, <1>11, ConfigAssumption DEF ClientCall

(* Every step keeps the types of the devices manager and of its driver.    *)
LEMMA DevicesTypeStep ==
    ASSUME TypeOK, [Next]_vars
    PROVE  DevicesTypeOK'
  <1> USE DEF TypeOK, DevicesTypeOK
  <1>1. CASE UNCHANGED vars
    BY <1>1 DEF vars
  <1>2. CASE Start
    <2>1. PICK opened \in SUBSET plugged : \E kept \in SUBSET (plugged \ opened) :
             StartMonitoring(opened, kept)
      BY <1>2 DEF Start
    <2>2. PICK kept \in SUBSET (plugged \ opened) : StartMonitoring(opened, kept)
      BY <2>1
    <2>3. opened \subseteq Device /\ kept \subseteq Device
      OBVIOUS
    <2>4. /\ StatusSignal(numClients, "DevicesStarted", opened) \in Seq(Signal)
          /\ SignalToClients(numClients, "DaemonIsStarting", TRUE) \in Seq(Signal)
      BY <2>3, StatusSignalType, SignalToClientsType DEF SignalNames
    <2>5. out' \in Seq(Signal)
      BY <2>2, <2>4, ConcatProperties DEF StartMonitoring, Detected
    <2> QED
      BY <2>2, <2>3, <2>5 DEF StartMonitoring, Detected, OpenDevices, Phases
  <1>3. CASE UEvent /\ HotplugAdd
    BY <1>3, StatusSignalType, HeadTailProperties DEF HotplugAdd, Detected, ReceiveUEvent, SignalNames
  <1>4. CASE UEvent /\ HotplugRemove
    BY <1>4, StatusSignalType, ResetConfigType, HeadTailProperties
       DEF HotplugRemove, ReceiveUEvent, CloseDevices, Gone, Detected, SignalNames
  <1>5. CASE ThreadsCheck
    BY <1>5, StatusSignalType, ResetConfigType
       DEF ThreadsCheck, CheckThreads, StopDevices, CloseDevices, Lost, SignalNames, environmentVars, controlVars
  <1>6. CASE ClientCall
    BY <1>6, ClientCallTypes
  <1>7. CASE GoToSleep
    BY <1>7, ResetConfigType, EmptySeq
       DEF GoToSleep, HandleSleepEvent, StopInitializedDevices, StopDevices, CloseDevices,
           environmentVars, controlVars
  <1>8. ASSUME NEW opened \in SUBSET sleeping, NEW kept \in SUBSET sleeping, WakeUp(opened, kept)
        PROVE  DevicesTypeOK'
    BY <1>8, EmptySeq
       DEF WakeUp, HandleSleepEvent, StartSleepingDevices, StartDevices, OpenDevices, OpenOutcome,
           environmentVars, controlVars
  <1>9. CASE LeaveLoop \/ MonitoringFails
    BY <1>9, SignalToClientsType
       DEF LeaveLoop, MonitoringFails, StartWaiting, SignalNames, Phases, environmentVars, deviceVars
  <1>10. CASE Wait
    BY <1>10, EmptySeq DEF Wait, environmentVars, controlVars, deviceVars
  <1>11. CASE Exit
    BY <1>11, ResetConfigType, EmptySeq DEF Exit, CloseDevices, Phases, environmentVars
  <1>12. ASSUME NEW d \in Device, Plug(d) \/ Unplug(d)
         PROVE  DevicesTypeOK'
    <2>1. uevents' = Append(uevents, "add") \/ uevents' = Append(uevents, "remove")
      BY <1>12 DEF Plug, Unplug
    <2>2. Append(uevents, "add") \in Seq({"add", "remove"})
      BY AppendProperties
    <2>3. Append(uevents, "remove") \in Seq({"add", "remove"})
      BY AppendProperties
    <2> QED
      BY <1>12, <2>1, <2>2, <2>3, EmptySeq DEF Plug, Unplug, controlVars, deviceVars
  <1>13. ASSUME NEW d \in Device, ThreadsGiveUp(d)
         PROVE  DevicesTypeOK'
    BY <1>13, EmptySeq DEF ThreadsGiveUp, environmentVars, controlVars
  <1>14. CASE SigTerm
    BY <1>14, EmptySeq DEF SigTerm, environmentVars, deviceVars
  <1>15. CASE PrepareForSleep \/ Suspend \/ Resume
    BY <1>15, EmptySeq
       DEF PrepareForSleep, Suspend, Resume, OnlySleep, environmentVars, controlVars, deviceVars
  <1> QED
    BY <1>1, <1>2, <1>3, <1>4, <1>5, <1>6, <1>7, <1>8, <1>9, <1>10, <1>11, <1>12, <1>13, <1>14, <1>15
       DEF Next, MainThread, Environment, SleepEvent, UEvent, Exited

(* inhibitSleepState() leaves the lock held or not.                        *)
LEMMA InhibitedType ==
    ASSUME NEW lock \in BOOLEAN
    PROVE  Inhibited(lock) \subseteq BOOLEAN
  BY DEF Inhibited

(* Every step keeps the types of the sleep inhibition and of the exit      *)
(* sequence.                                                               *)
LEMMA SleepTypeStep ==
    ASSUME TypeOK, [Next]_vars
    PROVE  SleepTypeOK'
  <1> USE DEF TypeOK, SleepTypeOK
  <1>1. CASE UNCHANGED <<waits, sleepVars>>
    BY <1>1 DEF sleepVars
  <1>2. CASE GoToSleep
    BY <1>2, HeadTailProperties DEF GoToSleep, HandleSleepEvent
  <1>3. ASSUME NEW opened, NEW kept, WakeUp(opened, kept)
        PROVE  SleepTypeOK'
    BY <1>3, HeadTailProperties, InhibitedType DEF WakeUp, HandleSleepEvent
  <1>4. CASE LeaveLoop \/ MonitoringFails
    <2>1. waits' \in 0..MaxWaits
      <3>1. waits' = 0
        BY <1>4 DEF LeaveLoop, MonitoringFails, StartWaiting
      <3> QED
        BY <3>1, MaxWaitsAssumption
    <2>2. UNCHANGED <<delayLock, subscribed, power, sleepMsgs>>
      BY <1>4 DEF LeaveLoop, MonitoringFails, StartWaiting, sleepVars
    <2> QED
      BY <2>1, <2>2
  <1>5. CASE Wait
    BY <1>5, MaxWaitsAssumption DEF Wait, sleepVars
  <1>6. CASE Exit
    BY <1>6 DEF Exit
  <1>7. CASE PrepareForSleep
    BY <1>7, AppendProperties DEF PrepareForSleep, OnlySleep
  <1>8. CASE Suspend
    BY <1>8 DEF Suspend, OnlySleep
  <1>9. CASE Resume
    BY <1>9, AppendProperties DEF Resume, OnlySleep
  <1>10. CASE SigTerm
    BY <1>10 DEF SigTerm, sleepVars
  <1>11. CASE UNCHANGED vars
    BY <1>11 DEF vars
  <1> QED
    BY <1>1, <1>2, <1>3, <1>4, <1>5, <1>6, <1>7, <1>8, <1>9, <1>10, <1>11
       DEF Next, MainThread, Environment, SleepEvent, Start, UEvent, ThreadsCheck, ClientCall,
           LeavesClients, Exited

(* Every step keeps the type invariant.                                    *)
LEMMA TypeOKStep ==
    ASSUME TypeOK, NumActiveExact, [Next]_vars
    PROVE  TypeOK'
  BY ClientsTypeStep, DevicesTypeStep, SleepTypeStep DEF TypeOK

-----------------------------------------------------------------------------
(* The devices.                                                            *)

(* The handlers of the clients manager that may change what devices show   *)
(* without stopping or starting any.                                       *)
Reconfiguration ==
    \/ \E s \in Session : RegisterFailed(s) \/ \E c \in ClientID : RegisterClient(s, c)
    \/ \E c \in ClientID :
         \/ UnregisterClient(c)
         \/ \E state \in {"active", "online"} : UpdateClientState(c, state)
         \/ ToggleClientReadyPropertie(c)

(* A step leaves the devices alone, reconfigures them, or is one of the    *)
(* actions that stop, start, find or lose them.                            *)
LEMMA DeviceSteps ==
    ASSUME TypeOK, [Next]_vars
    PROVE  \/ UNCHANGED <<phase, started, stopped, unplugged, initialized, config, numActive>>
           \/ Reconfiguration
           \/ \E opened, kept \in SUBSET plugged : StartMonitoring(opened, kept) /\ UNCHANGED clientVars
           \/ (HotplugAdd \/ HotplugRemove \/ CheckThreads) /\ UNCHANGED clientVars
           \/ \E c \in ClientID, d \in Device : StopDevice(c, d)
           \/ \E c \in ClientID, d \in Device : \E opened, kept \in SUBSET {d} :
                 StartDevice(c, d, opened, kept) \/ RestartDevice(c, d, opened, kept)
           \/ GoToSleep
           \/ \E opened, kept \in SUBSET sleeping : WakeUp(opened, kept)
           \/ LeaveLoop \/ MonitoringFails
           \/ Exit
  <1>1. CASE UNCHANGED vars
    BY <1>1 DEF vars
  <1>2. CASE Start
    BY <1>2 DEF Start, LeavesClients
  <1>3. CASE UEvent \/ ThreadsCheck
    BY <1>3 DEF UEvent, ThreadsCheck, LeavesClients
  <1>4. CASE ClientCall
    <2>1. ASSUME NEW s \in Session, RegisterRefused(s)
          PROVE  UNCHANGED <<phase, started, stopped, unplugged, initialized, config, numActive>>
      BY <2>1 DEF RegisterRefused, LeavesDevices, deviceVars, controlVars
    <2>2. ASSUME NEW c \in ClientID, NEW d \in Device, NEW v \in Config,
                 GetDeviceProperties(c, d) \/ DeleteDeviceConfiguration(c, d) \/ SetDeviceConfig(c, d, v)
          PROVE  UNCHANGED <<phase, started, stopped, unplugged, initialized, config, numActive>>
      BY <2>2 DEF GetDeviceProperties, DeleteDeviceConfiguration, SetDeviceConfig, ClientDevices,
                  LeavesDevices, deviceVars, controlVars
    <2> QED
      BY <1>4, <2>1, <2>2, ConfigAssumption DEF ClientCall, Reconfiguration
  <1>5. CASE Wait
    BY <1>5 DEF Wait, deviceVars, controlVars, clientVars
  <1>6. CASE Environment
    BY <1>6 DEF Environment, Plug, Unplug, ThreadsGiveUp, LeavesClients, SigTerm, PrepareForSleep, Suspend,
                Resume, OnlySleep, deviceVars, controlVars, clientVars
  <1>7. CASE Exited
    BY <1>7 DEF Exited, vars
  <1> QED
    BY <1>1, <1>2, <1>3, <1>4, <1>5, <1>6, <1>7 DEF Next, MainThread, SleepEvent

DeviceInv == StartedAreInitialized /\ NothingBeforeStart

(* A started device keeps its entry in the driver and is never stopped as  *)
(* well: closeDevice() erases the entry only of devices that leave the     *)
(* started ones, and openDevice() leaves one for those it opens.           *)
LEMMA DeviceInvStep ==
    ASSUME TypeOK, DeviceInv, [Next]_vars
    PROVE  DeviceInv'
  <1> USE DEF DeviceInv, StartedAreInitialized, NothingBeforeStart, Listening
  <1>1. CASE UNCHANGED <<phase, started, stopped, unplugged, initialized>>
    BY <1>1
  <1>2. CASE Reconfiguration
    BY <1>1, <1>2 DEF Reconfiguration, RegisterFailed, RegisterClient, UnregisterClient, UpdateClientState,
                 ToggleClientReadyPropertie, OnlyConfig, controlVars
  <1>3. ASSUME NEW opened, NEW kept, StartMonitoring(opened, kept)
        PROVE  DeviceInv'
    BY <1>3 DEF StartMonitoring, Detected, OpenDevices
  <1>4. CASE HotplugAdd
    BY <1>4 DEF HotplugAdd, Detected, ReceiveUEvent
  <1>5. CASE HotplugRemove
    BY <1>5 DEF HotplugRemove, ReceiveUEvent, CloseDevices, Gone, Detected
  <1>6. CASE CheckThreads
    BY <1>6 DEF CheckThreads, StopDevices, CloseDevices, Lost, controlVars
  <1>7. ASSUME NEW c, NEW d, StopDevice(c, d)
        PROVE  DeviceInv'
    BY <1>7 DEF StopDevice, StopDevices, CloseDevices, MayChangeDevices, controlVars
  <1>8. ASSUME NEW c, NEW d, NEW opened, NEW kept, StartDevice(c, d, opened, kept)
        PROVE  DeviceInv'
    BY <1>8 DEF StartDevice, StartDevices, OpenDevices, OpenOutcome, MayChangeDevices, controlVars
  <1>9. ASSUME NEW c, NEW d, NEW opened, NEW kept, RestartDevice(c, d, opened, kept)
        PROVE  DeviceInv'
    BY <1>9 DEF RestartDevice, OpenDevices, OpenOutcome, MayChangeDevices, controlVars
  <1>10. CASE GoToSleep
    BY <1>10 DEF GoToSleep, HandleSleepEvent, StopInitializedDevices, StopDevices, CloseDevices, controlVars
  <1>11. ASSUME NEW opened, NEW kept, WakeUp(opened, kept)
         PROVE  DeviceInv'
    BY <1>11 DEF WakeUp, HandleSleepEvent, StartSleepingDevices, StartDevices, OpenDevices, OpenOutcome,
                 controlVars
  <1>12. CASE LeaveLoop \/ MonitoringFails
    BY <1>12 DEF LeaveLoop, MonitoringFails, StartWaiting, deviceVars
  <1>13. CASE Exit
    BY <1>13 DEF Exit
  <1> QED
    BY <1>1, <1>2, <1>3, <1>4, <1>5, <1>6, <1>7, <1>8, <1>9, <1>10, <1>11, <1>12, <1>13, DeviceSteps

(* What devices show.                                                      *)
IdleInv == IdleDevicesReset /\ ClosedDevicesReset

(* An active client makes the counter positive.                            *)
LEMMA SomebodyActive ==
    ASSUME TypeOK, NumActiveExact, NEW c \in Active
    PROVE  numActive # 0
  <1>1. IsFiniteSet(Active)
    BY ActiveFinite DEF TypeOK, ClientsTypeOK, Active, ActiveIn
  <1> QED
    BY <1>1, FS_EmptySet DEF NumActiveExact

(* Either all devices are reset when a client leaves, or none was active.  *)
LEMMA IdleAfterLeaving ==
    ASSUME TypeOK, IdleInv, NEW S, ForgetDevicesOf(S), UNCHANGED started
    PROVE  IdleInv'
  <1> USE DEF IdleInv, IdleDevicesReset, ClosedDevicesReset, TypeOK, DevicesTypeOK
  <1>1. CASE S \cap Active # {}
    BY <1>1 DEF ForgetDevicesOf, ResetDevicesStates, ResetConfig
  <1>2. CASE S \cap Active = {}
    <2>1. Cardinality(S \cap Active) = 0
      BY <1>2, FS_EmptySet
    <2>2. UNCHANGED <<config, numActive>>
      BY <1>2, <2>1 DEF ForgetDevicesOf, ClientsTypeOK
    <2> QED
      BY <2>2
  <1> QED
    BY <1>1, <1>2

(* The devices show defaults whenever the last active client is gone: only *)
(* a handler called by an active client, or the report of one, gives them  *)
(* anything else.                                                          *)
LEMMA IdleInvStep ==
    ASSUME TypeOK, NumActiveExact, DeviceInv, IdleInv, [Next]_vars
    PROVE  IdleInv'
  <1> USE DEF IdleInv, IdleDevicesReset, ClosedDevicesReset, TypeOK, DevicesTypeOK
  <1>n. TypeOK' /\ NumActiveExact'
    BY TypeOKStep, NumActiveStep
  <1>1. CASE UNCHANGED <<phase, started, stopped, unplugged, initialized, config, numActive>>
    BY <1>1
  <1>2. CASE Reconfiguration
    <2>1. ASSUME NEW s \in Session, RegisterFailed(s)
          PROVE  IdleInv'
      BY <2>1, IdleAfterLeaving DEF RegisterFailed, OnlyConfig
    <2>2. ASSUME NEW s \in Session, NEW c \in ClientID, RegisterClient(s, c)
          PROVE  IdleInv'
      BY <2>2, IdleAfterLeaving DEF RegisterClient, OnlyConfig
    <2>3. ASSUME NEW c \in ClientID, UnregisterClient(c)
          PROVE  IdleInv'
      BY <2>3, IdleAfterLeaving DEF UnregisterClient, OnlyConfig
    <2>4. ASSUME NEW c \in ClientID, NEW state \in {"active", "online"}, UpdateClientState(c, state)
          PROVE  IdleInv'
      <3>1. UNCHANGED <<started, connected>> /\ c \in connected
        BY <2>4 DEF UpdateClientState, OnlyConfig
      <3>2. CASE config' = ResetConfig(started)
        BY <3>1, <3>2 DEF ResetConfig
      <3>3. CASE config' # ResetConfig(started) /\ state = "active"
        <4>1. [client[c] EXCEPT !.state = state, !.check = TRUE].state = state
          BY DEF ClientsTypeOK, Client
        <4>2. c \in Active'
          BY <2>4, <3>1, <3>3, <4>1 DEF UpdateClientState, Active, ActiveIn, ClientsTypeOK
        <4>3. IsFiniteSet(Active')
          BY <1>n, ActiveFinite DEF ClientsTypeOK, Active, ActiveIn
        <4>4. numActive' # 0
          BY <1>n, <4>2, <4>3, FS_EmptySet DEF NumActiveExact
        <4>5. \A d \in Device \ started : config'[d] = config[d]
          BY <2>4 DEF UpdateClientState, Pushed, ResetConfig
        <4> QED
          BY <3>1, <4>4, <4>5
      <3>4. CASE config' # ResetConfig(started) /\ state # "active"
        <4>1. config' = config /\ numActive' # 0
          BY <2>4, <3>4 DEF UpdateClientState
        <4> QED
          BY <3>1, <4>1
      <3> QED
        BY <3>2, <3>3, <3>4
    <2>5. ASSUME NEW c \in ClientID, ToggleClientReadyPropertie(c)
          PROVE  IdleInv'
      <3>1. UNCHANGED <<started, numActive>>
        BY <2>5 DEF ToggleClientReadyPropertie, OnlyConfig
      <3>2. CASE client[c].state = "active"
        <4>1. c \in Active
          BY <2>5, <3>2 DEF ToggleClientReadyPropertie, Active, ActiveIn
        <4>2. numActive # 0
          BY <4>1, SomebodyActive
        <4>3. \A d \in Device \ started : config'[d] = config[d]
          BY <2>5 DEF ToggleClientReadyPropertie, Pushed
        <4> QED
          BY <3>1, <4>2, <4>3
      <3>3. CASE client[c].state # "active"
        BY <2>5, <3>1, <3>3 DEF ToggleClientReadyPropertie
      <3> QED
        BY <3>2, <3>3
    <2> QED
      BY <1>2, <2>1, <2>2, <2>3, <2>4, <2>5 DEF Reconfiguration
  <1>3. ASSUME NEW opened, NEW kept, StartMonitoring(opened, kept), UNCHANGED clientVars
        PROVE  IdleInv'
    <2>1. \A d \in Device : config[d] = DefaultConfig
      BY <1>3 DEF StartMonitoring, Detected, DeviceInv, NothingBeforeStart
    <2>2. UNCHANGED <<config, numActive>> /\ started' \subseteq Device
      BY <1>3, <1>n DEF StartMonitoring, Detected, clientVars
    <2> QED
      BY <2>1, <2>2
  <1>4. CASE (HotplugAdd \/ HotplugRemove \/ CheckThreads) /\ UNCHANGED clientVars
    BY <1>4 DEF HotplugAdd, Detected, HotplugRemove, CheckThreads, StopDevices, CloseDevices, ResetConfig, clientVars
  <1>5. ASSUME NEW c, NEW d, StopDevice(c, d)
        PROVE  IdleInv'
    BY <1>5 DEF StopDevice, StopDevices, CloseDevices, ResetConfig, clientVars
  <1>6. ASSUME NEW c \in ClientID, NEW d \in Device, NEW opened \in SUBSET {d}, NEW kept \in SUBSET {d},
               StartDevice(c, d, opened, kept)
        PROVE  IdleInv'
    <2>1. c \in Active
      BY <1>6 DEF StartDevice, MayChangeDevices, Active, ActiveIn
    <2>2. numActive' # 0
      BY <1>6, <2>1, SomebodyActive DEF StartDevice, clientVars
    <2>3. \A e \in Device \ started' : e \notin started /\ config'[e] = config[e]
      BY <1>6 DEF StartDevice, StartDevices, Pushed
    <2> QED
      BY <2>2, <2>3
  <1>7. ASSUME NEW c \in ClientID, NEW d \in Device, NEW opened \in SUBSET {d}, NEW kept \in SUBSET {d},
               RestartDevice(c, d, opened, kept)
        PROVE  IdleInv'
    <2>1. c \in Active
      BY <1>7 DEF RestartDevice, MayChangeDevices, Active, ActiveIn
    <2>2. numActive' # 0
      BY <1>7, <2>1, SomebodyActive DEF RestartDevice, clientVars
    <2>3. \A e \in Device \ started' : config'[e] = DefaultConfig
      BY <1>7 DEF RestartDevice
    <2> QED
      BY <2>2, <2>3
  <1>8. CASE GoToSleep
    BY <1>8 DEF GoToSleep, HandleSleepEvent, StopInitializedDevices, StopDevices, CloseDevices, ResetConfig,
                clientVars
  <1>9. ASSUME NEW opened, NEW kept, WakeUp(opened, kept)
        PROVE  IdleInv'
    <2>1. UNCHANGED <<config, numActive>>
      BY <1>9 DEF WakeUp, HandleSleepEvent, StartSleepingDevices, clientVars
    <2>2. started \subseteq started' /\ started' \ started \subseteq stopped
      BY <1>9 DEF WakeUp, StartSleepingDevices, StartDevices, OpenDevices, OpenOutcome
    <2>3. \A d \in started' \ started : config[d] = DefaultConfig
      BY <2>2, <1>n
    <2> QED
      BY <2>1, <2>2, <2>3
  <1>10. CASE LeaveLoop \/ MonitoringFails
    BY <1>10 DEF LeaveLoop, MonitoringFails, StartWaiting, deviceVars, clientVars
  <1>11. CASE Exit
    BY <1>11 DEF Exit, CloseDevices, ResetConfig
  <1> QED
    BY <1>1, <1>2, <1>3, <1>4, <1>5, <1>6, <1>7, <1>8, <1>9, <1>10, <1>11, DeviceSteps

-----------------------------------------------------------------------------
(* Suspend and resume.                                                     *)

(* Boolean sequences that alternate, seen from both ends *)
LEMMA AlternateTail ==
    ASSUME NEW s \in Seq(BOOLEAN), s # <<>>,
           \A i \in 1..(Len(s) - 1) : s[i + 1] = ~s[i]
    PROVE  /\ \A i \in 1..(Len(Tail(s)) - 1) : Tail(s)[i + 1] = ~Tail(s)[i]
           /\ Tail(s) # <<>> => /\ Tail(s)[Len(Tail(s))] = s[Len(s)]
                                /\ Head(Tail(s)) = ~Head(s)
           /\ Tail(s) = <<>> => Head(s) = s[Len(s)]
  <1>1. Len(s) \in Nat \ {0} /\ Len(Tail(s)) = Len(s) - 1 /\ Head(s) = s[1]
    OBVIOUS
  <1>2. \A i \in 1..Len(Tail(s)) : Tail(s)[i] = s[i + 1]
    OBVIOUS
  <1>3. \A i \in 1..(Len(Tail(s)) - 1) : Tail(s)[i + 1] = ~Tail(s)[i]
    BY <1>1, <1>2
  <1>4. Tail(s) \in Seq(BOOLEAN)
    OBVIOUS
  <1>5. Tail(s) = <<>> <=> Len(Tail(s)) = 0
    BY <1>4, EmptySeq
  <1>6. ASSUME Tail(s) # <<>>
        PROVE  Tail(s)[Len(Tail(s))] = s[Len(s)] /\ Head(Tail(s)) = ~Head(s)
    <2>1. Len(s) >= 2 /\ Head(Tail(s)) = Tail(s)[1]
      BY <1>1, <1>4, <1>5, <1>6
    <2>2. Tail(s)[1] = s[2] /\ Tail(s)[Len(Tail(s))] = s[Len(s)]
      BY <1>1, <1>2, <2>1
    <2>3. s[2] = ~s[1]
      <3>1. s[1 + 1] = ~s[1]
        BY <1>1, <2>1
      <3> QED
        BY <3>1
    <2> QED
      BY <1>1, <2>1, <2>2, <2>3
  <1>7. Tail(s) = <<>> => Head(s) = s[Len(s)]
    BY <1>1, <1>5
  <1> QED
    BY <1>3, <1>6, <1>7

(* The new last signal differs from the one before it.                     *)
LEMMA AlternateAppend ==
    ASSUME NEW s \in Seq(BOOLEAN), NEW e \in BOOLEAN,
           \A i \in 1..(Len(s) - 1) : s[i + 1] = ~s[i],
           s # <<>> => s[Len(s)] = ~e
    PROVE  /\ \A i \in 1..(Len(Append(s, e)) - 1) : Append(s, e)[i + 1] = ~Append(s, e)[i]
           /\ Append(s, e)[Len(Append(s, e))] = e
           /\ Append(s, e) # <<>>
           /\ Head(Append(s, e)) = IF s = <<>> THEN e ELSE Head(s)
  <1>1. Len(s) \in Nat /\ Len(Append(s, e)) = Len(s) + 1
    BY AppendProperties
  <1>2. \A i \in 1..Len(s) : Append(s, e)[i] = s[i]
    BY AppendProperties
  <1>3. Append(s, e)[Len(s) + 1] = e
    BY AppendProperties
  <1>4. s # <<>> => Len(s) >= 1
    BY <1>1, EmptySeq
  <1>5. ASSUME NEW i \in 1..Len(s)
        PROVE  Append(s, e)[i + 1] = ~Append(s, e)[i]
    <2>1. CASE i = Len(s)
      BY <1>1, <1>2, <1>3, <2>1
    <2>2. CASE i < Len(s)
      BY <1>1, <1>2, <2>2
    <2> QED
      BY <1>1, <2>1, <2>2
  <1>6. Append(s, e) # <<>> /\ Head(Append(s, e)) = Append(s, e)[1]
    <2>1. Append(s, e) # <<>>
      BY AppendProperties
    <2>2. Head(Append(s, e)) = Append(s, e)[1]
      OBVIOUS
    <2> QED
      BY <2>1, <2>2
  <1>7. Head(Append(s, e)) = IF s = <<>> THEN e ELSE Head(s)
    <2>1. CASE s = <<>>
      BY <1>3, <1>6, <2>1
    <2>2. CASE s # <<>>
      BY <1>1, <1>2, <1>4, <1>6, <2>2
    <2> QED
      BY <2>1, <2>2
  <1>8. Len(Append(s, e)) - 1 = Len(s)
    BY <1>1
  <1>9. \A i \in 1..(Len(Append(s, e)) - 1) : Append(s, e)[i + 1] = ~Append(s, e)[i]
    BY <1>5, <1>8
  <1>10. Append(s, e)[Len(Append(s, e))] = e
    BY <1>1, <1>3
  <1> QED
    BY <1>6, <1>7, <1>9, <1>10

(* The steps that sleep inhibition and the state of the machine can tell   *)
(* apart.                                                                  *)
LEMMA SleepSteps ==
    ASSUME [Next]_vars
    PROVE  \/ UNCHANGED <<sleeping, delayLock, subscribed, power, sleepMsgs>>
           \/ GoToSleep
           \/ \E opened, kept \in SUBSET sleeping : WakeUp(opened, kept)
           \/ PrepareForSleep \/ Suspend \/ Resume
           \/ Exit
  <1>1. CASE UNCHANGED vars
    BY <1>1 DEF vars
  <1>2. CASE Start \/ UEvent \/ ThreadsCheck
    BY <1>2 DEF Start, UEvent, ThreadsCheck, LeavesClients, sleepVars, StartMonitoring, Detected, HotplugAdd,
                HotplugRemove, CheckThreads
  <1>3. CASE ClientCall
    <2>1. UNCHANGED sleepVars
      BY <1>3 DEF ClientCall
    <2>2. UNCHANGED sleeping
      <3>1. ASSUME NEW s \in Session,
                   RegisterRefused(s) \/ RegisterFailed(s) \/ \E c \in ClientID : RegisterClient(s, c)
            PROVE  UNCHANGED sleeping
        BY <3>1 DEF RegisterRefused, RegisterFailed, RegisterClient, LeavesDevices, OnlyConfig, deviceVars
      <3>2. ASSUME NEW c \in ClientID,
                   \/ UnregisterClient(c)
                   \/ \E state \in {"active", "online"} : UpdateClientState(c, state)
                   \/ ToggleClientReadyPropertie(c)
            PROVE  UNCHANGED sleeping
        BY <3>2 DEF UnregisterClient, UpdateClientState, ToggleClientReadyPropertie, OnlyConfig
      <3>3. ASSUME NEW c \in ClientID, NEW d \in Device,
                   \/ StopDevice(c, d)
                   \/ \E opened, kept \in SUBSET {d} :
                        StartDevice(c, d, opened, kept) \/ RestartDevice(c, d, opened, kept)
            PROVE  UNCHANGED sleeping
        BY <3>3 DEF StopDevice, StartDevice, RestartDevice
      <3>4. ASSUME NEW c \in ClientID, NEW d \in Device,
                   \/ GetDeviceProperties(c, d)
                   \/ DeleteDeviceConfiguration(c, d)
                   \/ \E v \in Config : SetDeviceConfig(c, d, v)
            PROVE  UNCHANGED sleeping
        BY <3>4 DEF GetDeviceProperties, DeleteDeviceConfiguration, SetDeviceConfig, ClientDevices,
                    LeavesDevices, deviceVars
      <3> QED
        BY <1>3, <3>1, <3>2, <3>3, <3>4 DEF ClientCall
    <2> QED
      BY <2>1, <2>2 DEF sleepVars
  <1>4. CASE LeaveLoop \/ MonitoringFails \/ Wait
    BY <1>4 DEF LeaveLoop, MonitoringFails, StartWaiting, Wait, deviceVars, sleepVars
  <1>5. CASE SigTerm
    BY <1>5 DEF SigTerm, deviceVars, sleepVars
  <1>6. ASSUME NEW d \in Device, Plug(d) \/ Unplug(d) \/ ThreadsGiveUp(d), LeavesClients
        PROVE  UNCHANGED <<sleeping, delayLock, subscribed, power, sleepMsgs>>
    BY <1>6 DEF Plug, Unplug, ThreadsGiveUp, LeavesClients, deviceVars, sleepVars
  <1>7. CASE Exited
    BY <1>7 DEF Exited, vars
  <1> QED
    BY <1>1, <1>2, <1>3, <1>4, <1>5, <1>6, <1>7 DEF Next, MainThread, SleepEvent, Environment

(* What the handling of the first signal leaves to come *)
LEMMA NextAfterHandling ==
    ASSUME TypeOK, SleepMsgsAlternate, NEW m \in BOOLEAN, HandleSleepEvent(m)
    PROVE  /\ subscribed /\ subscribed' /\ UNCHANGED power
           /\ \A i \in 1..(Len(sleepMsgs') - 1) : sleepMsgs'[i + 1] = ~sleepMsgs'[i]
           /\ sleepMsgs' # <<>> => sleepMsgs'[Len(sleepMsgs')] = (power # "awake")
           /\ NextIsSuspend' = ~m
  <1>1. /\ sleepMsgs \in Seq(BOOLEAN) /\ sleepMsgs # <<>> /\ Head(sleepMsgs) = m
        /\ sleepMsgs' = Tail(sleepMsgs) /\ UNCHANGED <<power, subscribed>>
    BY DEF HandleSleepEvent, TypeOK, SleepTypeOK
  <1>2. subscribed /\ subscribed'
    BY <1>1 DEF SleepMsgsAlternate
  <1>3. /\ \A i \in 1..(Len(sleepMsgs) - 1) : sleepMsgs[i + 1] = ~sleepMsgs[i]
        /\ sleepMsgs[Len(sleepMsgs)] = (power # "awake")
    BY <1>1, <1>2 DEF SleepMsgsAlternate
  <1>4. /\ \A i \in 1..(Len(Tail(sleepMsgs)) - 1) : Tail(sleepMsgs)[i + 1] = ~Tail(sleepMsgs)[i]
        /\ Tail(sleepMsgs) # <<>> => /\ Tail(sleepMsgs)[Len(Tail(sleepMsgs))] = sleepMsgs[Len(sleepMsgs)]
                                     /\ Head(Tail(sleepMsgs)) = ~Head(sleepMsgs)
        /\ Tail(sleepMsgs) = <<>> => Head(sleepMsgs) = sleepMsgs[Len(sleepMsgs)]
    BY <1>1, <1>3, AlternateTail
  <1>5. NextIsSuspend' = ~m
    <2>1. CASE Tail(sleepMsgs) = <<>>
      BY <1>1, <1>3, <1>4, <2>1 DEF NextIsSuspend
    <2>2. CASE Tail(sleepMsgs) # <<>>
      BY <1>1, <1>4, <2>2 DEF NextIsSuspend
    <2> QED
      BY <2>1, <2>2
  <1> QED
    BY <1>1, <1>2, <1>3, <1>4, <1>5

(* What a new signal of logind leaves to come *)
LEMMA NextAfterAnnouncement ==
    ASSUME TypeOK, SleepMsgsAlternate, subscribed, NEW m \in BOOLEAN, (power # "awake") = ~m,
           (power' # "awake") = m, sleepMsgs' = Append(sleepMsgs, m)
    PROVE  /\ \A i \in 1..(Len(sleepMsgs') - 1) : sleepMsgs'[i + 1] = ~sleepMsgs'[i]
           /\ sleepMsgs' # <<>> => sleepMsgs'[Len(sleepMsgs')] = (power' # "awake")
           /\ NextIsSuspend' = NextIsSuspend
  <1>1. sleepMsgs \in Seq(BOOLEAN)
    BY DEF TypeOK, SleepTypeOK
  <1>2. /\ \A i \in 1..(Len(sleepMsgs) - 1) : sleepMsgs[i + 1] = ~sleepMsgs[i]
        /\ sleepMsgs # <<>> => sleepMsgs[Len(sleepMsgs)] = ~m
    BY DEF SleepMsgsAlternate
  <1>3. /\ \A i \in 1..(Len(sleepMsgs') - 1) : sleepMsgs'[i + 1] = ~sleepMsgs'[i]
        /\ sleepMsgs'[Len(sleepMsgs')] = m
        /\ sleepMsgs' # <<>>
        /\ Head(sleepMsgs') = IF sleepMsgs = <<>> THEN m ELSE Head(sleepMsgs)
    BY <1>1, <1>2, AlternateAppend
  <1> QED
    BY <1>3 DEF NextIsSuspend

(* The signals of logind alternate, and each is handled before its         *)
(* successor: a suspend stops the devices and releases the lock, a resume  *)
(* forgets the sleeping devices.                                           *)
LEMMA SleepInvStep ==
    ASSUME TypeOK, SleepMsgsAlternate, [Next]_vars
    PROVE  SleepMsgsAlternate'
  <1> USE DEF SleepMsgsAlternate
  <1>1. CASE UNCHANGED <<sleeping, delayLock, subscribed, power, sleepMsgs>>
    BY <1>1 DEF NextIsSuspend
  <1>2. CASE GoToSleep
    <2>1. HandleSleepEvent(TRUE) /\ ~delayLock'
      BY <1>2 DEF GoToSleep
    <2> QED
      BY <2>1, NextAfterHandling
  <1>3. ASSUME NEW opened, NEW kept, WakeUp(opened, kept)
        PROVE  SleepMsgsAlternate'
    <2>1. HandleSleepEvent(FALSE) /\ sleeping' = {}
      BY <1>3 DEF WakeUp, StartSleepingDevices
    <2> QED
      BY <2>1, NextAfterHandling
  <1>4. CASE PrepareForSleep
    <2>1. /\ power = "awake" /\ power' = "preparing" /\ UNCHANGED <<sleeping, delayLock, subscribed>>
          /\ sleepMsgs' = IF subscribed THEN Append(sleepMsgs, TRUE) ELSE sleepMsgs
      BY <1>4 DEF PrepareForSleep, OnlySleep, deviceVars
    <2>2. CASE subscribed
      <3>1. (power # "awake") = ~TRUE /\ (power' # "awake") = TRUE /\ sleepMsgs' = Append(sleepMsgs, TRUE)
        BY <2>1, <2>2
      <3>2. /\ \A i \in 1..(Len(sleepMsgs') - 1) : sleepMsgs'[i + 1] = ~sleepMsgs'[i]
            /\ sleepMsgs' # <<>> => sleepMsgs'[Len(sleepMsgs')] = (power' # "awake")
            /\ NextIsSuspend' = NextIsSuspend
        BY <2>2, <3>1, NextAfterAnnouncement
      <3> QED
        BY <2>1, <2>2, <3>2
    <2>3. CASE ~subscribed
      BY <2>1, <2>3
    <2> QED
      BY <2>2, <2>3
  <1>5. CASE Resume
    <2>1. /\ power = "asleep" /\ power' = "awake" /\ UNCHANGED <<sleeping, delayLock, subscribed>>
          /\ sleepMsgs' = IF subscribed THEN Append(sleepMsgs, FALSE) ELSE sleepMsgs
      BY <1>5 DEF Resume, OnlySleep, deviceVars
    <2>2. CASE subscribed
      <3>1. (power # "awake") = ~FALSE /\ (power' # "awake") = FALSE /\ sleepMsgs' = Append(sleepMsgs, FALSE)
        BY <2>1, <2>2
      <3>2. /\ \A i \in 1..(Len(sleepMsgs') - 1) : sleepMsgs'[i + 1] = ~sleepMsgs'[i]
            /\ sleepMsgs' # <<>> => sleepMsgs'[Len(sleepMsgs')] = (power' # "awake")
            /\ NextIsSuspend' = NextIsSuspend
        BY <2>2, <3>1, NextAfterAnnouncement
      <3> QED
        BY <2>1, <2>2, <3>2
    <2>3. CASE ~subscribed
      BY <2>1, <2>3
    <2> QED
      BY <2>2, <2>3
  <1>6. CASE Suspend
    BY <1>6 DEF Suspend, OnlySleep, deviceVars, NextIsSuspend
  <1>7. CASE Exit
    BY <1>7 DEF Exit, NextIsSuspend
  <1> QED
    BY <1>1, <1>2, <1>3, <1>4, <1>5, <1>6, <1>7, SleepSteps

-----------------------------------------------------------------------------
(* The inductive invariant and what follows from it.                       *)

(* The daemon starts with the invariant: nothing is known yet, and it only *)
(* listens to logind when it holds the delay lock.                         *)
LEMMA IndInvInit == Init => IndInv
  <1> SUFFICES ASSUME Init PROVE IndInv
    OBVIOUS
  <1> USE DEF Init, DevicesManagerInit, ClientsManagerInit
  <1>1. TypeOK
    BY InitTypeOK
  <1>2. SessionsDistinct
    BY DEF SessionsDistinct
  <1>3. NumActiveExact
    <2>1. Active = {}
      BY DEF Active, ActiveIn
    <2> QED
      BY <2>1, FS_EmptySet DEF NumActiveExact
  <1>4. IdleInv /\ DeviceInv
    BY DEF IdleInv, IdleDevicesReset, ClosedDevicesReset, DeviceInv, StartedAreInitialized, NothingBeforeStart
  <1>5. SleepMsgsAlternate
    <2>1. NextIsSuspend /\ sleeping = {} /\ sleepMsgs = <<>> /\ Len(sleepMsgs) = 0
      BY DEF NextIsSuspend
    <2> QED
      BY <2>1 DEF SleepMsgsAlternate
  <1> QED
    BY <1>1, <1>2, <1>3, <1>4, <1>5 DEF IndInv, IdleInv, DeviceInv

(* Every handler and every event of the environment keeps it.              *)
LEMMA IndInvStep ==
    ASSUME IndInv, [Next]_vars
    PROVE  IndInv'
  <1>1. TypeOK'
    BY TypeOKStep DEF IndInv
  <1>2. SessionsDistinct'
    BY SessionsDistinctStep DEF IndInv
  <1>3. NumActiveExact'
    BY NumActiveStep DEF IndInv
  <1>4. DeviceInv'
    BY DeviceInvStep DEF IndInv, DeviceInv
  <1>5. IdleInv'
    BY IdleInvStep DEF IndInv, IdleInv, DeviceInv
  <1>6. SleepMsgsAlternate'
    BY SleepInvStep DEF IndInv
  <1> QED
    BY <1>1, <1>2, <1>3, <1>4, <1>5, <1>6 DEF IndInv, DeviceInv, IdleInv

(* The inductive invariant holds in every state the daemon reaches, for    *)
(* any number of clients, sessions, devices and waiting events.            *)
THEOREM IndInvInvariant == Spec => []IndInv
  <1>1. Init => IndInv
    BY IndInvInit
  <1>2. IndInv /\ [Next]_vars => IndInv'
    BY IndInvStep
  <1> QED
    BY <1>1, <1>2, PTL DEF Spec

(* Every variable of the daemon keeps its type: a device is never told to  *)
(* show what is not a configuration, and the count of active clients is    *)
(* never decreased below 0.                                                *)
THEOREM TypeInvariant == Spec => []TypeOK
  <1>1. IndInv => TypeOK
    BY DEF IndInv
  <1> QED
    BY <1>1, IndInvInvariant, PTL

(* registerClient() never lets two clients of one session be connected.    *)
THEOREM OneClientPerSession == Spec => []SessionsDistinct
  <1>1. IndInv => SessionsDistinct
    BY DEF IndInv
  <1> QED
    BY <1>1, IndInvInvariant, PTL

(* _numActive always is the number of active clients.                      *)
THEOREM ActiveClientsCounted == Spec => []NumActiveExact
  <1>1. IndInv => NumActiveExact
    BY DEF IndInv
  <1> QED
    BY <1>1, IndInvInvariant, PTL

(* The devices are reset whenever no user is active.                       *)
THEOREM IdleDaemonShowsDefaults == Spec => []IdleDevicesReset
  <1>1. IndInv => IdleDevicesReset
    BY DEF IndInv
  <1> QED
    BY <1>1, IndInvInvariant, PTL

(* The devices manager and the driver agree on what is started.            *)
THEOREM DriverKnowsStarted == Spec => []StartedAreInitialized
  <1>1. IndInv => StartedAreInitialized
    BY DEF IndInv
  <1> QED
    BY <1>1, IndInvInvariant, PTL

(* No suspend is handled while the devices of the one before still sleep,  *)
(* and no resume while the delay lock is held.                             *)
THEOREM SleepIsOrderly == Spec => []SleepProtocol
  <1>1. ASSUME IndInv, sleepMsgs # <<>>
        PROVE  IF Head(sleepMsgs) THEN sleeping = {} ELSE ~delayLock
    <2>1. NextIsSuspend = Head(sleepMsgs)
      BY <1>1 DEF NextIsSuspend
    <2>2. IF NextIsSuspend THEN sleeping = {} ELSE ~delayLock
      BY <1>1 DEF IndInv, SleepMsgsAlternate
    <2> QED
      BY <2>1, <2>2
  <1>2. IndInv => SleepProtocol
    BY <1>1 DEF SleepProtocol
  <1> QED
    BY <1>2, IndInvInvariant, PTL

-----------------------------------------------------------------------------
(* What the daemon tells its clients.                                      *)

(* _numClients is what setNumClients() was last given: the number of the   *)
(* clients that are connected, as a uint8_t; nobody connects before the    *)
(* first enumeration.                                                      *)
ClientsCounted == phase # "exited" => numClients = NumClients(connected)
NobodyBeforeStart == phase = "starting" => connected = {}

FewClients == Cardinality(connected) < 256

(* No two clients are of the same session, so that few sessions have few   *)
(* clients.                                                                *)
LEMMA FewSessions ==
    ASSUME IsFiniteSet(Session), Cardinality(Session) < 255, TypeOK, SessionsDistinct
    PROVE  FewClients
  <1> DEFINE S == Session \cup {NoSession}
             f == [c \in connected |-> client[c].session]
  <1>1. f \in Injection(connected, S)
    BY DEF TypeOK, ClientsTypeOK, Client, SessionsDistinct, Injection, IsInjective
  <1>2. IsFiniteSet(S) /\ Cardinality(Session) \in Nat /\ Cardinality(S) <= Cardinality(Session) + 1
    <2>1. IsFiniteSet(S) /\ Cardinality(S) = IF NoSession \in Session THEN Cardinality(Session) ELSE Cardinality(Session) + 1
      BY FS_AddElement
    <2>2. Cardinality(Session) \in Nat
      BY FS_CardinalityType
    <2> HIDE DEF S
    <2> QED
      BY <2>1, <2>2
  <1>3. IsFiniteSet(connected) /\ Cardinality(connected) <= Cardinality(S)
    BY <1>1, <1>2, FS_Injection
  <1>4. Cardinality(connected) \in Nat /\ Cardinality(S) \in Nat
    BY <1>2, <1>3, FS_CardinalityType
  <1> QED
    BY <1>2, <1>3, <1>4 DEF FewClients

(* A step that tells nothing about devices and changes the status of none. *)
Silent ==
    /\ UNCHANGED <<started, stopped, unplugged>>
    /\ \A i \in DOMAIN out' : out'[i].devices = {}

(* With fewer than 256 clients, the uint8_t is 0 only if there is none.    *)
LEMMA SomebodyCounted ==
    ASSUME TypeOK, ClientsCounted, FewClients, connected # {}, phase # "exited"
    PROVE  numClients # 0 /\ NumClients(connected) # 0
  <1>1. IsFiniteSet(connected) /\ Cardinality(connected) \in Nat
    BY ActiveFinite DEF TypeOK, ClientsTypeOK
  <1>2. Cardinality(connected) # 0
    BY <1>1, FS_EmptySet
  <1>3. \A n \in 1 .. 255 : n % 256 # 0
    OBVIOUS
  <1>4. NumClients(connected) # 0
    BY <1>1, <1>2, <1>3 DEF FewClients, NumClients
  <1> QED
    BY <1>4 DEF ClientsCounted

(* Who is connected changes only together with the count, or at the end.   *)
LEMMA CountSteps ==
    ASSUME [Next]_vars
    PROVE  \/ UNCHANGED <<phase, connected, numClients>>
           \/ UNCHANGED phase /\ Listening /\ numClients' = NumClients(connected')
           \/ phase # "exited" /\ phase' # "starting" /\ UNCHANGED <<connected, numClients>>
           \/ phase' = "exited"
  <1>1. CASE UNCHANGED vars
    BY <1>1 DEF vars
  <1>2. CASE Start \/ UEvent \/ ThreadsCheck
    BY <1>2 DEF Start, UEvent, ThreadsCheck, LeavesClients, clientVars, StartMonitoring, HotplugAdd,
                HotplugRemove, CheckThreads, ReceiveUEvent, controlVars
  <1>3. CASE ClientCall
    <2>1. ASSUME NEW s \in Session,
                 RegisterRefused(s) \/ RegisterFailed(s) \/ \E c \in ClientID : RegisterClient(s, c)
          PROVE  \/ UNCHANGED <<phase, connected, numClients>>
                 \/ UNCHANGED phase /\ Listening /\ numClients' = NumClients(connected')
      BY <2>1 DEF RegisterRefused, RegisterFailed, RegisterClient, LeavesDevices, OnlyConfig, controlVars
    <2>2. ASSUME NEW c \in ClientID,
                 \/ UnregisterClient(c)
                 \/ \E state \in {"active", "online"} : UpdateClientState(c, state)
                 \/ ToggleClientReadyPropertie(c)
          PROVE  \/ UNCHANGED <<phase, connected, numClients>>
                 \/ UNCHANGED phase /\ Listening /\ numClients' = NumClients(connected')
      BY <2>2 DEF UnregisterClient, UpdateClientState, ToggleClientReadyPropertie, OnlyConfig, controlVars
    <2>3. ASSUME NEW c \in ClientID, NEW d \in Device, NEW opened, NEW kept,
                 \/ StopDevice(c, d)
                 \/ StartDevice(c, d, opened, kept)
                 \/ RestartDevice(c, d, opened, kept)
          PROVE  UNCHANGED <<phase, connected, numClients>>
      BY <2>3 DEF StopDevice, StartDevice, RestartDevice, controlVars, clientVars
    <2>4. ASSUME NEW c \in ClientID, NEW d \in Device, NEW v,
                 GetDeviceProperties(c, d) \/ DeleteDeviceConfiguration(c, d) \/ SetDeviceConfig(c, d, v)
          PROVE  UNCHANGED <<phase, connected, numClients>>
      BY <2>4 DEF GetDeviceProperties, DeleteDeviceConfiguration, SetDeviceConfig, ClientDevices,
                  LeavesDevices, controlVars
    <2> QED
      BY <1>3, <2>1, <2>2, <2>3, <2>4 DEF ClientCall
  <1>4. CASE SleepEvent
    BY <1>4 DEF SleepEvent, GoToSleep, WakeUp, HandleSleepEvent, controlVars, clientVars
  <1>5. CASE LeaveLoop \/ MonitoringFails \/ Wait
    BY <1>5 DEF LeaveLoop, MonitoringFails, StartWaiting, Wait, controlVars, clientVars
  <1>6. CASE Exit
    BY <1>6 DEF Exit
  <1>7. CASE Environment
    BY <1>7 DEF Environment, Plug, Unplug, ThreadsGiveUp, LeavesClients, SigTerm, PrepareForSleep, Suspend,
                Resume, OnlySleep, controlVars, clientVars
  <1>8. CASE Exited
    BY <1>8 DEF Exited, vars
  <1> QED
    BY <1>1, <1>2, <1>3, <1>4, <1>5, <1>6, <1>7, <1>8 DEF Next, MainThread

(* Every step of the daemon but the handling of a suspend or of a resume.  *)
OtherStep ==
    Start \/ UEvent \/ ThreadsCheck \/ ClientCall \/ LeaveLoop \/ MonitoringFails \/ Wait \/ Exit \/ Environment

(* The steps that change the status of a device or tell of one; the others *)
(* are silent.                                                             *)
LEMMA TellingSteps ==
    ASSUME OtherStep, phase' # "exited", phase # "starting"
    PROVE  \/ Silent
           \/ HotplugAdd \/ HotplugRemove \/ CheckThreads
           \/ \E c \in ClientID, d \in Device :
                \/ StopDevice(c, d)
                \/ \E opened, kept \in SUBSET {d} :
                     StartDevice(c, d, opened, kept) \/ RestartDevice(c, d, opened, kept)
  <1> USE DEF Silent
  <1>1. CASE Start
    BY <1>1 DEF Start, StartMonitoring
  <1>2. CASE UEvent \/ ThreadsCheck
    BY <1>2 DEF UEvent, ThreadsCheck
  <1>3. CASE ClientCall
    <2>1. ASSUME NEW s \in Session,
                 RegisterRefused(s) \/ RegisterFailed(s) \/ \E c \in ClientID : RegisterClient(s, c)
          PROVE  Silent
      BY <2>1 DEF RegisterRefused, RegisterFailed, RegisterClient, LeavesDevices, OnlyConfig, deviceVars,
                  SignalToClients
    <2>2. ASSUME NEW c \in ClientID,
                 \/ UnregisterClient(c)
                 \/ \E state \in {"active", "online"} : UpdateClientState(c, state)
                 \/ ToggleClientReadyPropertie(c)
          PROVE  Silent
      BY <2>2 DEF UnregisterClient, UpdateClientState, ToggleClientReadyPropertie, OnlyConfig
    <2>3. ASSUME NEW c \in ClientID, NEW d \in Device, NEW v,
                 GetDeviceProperties(c, d) \/ DeleteDeviceConfiguration(c, d) \/ SetDeviceConfig(c, d, v)
          PROVE  Silent
      BY <2>3 DEF GetDeviceProperties, DeleteDeviceConfiguration, SetDeviceConfig, ClientDevices,
                  LeavesDevices, deviceVars
    <2> QED
      BY <1>3, <2>1, <2>2, <2>3 DEF ClientCall
  <1>4. CASE LeaveLoop \/ MonitoringFails \/ Wait
    BY <1>4 DEF LeaveLoop, MonitoringFails, StartWaiting, Wait, deviceVars, SignalToClients
  <1>5. CASE Exit
    BY <1>5 DEF Exit
  <1>6. CASE Environment
    <2>1. UNCHANGED <<started, stopped, unplugged>>
      BY <1>6 DEF Environment
    <2>2. out' = <<>>
      BY <1>6 DEF Environment, Plug, Unplug, ThreadsGiveUp, SigTerm, PrepareForSleep, Suspend, Resume, OnlySleep
    <2> QED
      BY <2>1, <2>2
  <1> QED
    BY <1>1, <1>2, <1>3, <1>4, <1>5, <1>6 DEF OtherStep

(* A daemon that was told to exit, or has exited, stays so.                *)
LEMMA NoComeback ==
    ASSUME [Next]_vars
    PROVE  /\ daemonRunning' = daemonRunning \/ daemonRunning' = FALSE
           /\ phase = "exited" => phase' = "exited"
  <1>1. CASE UNCHANGED vars
    BY <1>1 DEF vars
  <1>2. CASE Start \/ UEvent \/ ThreadsCheck
    BY <1>2 DEF Start, UEvent, ThreadsCheck, StartMonitoring, HotplugAdd, HotplugRemove, CheckThreads,
                ReceiveUEvent, controlVars
  <1>3. CASE ClientCall
    <2>1. ASSUME NEW s \in Session,
                 RegisterRefused(s) \/ RegisterFailed(s) \/ \E c \in ClientID : RegisterClient(s, c)
          PROVE  UNCHANGED controlVars
      BY <2>1 DEF RegisterRefused, RegisterFailed, RegisterClient, LeavesDevices, OnlyConfig
    <2>2. ASSUME NEW c \in ClientID,
                 \/ UnregisterClient(c)
                 \/ \E state \in {"active", "online"} : UpdateClientState(c, state)
                 \/ ToggleClientReadyPropertie(c)
          PROVE  UNCHANGED controlVars
      BY <2>2 DEF UnregisterClient, UpdateClientState, ToggleClientReadyPropertie, OnlyConfig
    <2>3. ASSUME NEW c \in ClientID, NEW d \in Device, NEW opened, NEW kept,
                 \/ StopDevice(c, d)
                 \/ StartDevice(c, d, opened, kept)
                 \/ RestartDevice(c, d, opened, kept)
          PROVE  UNCHANGED controlVars
      BY <2>3 DEF StopDevice, StartDevice, RestartDevice
    <2>4. ASSUME NEW c \in ClientID, NEW d \in Device, NEW v,
                 GetDeviceProperties(c, d) \/ DeleteDeviceConfiguration(c, d) \/ SetDeviceConfig(c, d, v)
          PROVE  UNCHANGED controlVars
      BY <2>4 DEF GetDeviceProperties, DeleteDeviceConfiguration, SetDeviceConfig, ClientDevices,
                  LeavesDevices
    <2>5. UNCHANGED controlVars
      BY <1>3, <2>1, <2>2, <2>3, <2>4 DEF ClientCall
    <2> QED
      BY <2>5 DEF controlVars
  <1>4. CASE SleepEvent
    BY <1>4 DEF SleepEvent, GoToSleep, WakeUp, HandleSleepEvent, controlVars
  <1>5. CASE LeaveLoop \/ MonitoringFails \/ Wait \/ Exit
    BY <1>5 DEF LeaveLoop, MonitoringFails, StartWaiting, Wait, Exit, controlVars
  <1>6. CASE Environment
    BY <1>6 DEF Environment, Plug, Unplug, ThreadsGiveUp, SigTerm, PrepareForSleep, Suspend, Resume,
                OnlySleep, LeavesClients, controlVars
  <1>7. CASE Exited
    BY <1>7 DEF Exited, vars
  <1> QED
    BY <1>1, <1>2, <1>3, <1>4, <1>5, <1>6, <1>7 DEF Next, MainThread

(* The signal of a step names the devices whose status the step changes,   *)
(* and tells their new status.                                             *)
Tells(name, S) ==
    /\ out' = IF S = {} THEN <<>> ELSE <<[name |-> name, devices |-> S]>>
    /\ \A d \in S : DeviceStatus(d)' = NewStatus[name]
    /\ \A d \in Device \ S : DeviceStatus(d)' = DeviceStatus(d)

(* Each way a device has of changing status is followed by one signal that *)
(* tells it, if the daemon counts a client and is not about to exit.       *)
LEMMA StatusChangesAreTold ==
    ASSUME TypeOK, DeviceInv, ClientsCounted, NobodyBeforeStart, FewClients, Next, OtherStep,
           connected # {}, daemonRunning, phase' # "exited"
    PROVE  Silent \/ \E name \in DOMAIN NewStatus, S \in SUBSET Device : Tells(name, S)
  <1> DEFINE Told == \E name \in DOMAIN NewStatus, S \in SUBSET Device : Tells(name, S)
  <1>1. phase \notin {"starting", "exited"}
    BY CountSteps, NoComeback DEF NobodyBeforeStart
  <1>2. numClients # 0 /\ NumClients(connected) # 0
    BY <1>1, SomebodyCounted
  <1>3. started \cap stopped = {} /\ started \subseteq Device /\ stopped \subseteq Device /\ plugged \subseteq Device
    BY DEF DeviceInv, StartedAreInitialized, TypeOK, DevicesTypeOK
  <1>4. ASSUME NEW n, n # 0, NEW name \in {"DevicesStarted", "DevicesStopped", "DevicesUnplugged"},
               NEW S \in SUBSET Device, out' = StatusSignal(n, name, S),
               \A d \in S : DeviceStatus(d)' = NewStatus[name],
               \A d \in Device \ S : DeviceStatus(d)' = DeviceStatus(d)
        PROVE  Told
    <2>1. name \in DOMAIN NewStatus
      BY DEF NewStatus
    <2>2. Tells(name, S)
      BY <1>4 DEF Tells, StatusSignal
    <2> QED
      BY <2>1, <2>2
  <1> HIDE DEF Told
  <1>5. CASE HotplugAdd
    <2> DEFINE new == Detected \ (started \cup stopped)
    <2>1. /\ out' = StatusSignal(numClients, "DevicesStopped", new)
          /\ stopped' = stopped \cup new /\ UNCHANGED <<started, unplugged>>
      BY <1>5 DEF HotplugAdd
    <2>2. /\ \A d \in new : DeviceStatus(d)' = NewStatus["DevicesStopped"]
          /\ \A d \in Device \ new : DeviceStatus(d)' = DeviceStatus(d)
      BY <2>1 DEF DeviceStatus, NewStatus
    <2>3. new \in SUBSET Device
      BY <1>3 DEF Detected
    <2> QED
      BY <1>2, <1>4, <2>1, <2>2, <2>3 DEF Told
  <1>6. CASE HotplugRemove
    <2> DEFINE gone == Gone(started) \cup Gone(stopped)
    <2>1. /\ out' = StatusSignal(numClients, "DevicesUnplugged", gone)
          /\ started' = started \ Gone(started) /\ stopped' = stopped \ Gone(stopped)
          /\ unplugged' = unplugged \cup Gone(started) \cup Gone(stopped)
      BY <1>6 DEF HotplugRemove
    <2>2. /\ \A d \in gone : DeviceStatus(d)' = NewStatus["DevicesUnplugged"]
          /\ \A d \in Device \ gone : DeviceStatus(d)' = DeviceStatus(d)
      BY <1>3, <2>1 DEF DeviceStatus, Gone, NewStatus
    <2>3. gone \in SUBSET Device
      BY <1>3 DEF Gone
    <2> QED
      BY <1>2, <1>4, <2>1, <2>2, <2>3 DEF Told
  <1>7. ASSUME NEW S \in SUBSET Device, NEW n, n # 0, out' = StatusSignal(n, "DevicesStopped", S),
               started' = started \ S, stopped' = stopped \cup S, UNCHANGED unplugged
        PROVE  Told
    <2>1. /\ \A d \in S : DeviceStatus(d)' = NewStatus["DevicesStopped"]
          /\ \A d \in Device \ S : DeviceStatus(d)' = DeviceStatus(d)
      BY <1>7 DEF DeviceStatus, NewStatus
    <2> QED
      BY <1>4, <1>7, <2>1
  <1>8. ASSUME NEW S \in SUBSET Device, NEW n, n # 0, out' = StatusSignal(n, "DevicesStarted", S),
               started' = started \cup S, stopped' = stopped \ S, UNCHANGED unplugged
        PROVE  Told
    <2>1. /\ \A d \in S : DeviceStatus(d)' = NewStatus["DevicesStarted"]
          /\ \A d \in Device \ S : DeviceStatus(d)' = DeviceStatus(d)
      BY <1>8 DEF DeviceStatus, NewStatus
    <2> QED
      BY <1>4, <1>8, <2>1
  <1>9. CASE CheckThreads
    <2>1. Lost \in SUBSET Device
      BY <1>3 DEF Lost
    <2>2. /\ out' = StatusSignal(numClients, "DevicesStopped", Lost) /\ UNCHANGED unplugged
          /\ started' = started \ Lost /\ stopped' = stopped \cup Lost
      BY <1>9 DEF CheckThreads, StopDevices
    <2> QED
      BY <1>2, <1>7, <2>1, <2>2 DEF Told
  <1>10. ASSUME NEW c \in ClientID, NEW d \in Device, StopDevice(c, d)
         PROVE  Told
    BY <1>2, <1>7, <1>10 DEF StopDevice, StopDevices
  <1>11. ASSUME NEW c \in ClientID, NEW d \in Device, NEW opened, NEW kept, StartDevice(c, d, opened, kept)
         PROVE  Told
    <2>1. opened \in SUBSET Device
      BY <1>11 DEF StartDevice, StartDevices, OpenDevices, OpenOutcome
    <2> QED
      BY <1>2, <1>8, <1>11, <2>1 DEF StartDevice, StartDevices
  <1>12. ASSUME NEW c \in ClientID, NEW d \in Device, NEW opened, NEW kept, RestartDevice(c, d, opened, kept)
         PROVE  Told
    <2>1. /\ d \in started /\ opened \in SUBSET {d} /\ UNCHANGED unplugged
          /\ started' = (started \ {d}) \cup opened /\ stopped' = (stopped \cup {d}) \ opened
          /\ out' = StatusSignal(NumClients(connected), RestartSignal(opened), {d})
      BY <1>12 DEF RestartDevice, OpenDevices, OpenOutcome
    <2>2. CASE opened = {}
      BY <1>2, <1>7, <2>1, <2>2 DEF RestartSignal
    <2>3. CASE opened = {d}
      <3>1. /\ started' = started \cup {d} /\ stopped' = stopped \ {d}
            /\ out' = StatusSignal(NumClients(connected), "DevicesStarted", {d})
        BY <1>3, <2>1, <2>3 DEF RestartSignal
      <3> QED
        BY <1>2, <1>8, <2>1, <3>1
    <2> QED
      BY <2>1, <2>2, <2>3
  <1> QED
    BY <1>1, <1>5, <1>6, <1>9, <1>10, <1>11, <1>12, TellingSteps DEF Told

-----------------------------------------------------------------------------
(* The daemon implements the lifecycle of module DeviceLifecycle.          *)

Mode == IF phase \in {"starting", "exited"} THEN phase ELSE "running"

Running == phase \notin {"starting", "exited"}

(* How the status of a device may change while the daemon runs. *)
AllowedChange(d) ==
    \/ DeviceStatus(d)' = DeviceStatus(d)
    \/ DeviceStatus(d)' = "stopped"
    \/ DeviceStatus(d) = "started" /\ DeviceStatus(d)' = "unplugged"
    \/ DeviceStatus(d) = "stopped" /\ DeviceStatus(d)' \in {"started", "unplugged"}

(* A step of the daemon that leaves the phase alone changes the status of  *)
(* each device as the lifecycle allows.                                    *)
LEMMA ChangeImplemented ==
    ASSUME Running, Running', \A d \in Device : AllowedChange(d)
    PROVE  Lifecycle!Next
  <1> USE DEF Lifecycle!MayBecome
  <1>1. \A d \in Device : /\ DeviceStatus(d) \in {"started", "stopped", "unplugged", "unknown"}
                          /\ DeviceStatus(d)' \in {"started", "stopped", "unplugged", "unknown"}
    BY DEF DeviceStatus
  <1>2. DOMAIN Lifecycle!MayBecome = {"started", "stopped", "unplugged", "unknown"}
    OBVIOUS
  <1>3. Status' \in [Device -> DOMAIN Lifecycle!MayBecome]
    BY <1>1, <1>2 DEF Status
  <1>4. \A d \in Device : Status'[d] # Status[d] => Status'[d] \in Lifecycle!MayBecome[Status[d]]
    BY <1>1 DEF Status, AllowedChange
  <1>5. Mode = "running" /\ Mode' = "running"
    BY DEF Mode, Running
  <1> QED
    BY <1>3, <1>4, <1>5 DEF Lifecycle!Next, Lifecycle!Change, Status, Mode

(* An operation that changes the phase no more than the status of devices  *)
(* is a stutter of the lifecycle.                                          *)
LEMMA NothingChanged ==
    ASSUME UNCHANGED <<started, stopped, unplugged>>, Mode' = Mode
    PROVE  UNCHANGED <<Status, Mode>>
  BY DEF Status, DeviceStatus

(* A daemon that starts knows no device.                                   *)
LEMMA InitImplemented == Init => Lifecycle!Init
  BY DEF Init, DevicesManagerInit, Lifecycle!Init, Status, DeviceStatus

(* Each step of the daemon is a step of the lifecycle or a stutter.        *)
LEMMA StepImplemented ==
    ASSUME IndInv, [Next]_vars
    PROVE  Lifecycle!Next \/ UNCHANGED <<Status, Mode>>
  <1> USE DEF Listening
  <1>1. CASE UNCHANGED <<phase, started, stopped, unplugged, initialized, config, numActive>>
    BY <1>1, NothingChanged DEF Mode
  <1>2. CASE Reconfiguration
    <2>1. UNCHANGED <<phase, started, stopped, unplugged>>
      BY <1>2 DEF Reconfiguration, RegisterFailed, RegisterClient, UnregisterClient, UpdateClientState,
                 ToggleClientReadyPropertie, OnlyConfig, controlVars
    <2> QED
      BY <2>1, NothingChanged DEF Mode
  <1>3. ASSUME NEW opened \in SUBSET plugged, NEW kept, StartMonitoring(opened, kept)
        PROVE  Lifecycle!Next
    <2>1. /\ phase = "starting" /\ phase' = "monitoring" /\ started' = opened
          /\ stopped' = {} /\ unplugged' = {}
      BY <1>3 DEF StartMonitoring, Detected, IndInv, NothingBeforeStart
    <2>2. \A d \in Device : DeviceStatus(d)' \in {"unknown", "started"}
      BY <2>1 DEF DeviceStatus
    <2>3. Status' \in [Device -> {"unknown", "started"}]
      BY <2>2 DEF Status
    <2> QED
      BY <2>1, <2>3 DEF Lifecycle!Next, Lifecycle!FirstEnumeration, Status
  <1>4. CASE HotplugAdd
    <2>1. /\ phase = "monitoring" /\ UNCHANGED <<phase, started, unplugged>>
          /\ stopped' = stopped \cup (plugged \ (started \cup stopped))
      BY <1>4 DEF HotplugAdd, Detected, ReceiveUEvent
    <2>2. \A d \in Device : AllowedChange(d)
      BY <2>1 DEF DeviceStatus, AllowedChange
    <2>3. Running /\ Running'
      BY <2>1 DEF Running
    <2> QED
      BY <2>2, <2>3, ChangeImplemented
  <1>5. CASE HotplugRemove
    <2>1. /\ phase = "monitoring" /\ UNCHANGED phase
          /\ started' = started \ Gone(started) /\ stopped' = stopped \ Gone(stopped)
          /\ unplugged' = unplugged \cup Gone(started) \cup Gone(stopped)
      BY <1>5 DEF HotplugRemove, ReceiveUEvent
    <2>2. \A d \in Device : AllowedChange(d)
      BY <2>1 DEF DeviceStatus, AllowedChange, Gone, Detected, IndInv, StartedAreInitialized
    <2>3. Running /\ Running'
      BY <2>1 DEF Running
    <2> QED
      BY <2>2, <2>3, ChangeImplemented
  <1>6. ASSUME NEW S, phase \notin {"starting", "exited"}, UNCHANGED <<phase, unplugged>>,
               started' = started \ S, stopped' = stopped \cup S
        PROVE  Lifecycle!Next
    <2>1. \A d \in Device : AllowedChange(d)
      BY <1>6 DEF DeviceStatus, AllowedChange
    <2>2. Running /\ Running'
      BY <1>6 DEF Running
    <2> QED
      BY <2>1, <2>2, ChangeImplemented
  <1>7. ASSUME NEW S \in SUBSET stopped, phase \notin {"starting", "exited"}, UNCHANGED <<phase, unplugged>>,
               started' = started \cup S, stopped' = stopped \ S
        PROVE  Lifecycle!Next
    <2>1. \A d \in Device : AllowedChange(d)
      BY <1>7 DEF DeviceStatus, AllowedChange, IndInv, StartedAreInitialized
    <2>2. Running /\ Running'
      BY <1>7 DEF Running
    <2> QED
      BY <2>1, <2>2, ChangeImplemented
  <1>8. CASE CheckThreads
    BY <1>6, <1>8 DEF CheckThreads, StopDevices, controlVars
  <1>9. ASSUME NEW c, NEW d, StopDevice(c, d)
        PROVE  Lifecycle!Next
    BY <1>6, <1>9 DEF StopDevice, StopDevices, MayChangeDevices, controlVars
  <1>10. ASSUME NEW c, NEW d, NEW opened, NEW kept, StartDevice(c, d, opened, kept)
         PROVE  Lifecycle!Next
    BY <1>7, <1>10 DEF StartDevice, StartDevices, OpenDevices, OpenOutcome, MayChangeDevices, controlVars
  <1>11. ASSUME NEW c, NEW d, NEW opened, NEW kept, RestartDevice(c, d, opened, kept)
         PROVE  Lifecycle!Next
    <2>1. /\ phase \notin {"starting", "exited"} /\ UNCHANGED <<phase, unplugged>> /\ d \in started
          /\ opened \in SUBSET {d}
          /\ started' = (started \ {d}) \cup opened /\ stopped' = (stopped \cup {d}) \ opened
      BY <1>11 DEF RestartDevice, OpenDevices, OpenOutcome, MayChangeDevices, controlVars
    <2>2. CASE opened = {}
      BY <1>6, <2>1, <2>2
    <2>3. CASE opened = {d}
      <3>1. started' = started /\ stopped' = stopped
        BY <2>1, <2>3 DEF IndInv, StartedAreInitialized
      <3>2. \A e \in Device : AllowedChange(e)
        BY <2>1, <3>1 DEF DeviceStatus, AllowedChange
      <3>3. Running /\ Running'
        BY <2>1 DEF Running
      <3> QED
        BY <3>2, <3>3, ChangeImplemented
    <2> QED
      BY <2>1, <2>2, <2>3
  <1>12. CASE GoToSleep
    BY <1>6, <1>12 DEF GoToSleep, HandleSleepEvent, StopInitializedDevices, StopDevices, controlVars
  <1>13. ASSUME NEW opened, NEW kept, WakeUp(opened, kept)
         PROVE  Lifecycle!Next
    BY <1>7, <1>13 DEF WakeUp, HandleSleepEvent, StartSleepingDevices, StartDevices, OpenDevices, OpenOutcome,
                 controlVars
  <1>14. CASE LeaveLoop \/ MonitoringFails
    <2>1. /\ phase \in {"starting", "monitoring"} /\ phase' = "draining"
          /\ UNCHANGED <<started, stopped, unplugged>>
      BY <1>14 DEF LeaveLoop, MonitoringFails, StartWaiting, deviceVars
    <2>2. CASE phase = "monitoring"
      BY <2>1, <2>2, NothingChanged DEF Mode
    <2>3. CASE phase = "starting"
      <3>1. started' = {} /\ stopped' = {} /\ unplugged' = {}
        BY <2>1, <2>3 DEF IndInv, NothingBeforeStart
      <3>2. \A d \in Device : DeviceStatus(d)' \in {"unknown", "started"}
        BY <3>1 DEF DeviceStatus
      <3>3. Status' \in [Device -> {"unknown", "started"}]
        BY <3>2 DEF Status
      <3> QED
        BY <2>1, <2>3, <3>3 DEF Lifecycle!Next, Lifecycle!FirstEnumeration, Status
    <2> QED
      BY <2>1, <2>2, <2>3
  <1>15. CASE Exit
    <2>1. phase = "draining" /\ phase' = "exited" /\ started' = {} /\ stopped' = {} /\ UNCHANGED unplugged
      BY <1>15 DEF Exit
    <2>2. \A d \in Device : /\ DeviceStatus(d)' \in {"unknown", "unplugged"}
                            /\ DeviceStatus(d) = "unplugged" => DeviceStatus(d)' = "unplugged"
      BY <2>1 DEF DeviceStatus
    <2>3. Status' \in [Device -> {"unknown", "unplugged"}]
      BY <2>2 DEF Status
    <2>4. \A d \in Device : Status[d] = "unplugged" => Status'[d] = "unplugged"
      BY <2>2 DEF Status
    <2> QED
      BY <2>1, <2>3, <2>4 DEF Lifecycle!Next, Lifecycle!Exit, Status
  <1> QED
    BY <1>1, <1>2, <1>3, <1>4, <1>5, <1>8, <1>9, <1>10, <1>11, <1>12, <1>13, <1>14, <1>15, DeviceSteps
       DEF IndInv

(* Whatever clients, devices and logind do, the statuses that the daemon   *)
(* reports follow one another as module DeviceLifecycle says.              *)
THEOREM DaemonImplementsLifecycle == Spec => LifecycleSpec
  <1>1. Init => Lifecycle!Init
    BY InitImplemented
  <1>2. IndInv /\ [Next]_vars => [Lifecycle!Next]_<<Status, Mode>>
    BY StepImplemented
  <1> QED
    BY <1>1, <1>2, IndInvInvariant, PTL DEF Spec, LifecycleSpec, Lifecycle!Spec, Status, Mode
-----------------------------------------------------------------------------
(* What a suspend does to the devices.  The property alone is not          *)
(* inductive: a device that was stopped must not be in _sleepingDevices    *)
(* either, from where a resume would start it.                             *)

StoppedIsForgotten == stoppedAwake \cap (started \cup sleeping) = {}

ResumeInv == IndInv /\ StoppedIsForgotten

(* A step of the daemon with its history is a step of the daemon.          *)
LEMMA StepOfDaemon ==
    ASSUME [RNext]_<<vars, stoppedAwake>>
    PROVE  [Next]_vars
  BY DEF RNext, vars

(* What suspends and resumes do to the devices that may be started, and    *)
(* what no other step does: only a suspend puts devices to sleep.          *)
LEMMA SleepingSteps ==
    ASSUME [Next]_vars
    PROVE  \/ sleepMsgs' = sleepMsgs /\ sleeping' \subseteq sleeping
           \/ UNCHANGED <<started, stopped, sleeping>>
           \/ started' = {} /\ sleeping' = started
           \/ started' \subseteq started \cup sleeping /\ sleeping' = {}
  <1>1. CASE UNCHANGED <<sleeping, delayLock, subscribed, power, sleepMsgs>>
    BY <1>1
  <1>2. CASE GoToSleep
    BY <1>2 DEF GoToSleep, StopInitializedDevices, StopDevices
  <1>3. ASSUME NEW opened, NEW kept, WakeUp(opened, kept)
        PROVE  started' \subseteq started \cup sleeping /\ sleeping' = {}
    BY <1>3 DEF WakeUp, StartSleepingDevices, StartDevices, OpenDevices, OpenOutcome
  <1>4. CASE PrepareForSleep \/ Suspend \/ Resume
    BY <1>4 DEF PrepareForSleep, Suspend, Resume, OnlySleep, deviceVars
  <1>5. CASE Exit
    BY <1>5 DEF Exit
  <1> QED
    BY <1>1, <1>2, <1>3, <1>4, <1>5, SleepSteps

LEMMA ResumeInvStep ==
    ASSUME ResumeInv, [RNext]_<<vars, stoppedAwake>>
    PROVE  ResumeInv'
  <1> USE DEF StoppedIsForgotten
  <1>1. IndInv /\ IndInv'
    BY StepOfDaemon, IndInvStep DEF ResumeInv
  <1>2. started \cap stopped = {} /\ (started \cap stopped = {})'
    BY <1>1 DEF IndInv, StartedAreInitialized
  <1>3. StoppedIsForgotten
    BY DEF ResumeInv
  <1>4. CASE UNCHANGED <<vars, stoppedAwake>>
    BY <1>1, <1>3, <1>4 DEF vars, ResumeInv
  <1>5. CASE RNext
    <2>1. stoppedAwake' \subseteq (stoppedAwake \cup StoppedNow) \ StartedByClient
      BY <1>5 DEF RNext
    <2>2. StoppedNow \cap sleeping' = {} /\ StoppedNow \cap started' = {}
      BY <1>2 DEF StoppedNow
    <2>3. CASE sleepMsgs' = sleepMsgs /\ sleeping' \subseteq sleeping
      <3>1. StartedByClient = started'
        BY <2>3 DEF StartedByClient
      <3> QED
        BY <1>1, <1>3, <2>1, <2>2, <2>3, <3>1 DEF ResumeInv
    <2>4. CASE UNCHANGED <<started, stopped, sleeping>>
      BY <1>1, <1>3, <2>1, <2>2, <2>4 DEF ResumeInv
    <2>5. CASE started' = {} /\ sleeping' = started
      BY <1>1, <1>3, <2>1, <2>2, <2>5 DEF ResumeInv
    <2>6. CASE started' \subseteq started \cup sleeping /\ sleeping' = {}
      BY <1>1, <1>3, <2>1, <2>2, <2>6 DEF ResumeInv
    <2> QED
      BY <2>3, <2>4, <2>5, <2>6, StepOfDaemon, SleepingSteps
  <1> QED
    BY <1>4, <1>5

(* Over any number of suspends, in any order with the calls of clients and *)
(* what happens to the devices, startSleepingDevices() starts no device    *)
(* that a client, or the failure of its threads, had stopped.              *)
THEOREM ResumeStartsOnlySleeping == RSpec => []StoppedStaysStopped
  <1>1. RInit => ResumeInv
    BY IndInvInit DEF RInit, ResumeInv, StoppedIsForgotten
  <1>2. ResumeInv /\ [RNext]_<<vars, stoppedAwake>> => ResumeInv'
    BY ResumeInvStep
  <1>3. ResumeInv => StoppedStaysStopped
    BY DEF ResumeInv, StoppedIsForgotten, StoppedStaysStopped
  <1> QED
    BY <1>1, <1>2, <1>3, PTL DEF RSpec

-----------------------------------------------------------------------------
(* What the clients are told.                                              *)

ToldInv == IndInv /\ ClientsCounted /\ NobodyBeforeStart /\ ClientsAreToldTheTruth

(* A silent step, or one whose signal names the devices whose status it    *)
(* changes, with their new status, leaves a client that knew the truth     *)
(* with the truth.                                                         *)
LEMMA SilenceIsTrue ==
    ASSUME told = Status, Silent, told' = [d \in Device |-> Heard(d)]
    PROVE  told' = Status'
  <1>1. \A d \in Device : Heard(d) = told[d]
    BY DEF Silent, Heard
  <1>2. Status' = Status
    BY DEF Silent, Status, DeviceStatus
  <1> QED
    BY <1>1, <1>2 DEF Status

LEMMA SignalIsTrue ==
    ASSUME told = Status, told' = [d \in Device |-> Heard(d)],
           NEW name \in DOMAIN NewStatus, NEW S, Tells(name, S)
    PROVE  told' = Status'
  <1>1. ASSUME NEW d \in Device
        PROVE  Heard(d) = DeviceStatus(d)'
    <2>1. CASE d \in S
      <3>1. DOMAIN out' = {1} /\ out'[1].devices = S /\ out'[1].name = name
        BY <2>1 DEF Tells
      <3>2. {i \in DOMAIN out' : d \in out'[i].devices} = {1}
        BY <2>1, <3>1
      <3>3. Heard(d) = NewStatus[out'[CHOOSE i \in {1} : TRUE].name]
        BY <3>2 DEF Heard
      <3>4. (CHOOSE i \in {1} : TRUE) = 1
        OBVIOUS
      <3> QED
        BY <2>1, <3>1, <3>3, <3>4 DEF Tells
    <2>2. CASE d \notin S
      <3>1. {i \in DOMAIN out' : d \in out'[i].devices} = {}
        BY <2>2 DEF Tells
      <3>2. Heard(d) = told[d]
        BY <3>1 DEF Heard
      <3> QED
        BY <2>2, <3>2 DEF Status, Tells
    <2> QED
      BY <2>1, <2>2
  <1> QED
    BY <1>1 DEF Status

(* One step of the daemon, for a client that is connected before it.       *)
LEMMA ToldStep ==
    ASSUME ToldInv, FewClients, Next, ~SleepEvent, told = Status, told' = [d \in Device |-> Heard(d)],
           connected # {}, daemonRunning, phase' # "exited"
    PROVE  told' = Status'
  <1>1. Silent \/ \E name \in DOMAIN NewStatus, S \in SUBSET Device : Tells(name, S)
    <2>1. phase # "exited"
      BY NoComeback
    <2>2. OtherStep
      BY <2>1 DEF Next, MainThread, Exited, OtherStep
    <2> QED
      BY <2>2, StatusChangesAreTold DEF ToldInv, IndInv, DeviceInv
  <1> QED
    BY <1>1, SilenceIsTrue, SignalIsTrue

LEMMA ToldInvStep ==
    ASSUME ToldInv, FewClients, [HNext]_<<vars, told>>, [~SleepEvent]_vars
    PROVE  ToldInv'
  <1>1. [Next]_vars
    BY DEF HNext, vars
  <1>2. IndInv'
    BY <1>1, IndInvStep DEF ToldInv
  <1>3. ClientsCounted' /\ NobodyBeforeStart'
    BY <1>1, CountSteps, NoComeback DEF ToldInv, ClientsCounted, NobodyBeforeStart, Listening
  <1>4. CASE UNCHANGED <<vars, told>>
    BY <1>2, <1>3, <1>4 DEF ToldInv, ClientsAreToldTheTruth, Status, DeviceStatus, vars
  <1>5. CASE HNext
    <2>1. CASE connected = {} \/ ~daemonRunning' \/ phase' = "exited"
      BY <1>2, <1>3, <1>5, <2>1 DEF HNext, ToldInv, ClientsAreToldTheTruth
    <2>2. CASE connected # {} /\ daemonRunning' /\ phase' # "exited"
      <3>1. daemonRunning /\ phase # "exited"
        <4>1. daemonRunning \in BOOLEAN
          BY DEF ToldInv, IndInv, TypeOK, DevicesTypeOK
        <4> QED
          BY <1>1, <2>2, <4>1, NoComeback
      <3>2. told = Status /\ told' = [d \in Device |-> Heard(d)]
        BY <1>5, <2>2, <3>1 DEF ToldInv, ClientsAreToldTheTruth, HNext
      <3>3. ~SleepEvent
        <4>1. SleepEvent => sleepMsgs # <<>> /\ sleepMsgs' = Tail(sleepMsgs)
          BY DEF SleepEvent, GoToSleep, WakeUp, HandleSleepEvent
        <4>2. sleepMsgs # <<>> => Tail(sleepMsgs) # sleepMsgs
          <5>1. sleepMsgs \in Seq(BOOLEAN)
            BY DEF ToldInv, IndInv, TypeOK, SleepTypeOK
          <5>2. sleepMsgs # <<>> => Len(Tail(sleepMsgs)) = Len(sleepMsgs) - 1
            BY <5>1
          <5> QED
            BY <5>1, <5>2
        <4>3. UNCHANGED vars => sleepMsgs' = sleepMsgs
          BY DEF vars
        <4> QED
          BY <4>1, <4>2, <4>3
      <3>4. told' = Status'
        BY <1>5, <2>2, <3>1, <3>2, <3>3, ToldStep DEF HNext
      <3> QED
        BY <1>2, <1>3, <3>4 DEF ToldInv, ClientsAreToldTheTruth
    <2> QED
      BY <2>1, <2>2
  <1> QED
    BY <1>4, <1>5

(* As long as no suspend or resume is handled and fewer than 256 clients   *)
(* are connected, a client that has listened since it registered knows the *)
(* status of every device.                                                 *)
THEOREM ClientsKnowStatuses ==
    HSpec /\ []FewClients /\ [][~SleepEvent]_vars => []ClientsAreToldTheTruth
  <1>1. ASSUME HInit
        PROVE  ToldInv
    <2>1. connected = {} /\ numClients = 0 /\ told = Status
      BY <1>1 DEF HInit, Init, DevicesManagerInit, ClientsManagerInit
    <2>2. NumClients(connected) = 0
      BY <2>1, FS_EmptySet DEF NumClients
    <2> QED
      BY <1>1, <2>1, <2>2, IndInvInit DEF HInit, ToldInv, ClientsCounted, NobodyBeforeStart, ClientsAreToldTheTruth
  <1>2. ToldInv /\ FewClients /\ [HNext]_<<vars, told>> /\ [~SleepEvent]_vars => ToldInv'
    BY ToldInvStep
  <1>3. ToldInv => ClientsAreToldTheTruth
    BY DEF ToldInv
  <1> QED
    BY <1>1, <1>2, <1>3, PTL DEF HSpec

(* In particular when there are fewer than 255 sessions.                   *)
THEOREM FewSessionsKnowStatuses ==
    ASSUME IsFiniteSet(Session), Cardinality(Session) < 255
    PROVE  HSpec /\ [][~SleepEvent]_vars => []ClientsAreToldTheTruth
  <1>1. HInit => Init
    BY DEF HInit
  <1>2. [HNext]_<<vars, told>> => [Next]_vars
    BY DEF HNext, vars
  <1>3. IndInv => FewClients
    BY FewSessions DEF IndInv
  <1> QED
    BY <1>1, <1>2, <1>3, IndInvInvariant, ClientsKnowStatuses, PTL DEF HSpec, Spec

-----------------------------------------------------------------------------
(* The services.                                                           *)

(* The order in which a handler makes its calls: containers are changed    *)
(* before the next device is asked about, a service registers first,       *)
(* listens before it asks, and unregisters at the end.                     *)
Moves == {"Start", "Stop", "DeleteDeviceConfiguration"}
Asks  == {"IsStarted", "IsStopped", "IsUnplugged", "GetStartedDevices", "GetStoppedDevices"}

Rank(c) ==
    CASE c.call \in {"Start", "Stop"}             -> 1
      [] c.call = "DeleteDeviceConfiguration"     -> 2
      [] c.call = "AddMatch"                      -> 3
      [] c.call \in Asks                          -> 4
      [] c.call = "UnregisterClient"              -> 5
      [] c.call = "exit"                          -> 6
      [] OTHER                                    -> 0

(* A request of the GUI is alone; properties are asked for first, then the *)
(* configuration is sent; no report comes between a question about a       *)
(* started device, or about the session, and the report on the answer; a   *)
(* client says once that it is ready.                                      *)
Requests == {"StopDevice", "StartDevice", "RestartDevice"}

Turn(c, e) ==
    /\ {c.call, e.call} \cap Requests = {}
    /\ e.call # "GetDeviceProperties"
    /\ e.call = "SetDeviceBacklightColor" => c.call = "GetDeviceProperties"
    /\ e.call = "Get" => c.call = "RegisterClient"
    /\ e.call = "IsStarted" => c.call \notin {"UpdateClientState", "GetStartedDevices"}
    /\ e.call = "ToggleClientReadyPropertie" => c.call # "ToggleClientReadyPropertie"

Before(c, e) ==
    /\ e.call # "RegisterClient"
    /\ Rank(c) = 0 \/ Rank(e) = 0 \/ Rank(c) <= Rank(e)
    /\ Turn(c, e)

InOrder(q) == \A i, j \in DOMAIN q : i < j => Before(q[i], q[j])

(* What the service s has still to do, and has still to hear.              *)
Left(s)   == Range(todo[s])
Unread(s) == Range(inbox[s])

IsLeft(s, name) == \E c \in Left(s) : c.call = name

AsksAll(s) == IsLeft(s, "GetStartedDevices") /\ IsLeft(s, "GetStoppedDevices")
NoMoves(s) == \A c \in Left(s) : c.call \notin Moves

Disjoint(s) == startedHere[s] \cap stoppedHere[s] = {}

(* One device is not on its way to two containers.                         *)
OneWay(s) == \A d \in Device : ~(Call("Start", d) \in Left(s) /\ Call("Stop", d) \in Left(s))

StoppedServiceIsClear(s) ==
    s \notin running =>
        s \notin registered /\ s \notin listening /\ Handled(s) = {} /\ todo[s] = <<>> /\ inbox[s] = <<>>

UnregisteredIsClear(s) == s \notin registered => Handled(s) = {} /\ NoMoves(s)

(* The handler that registers the service, the one of the launch that      *)
(* listens, and the one that unregisters it.                               *)
RegistersFirst(s) ==
    IsLeft(s, "RegisterClient") => s \notin registered /\ AsksAll(s)

ListensBeforeAsking(s) ==
    /\ s \in running \ listening => IsLeft(s, "AddMatch")
    /\ IsLeft(s, "AddMatch") => AsksAll(s) /\ Handled(s) = {} /\ NoMoves(s)

UnregistersLast(s) ==
    IsLeft(s, "UnregisterClient") =>
        /\ \A c \in Left(s) : c.call \in {"DeleteDeviceConfiguration", "UnregisterClient", "exit"}
        /\ \A d \in Handled(s) : Call("DeleteDeviceConfiguration", d) \in Left(s)

HandlersInv(s) ==
    /\ InOrder(todo[s])
    /\ Disjoint(s)
    /\ OneWay(s)
    /\ StoppedServiceIsClear(s)
    /\ UnregisteredIsClear(s)
    /\ RegistersFirst(s)
    /\ ListensBeforeAsking(s)
    /\ UnregistersLast(s)

(* A service that is registered is a client of the daemon, or was cut off; *)
(* two services never have the same ID.                                    *)
RegisteredIsKnown(s) == s \in registered => KnownTo(s) \/ s \in cutOff
IDsDiffer == \A s, t \in registered : id[s] = id[t] => s = t

(* The calls and signals after which a service knows that a device has the *)
(* status: those that ask the daemon, and confirm it.                      *)
Confirms(c, status, d) ==
    \/ c.call = "GetStartedDevices" /\ status = "started"
    \/ c.call = "GetStoppedDevices" /\ status = "stopped"
    \/ c.device = d /\ \/ c.call = "IsStarted" /\ status = "started"
                       \/ c.call = "IsStopped" /\ status = "stopped"
                       \/ c.call = "IsUnplugged" /\ status = "unplugged"

Announces(signal, status, d) ==
    /\ d \in signal.devices
    /\ \/ signal.name = "DevicesStarted" /\ status = "started"
       \/ signal.name = "DevicesStopped" /\ status = "stopped"
       \/ signal.name = "DevicesUnplugged" /\ status = "unplugged"

WillAsk(calls, signals, status, d) ==
    \/ \E c \in calls : Confirms(c, status, d)
    \/ \E signal \in signals : Announces(signal, status, d)

(* Where the device d is once the calls that move it are made, when the    *)
(* sets a and b are the keys of _startedDevices and of _stoppedDevices.    *)
Heads(calls, a, b, status, d) ==
    IF Call("DeleteDeviceConfiguration", d) \in calls THEN status \notin {"started", "stopped"}
    ELSE IF Call("Start", d) \in calls THEN status = "started"
    ELSE IF Call("Stop", d) \in calls THEN status = "stopped"
    ELSE (d \in a <=> status = "started") /\ (d \in b <=> status = "stopped")

Knows(calls, signals, a, b, status, d) ==
    WillAsk(calls, signals, status, d) \/ Heads(calls, a, b, status, d)

Live(s) == DaemonGoesOn /\ s \in registered /\ KnownTo(s)

(* Whatever the service of a client has not understood yet, it will ask.   *)
ViewInv(s) ==
    Live(s) /\ ~IsLeft(s, "UnregisterClient") =>
        \A d \in Device : Knows(Left(s), Unread(s), startedHere[s], stoppedHere[s], DeviceStatus(d), d)

(* A service t registers, and the ID of the service s, which has not       *)
(* answered a ReportYourself, is taken from it, or is drawn again.         *)
Intrudes ==
    \E s \in registered : \E t \in Session \ {s} :
        /\ Register(t) /\ ~AlreadyRegistered(t)
        /\ id[s] \in Unresponsive \/ id'[t] = id[s]

-----------------------------------------------------------------------------
(* Sequences of calls and of signals.                                      *)

(* What is in a sequence is its head or in its tail.                       *)
LEMMA RangeOfTail ==
    ASSUME NEW S, NEW q \in Seq(S), q # <<>>
    PROVE  /\ Range(q) = {Head(q)} \cup Range(Tail(q))
           /\ Head(q) \in S /\ Tail(q) \in Seq(S)
  <1>1. /\ Len(q) \in Nat \ {0} /\ DOMAIN q = 1 .. Len(q) /\ Head(q) = q[1]
        /\ Tail(q) \in Seq(S) /\ DOMAIN Tail(q) = 1 .. (Len(q) - 1)
        /\ \A i \in 1 .. (Len(q) - 1) : Tail(q)[i] = q[i + 1]
    OBVIOUS
  <1>2. ASSUME NEW i \in 1 .. Len(q)
        PROVE  q[i] \in {Head(q)} \cup Range(Tail(q))
    <2>1. CASE i = 1
      BY <1>1, <2>1
    <2>2. CASE i # 1
      <3>1. i - 1 \in 1 .. (Len(q) - 1) /\ Tail(q)[i - 1] = q[i]
        BY <1>1, <2>2
      <3> QED
        BY <1>1, <3>1 DEF Range
    <2> QED
      BY <2>1, <2>2
  <1>3. ASSUME NEW i \in 1 .. (Len(q) - 1)
        PROVE  Tail(q)[i] \in Range(q)
    <2>1. i + 1 \in 1 .. Len(q)
      BY <1>1
    <2> QED
      BY <1>1, <2>1 DEF Range
  <1>4. Head(q) \in Range(q)
    BY <1>1 DEF Range
  <1> QED
    BY <1>1, <1>2, <1>3, <1>4 DEF Range

LEMMA RangeOfConcat ==
    ASSUME NEW S, NEW p \in Seq(S), NEW q \in Seq(S)
    PROVE  Range(p \o q) = Range(p) \cup Range(q) /\ p \o q \in Seq(S)
  <1>1. /\ DOMAIN p = 1 .. Len(p) /\ DOMAIN q = 1 .. Len(q) /\ Len(p) \in Nat /\ Len(q) \in Nat
        /\ p \o q \in Seq(S) /\ DOMAIN (p \o q) = 1 .. (Len(p) + Len(q))
        /\ \A i \in 1 .. (Len(p) + Len(q)) : (p \o q)[i] = IF i <= Len(p) THEN p[i] ELSE q[i - Len(p)]
    OBVIOUS
  <1>2. ASSUME NEW i \in 1 .. (Len(p) + Len(q))
        PROVE  (p \o q)[i] \in Range(p) \cup Range(q)
    <2>1. CASE i <= Len(p)
      BY <1>1, <2>1 DEF Range
    <2>2. CASE i > Len(p)
      <3>1. i - Len(p) \in 1 .. Len(q) /\ (p \o q)[i] = q[i - Len(p)]
        BY <1>1, <2>2
      <3> QED
        BY <1>1, <3>1 DEF Range
    <2> QED
      BY <1>1, <2>1, <2>2
  <1>3. ASSUME NEW i \in 1 .. Len(p)
        PROVE  p[i] \in Range(p \o q)
    <2>1. i \in 1 .. (Len(p) + Len(q)) /\ (p \o q)[i] = p[i]
      BY <1>1
    <2> QED
      BY <1>1, <2>1 DEF Range
  <1>4. ASSUME NEW i \in 1 .. Len(q)
        PROVE  q[i] \in Range(p \o q)
    <2>1. Len(p) + i \in 1 .. (Len(p) + Len(q)) /\ (p \o q)[Len(p) + i] = q[i]
      BY <1>1
    <2> QED
      BY <1>1, <2>1 DEF Range
  <1> QED
    BY <1>1, <1>2, <1>3, <1>4 DEF Range

LEMMA RangeOfAppend ==
    ASSUME NEW S, NEW q \in Seq(S), NEW e \in S
    PROVE  Append(q, e) \in Seq(S) /\ Range(Append(q, e)) = Range(q) \cup {e}
  <1>1. /\ DOMAIN q = 1 .. Len(q) /\ Len(q) \in Nat
        /\ Append(q, e) \in Seq(S) /\ DOMAIN Append(q, e) = 1 .. (Len(q) + 1)
        /\ \A i \in 1 .. Len(q) : Append(q, e)[i] = q[i]
        /\ Append(q, e)[Len(q) + 1] = e
    OBVIOUS
  <1>2. 1 .. (Len(q) + 1) = (1 .. Len(q)) \cup {Len(q) + 1}
    BY <1>1
  <1> QED
    BY <1>1, <1>2 DEF Range

(* SetToSeq() lists the devices of a set, each of them.                    *)
LEMMA ListOfDevices ==
    ASSUME NEW devices \in SUBSET Device
    PROVE  /\ Cardinality(devices) \in Nat
           /\ SetToSeq(devices) \in [1 .. Cardinality(devices) -> devices]
           /\ \A d \in devices : \E i \in 1 .. Cardinality(devices) : SetToSeq(devices)[i] = d
  <1> DEFINE n == Cardinality(devices)
  <1>1. IsFiniteSet(devices)
    BY DeviceAssumption, FS_Subset
  <1>2. n \in Nat /\ ExistsBijection(1 .. n, devices)
    BY <1>1, FS_CardinalityType
  <1>3. \E f \in [1 .. n -> devices] : IsInjective(f)
    BY <1>2 DEF ExistsBijection, Bijection, Injection, IsInjective
  <1>4. SetToSeq(devices) \in [1 .. n -> devices] /\ IsInjective(SetToSeq(devices))
    BY <1>3 DEF SetToSeq
  <1>5. SetToSeq(devices) \in Injection(1 .. n, devices)
    BY <1>4 DEF Injection, IsInjective
  <1>6. Cardinality(1 .. n) = n
    BY <1>2, FS_Interval
  <1>7. SetToSeq(devices) \in Surjection(1 .. n, devices)
    BY <1>1, <1>5, <1>6, FS_Injection
  <1> QED
    BY <1>2, <1>4, <1>7 DEF Surjection

(* CallEach() makes one call for each device.                              *)
LEMMA CallEachProperties ==
    ASSUME NEW devices \in SUBSET Device, NEW name \in DeviceCalls
    PROVE  /\ CallEach(name, devices) \in Seq(Calls)
           /\ Range(CallEach(name, devices)) = {Call(name, d) : d \in devices}
  <1> DEFINE n == Cardinality(devices)
             q == CallEach(name, devices)
  <1>1. n \in Nat /\ DOMAIN q = 1 .. n /\ \A i \in 1 .. n : q[i] = Call(name, SetToSeq(devices)[i])
    BY ListOfDevices DEF CallEach
  <1>2. \A i \in 1 .. n : SetToSeq(devices)[i] \in devices
    BY ListOfDevices
  <1>3. \A i \in 1 .. n : q[i] \in Calls
    BY <1>1, <1>2 DEF Calls, Call
  <1>4. q = [i \in 1 .. n |-> q[i]]
    BY <1>1 DEF CallEach
  <1>5. q \in Seq(Calls)
    BY <1>1, <1>3, <1>4, IsASeq
  <1>6. Range(q) = {Call(name, d) : d \in devices}
    BY <1>1, <1>2, ListOfDevices DEF Range
  <1> QED
    BY <1>5, <1>6

(* A handler that is in order stays so when it goes on, and when it is     *)
(* followed by calls that may come after all of its own.                   *)
LEMMA InOrderTail ==
    ASSUME NEW q \in Seq(Calls), q # <<>>, InOrder(q)
    PROVE  InOrder(Tail(q)) /\ \A e \in Range(Tail(q)) : Before(Head(q), e)
  <1>1. /\ Len(q) \in Nat \ {0} /\ DOMAIN q = 1 .. Len(q) /\ Head(q) = q[1]
        /\ DOMAIN Tail(q) = 1 .. (Len(q) - 1)
        /\ \A i \in 1 .. (Len(q) - 1) : Tail(q)[i] = q[i + 1]
    OBVIOUS
  <1>2. ASSUME NEW i \in 1 .. (Len(q) - 1), NEW j \in 1 .. (Len(q) - 1), i < j
        PROVE  Before(Tail(q)[i], Tail(q)[j])
    <2>1. i + 1 \in 1 .. Len(q) /\ j + 1 \in 1 .. Len(q) /\ i + 1 < j + 1
      BY <1>1, <1>2
    <2> QED
      BY <1>1, <2>1 DEF InOrder
  <1>3. ASSUME NEW i \in 1 .. (Len(q) - 1)
        PROVE  Before(Head(q), Tail(q)[i])
    <2>1. 1 \in 1 .. Len(q) /\ i + 1 \in 1 .. Len(q) /\ 1 < i + 1
      BY <1>1
    <2> QED
      BY <1>1, <2>1 DEF InOrder
  <1> QED
    BY <1>1, <1>2, <1>3 DEF InOrder, Range

LEMMA InOrderConcat ==
    ASSUME NEW p \in Seq(Calls), NEW q \in Seq(Calls), InOrder(p), InOrder(q),
           \A c \in Range(p), e \in Range(q) : Before(c, e)
    PROVE  InOrder(p \o q)
  <1>1. /\ DOMAIN p = 1 .. Len(p) /\ DOMAIN q = 1 .. Len(q) /\ Len(p) \in Nat /\ Len(q) \in Nat
        /\ DOMAIN (p \o q) = 1 .. (Len(p) + Len(q))
        /\ \A i \in 1 .. (Len(p) + Len(q)) : (p \o q)[i] = IF i <= Len(p) THEN p[i] ELSE q[i - Len(p)]
    OBVIOUS
  <1>2. ASSUME NEW i \in 1 .. (Len(p) + Len(q)), NEW j \in 1 .. (Len(p) + Len(q)), i < j
        PROVE  Before((p \o q)[i], (p \o q)[j])
    <2>1. CASE j <= Len(p)
      BY <1>1, <1>2, <2>1 DEF InOrder
    <2>2. CASE i > Len(p)
      <3>1. i - Len(p) \in 1 .. Len(q) /\ j - Len(p) \in 1 .. Len(q) /\ i - Len(p) < j - Len(p)
        BY <1>1, <1>2, <2>2
      <3> QED
        BY <1>1, <1>2, <2>2, <3>1 DEF InOrder
    <2>3. CASE i <= Len(p) /\ j > Len(p)
      <3>1. i \in 1 .. Len(p) /\ j - Len(p) \in 1 .. Len(q)
        BY <1>1, <1>2, <2>3
      <3>2. (p \o q)[i] = p[i] /\ (p \o q)[j] = q[j - Len(p)]
        BY <1>1, <2>3
      <3>3. p[i] \in Range(p) /\ q[j - Len(p)] \in Range(q)
        BY <1>1, <3>1 DEF Range
      <3> QED
        BY <3>2, <3>3
    <2> QED
      BY <1>1, <2>1, <2>2, <2>3
  <1> QED
    BY <1>1, <1>2 DEF InOrder

(* The handlers of one, two and three calls.                               *)
LEMMA OneCall ==
    ASSUME NEW c \in Calls
    PROVE  <<c>> \in Seq(Calls) /\ Range(<<c>>) = {c} /\ InOrder(<<c>>)
  BY DEF Range, InOrder

LEMMA TwoCalls ==
    ASSUME NEW a \in Calls, NEW b \in Calls, Before(a, b)
    PROVE  <<a, b>> \in Seq(Calls) /\ Range(<<a, b>>) = {a, b} /\ InOrder(<<a, b>>)
  <1> DEFINE q == <<a, b>>
  <1>1. q \in Seq(Calls) /\ DOMAIN q = {1, 2} /\ q[1] = a /\ q[2] = b
    OBVIOUS
  <1>2. Range(q) = {a, b}
    BY <1>1 DEF Range
  <1>3. InOrder(q)
    BY <1>1 DEF InOrder
  <1> QED
    BY <1>1, <1>2, <1>3

LEMMA ThreeCalls ==
    ASSUME NEW a \in Calls, NEW b \in Calls, NEW c \in Calls, Before(a, b), Before(a, c), Before(b, c)
    PROVE  <<a, b, c>> \in Seq(Calls) /\ Range(<<a, b, c>>) = {a, b, c} /\ InOrder(<<a, b, c>>)
  <1> DEFINE q == <<a, b, c>>
  <1>1. q \in Seq(Calls) /\ DOMAIN q = {1, 2, 3} /\ q[1] = a /\ q[2] = b /\ q[3] = c
    OBVIOUS
  <1>2. Range(q) = {a, b, c}
    BY <1>1 DEF Range
  <1>3. InOrder(q)
    BY <1>1 DEF InOrder
  <1> QED
    BY <1>1, <1>2, <1>3

LEMMA NoCall == <<>> \in Seq(Calls) /\ Range(<<>>) = {} /\ InOrder(<<>>)
  BY DEF Range, InOrder

LEMMA InTurnProperties ==
    ASSUME NEW a \in OtherCalls
    PROVE  /\ Call(a, NoDevice) \in Calls
           /\ InTurn(<<a>>) = <<Call(a, NoDevice)>>
           /\ \A b \in OtherCalls : InTurn(<<a, b>>) = <<Call(a, NoDevice), Call(b, NoDevice)>>
           /\ \A b, c \in OtherCalls :
                 InTurn(<<a, b, c>>) = <<Call(a, NoDevice), Call(b, NoDevice), Call(c, NoDevice)>>
  BY DEF InTurn, Calls, Call

(* Calls about each of some devices are in order, whatever the order of    *)
(* the devices.                                                            *)
EachCalls == {"IsStarted", "IsStopped", "IsUnplugged", "DeleteDeviceConfiguration"}

LEMMA CallEachInOrder ==
    ASSUME NEW devices \in SUBSET Device, NEW name \in EachCalls
    PROVE  InOrder(CallEach(name, devices))
  <1>1. \A d, e : Before(Call(name, d), Call(name, e))
    BY DEF Before, Turn, Requests, Rank, Call, EachCalls, Asks
  <1>2. \A i \in DOMAIN CallEach(name, devices) : \E d : CallEach(name, devices)[i] = Call(name, d)
    BY DEF CallEach
  <1> QED
    BY <1>1, <1>2 DEF InOrder

-----------------------------------------------------------------------------
(* The daemon of the services is the daemon of module Daemon, but for its  *)
(* being killed and started again.                                         *)

(* The invariants of the daemon that hold whenever it was started.         *)
DaemonInv ==
    /\ TypeOK
    /\ SessionsDistinct
    /\ NumActiveExact
    /\ DeviceInv
    /\ IdleInv
    /\ ClientsCounted
    /\ NobodyBeforeStart

(* A daemon that has exited has no client and no device left.              *)
NothingLeft == phase = "exited" => connected = {} /\ started = {} /\ stopped = {}

(* A call that the daemon accepts is one of its handlers.                  *)
LEMMA AcceptedCall ==
    ASSUME DaemonAnswers, ClientCall
    PROVE  Next /\ OtherStep
  BY DEF DaemonAnswers, Next, MainThread, OtherStep

(* A call of a service changes nothing at the daemon, or the daemon        *)
(* handles it.                                                             *)
LEMMA ServiceCallPart ==
    ASSUME ServiceTypeOK, TypeOK, NEW s \in Session, ServiceCall(s)
    PROVE  DaemonUntouched \/ (Next /\ OtherStep)
  <1> USE DEF Calling, Asking, ServiceOnly, ClientCall
  <1>1. s \in Session /\ (todo[s] # <<>> => Current(s) \in Calls)
    BY RangeOfTail DEF ServiceTypeOK, Current
  <1>2. connected \subseteq ClientID
    BY DEF TypeOK, ClientsTypeOK
  <1>3. \A d : Current(s).device = d /\ Current(s).call \in DeviceCalls /\ todo[s] # <<>> => d \in Device
    BY <1>1 DEF Calls, DeviceCalls, OtherCalls
  <1>4. CASE Register(s)
    BY <1>4, AcceptedCall DEF Register
  <1>5. CASE Report(s)
    BY <1>2, <1>5, AcceptedCall DEF Report, UpdateClientState, KnownTo
  <1>6. CASE ToggleReady(s)
    BY <1>2, <1>6, AcceptedCall DEF ToggleReady, KnownTo
  <1>7. CASE Initializing(s)
    BY <1>2, <1>3, <1>7, AcceptedCall DEF Initializing, Doing, KnownTo, DeviceCalls
  <1>8. CASE SendConfiguration(s)
    <2>1. Current(s).device \in Device
      BY <1>3, <1>8 DEF SendConfiguration, Doing, DeviceCalls
    <2>2. conf[s][Current(s).device] \in Config
      BY <2>1 DEF ServiceTypeOK
    <2> QED
      BY <1>2, <1>8, <2>1, <2>2, AcceptedCall DEF SendConfiguration, KnownTo
  <1>9. CASE UnplugDevice(s)
    BY <1>2, <1>3, <1>9, AcceptedCall DEF UnplugDevice, Doing, KnownTo, DeviceCalls
  <1>10. CASE Unregister(s)
    BY <1>2, <1>10, AcceptedCall DEF Unregister, KnownTo
  <1>11. CASE ChangeStatus(s)
    <2>1. Current(s).device \in Device
      BY <1>3, <1>11 DEF ChangeStatus, Doing, DeviceCalls
    <2> QED
      BY <1>2, <1>11, <2>1, AcceptedCall DEF ChangeStatus, KnownTo
  <1>12. CASE ReadSession(s) \/ Listen(s) \/ ExitService(s)
    BY <1>12 DEF ReadSession, Listen, ExitService
  <1>13. CASE GetStarted(s) \/ GetStopped(s) \/ CheckStarted(s) \/ CheckStopped(s) \/ CheckUnplugged(s)
    BY <1>13 DEF GetStarted, GetStopped, CheckStarted, CheckStopped, CheckUnplugged
  <1>14. CASE MoveToStarted(s) \/ MoveToStopped(s)
    BY <1>14 DEF MoveToStarted, MoveToStopped, Moving
  <1> QED
    BY <1>4, <1>5, <1>6, <1>7, <1>8, <1>9, <1>10, <1>11, <1>12, <1>13, <1>14 DEF ServiceCall

LEMMA DaemonPart ==
    ASSUME ServiceTypeOK, TypeOK, SNext
    PROVE  DaemonUntouched \/ (Next /\ OtherStep) \/ DaemonDies \/ StartDaemon
  <1>1. \A s \in Session : HandleSignal(s) \/ Launch(s) \/ AskRestart(s) \/ Crash(s) \/ SwitchSession(s)
                           => DaemonUntouched
    BY DEF HandleSignal, Launch, AskRestart, Crash, SwitchSession, ServiceOnly
  <1>2. \A s \in Session, d \in Device : GUIRequest(s, d) \/ ReloadFile(s, d) => DaemonUntouched
    BY DEF GUIRequest, ReloadFile, ServiceOnly
  <1>3. DaemonStep => Next /\ OtherStep
    BY DEF DaemonStep, Next, MainThread, OtherStep
  <1> QED
    BY <1>1, <1>2, <1>3, ServiceCallPart DEF SNext

(* The invariants of the daemon do not depend on what it has sent.         *)
LEMMA DaemonInvUntouched ==
    ASSUME DaemonInv, DaemonUntouched
    PROVE  DaemonInv'
  <1>1. /\ out' = <<>>
        /\ UNCHANGED <<plugged, uevents, daemonRunning, phase, started, stopped, unplugged, sleeping,
                       initialized, dead, config, numClients, connected, client, numActive,
                       waits, delayLock, subscribed, power, sleepMsgs>>
    BY DEF DaemonUntouched, environmentVars, controlVars, deviceVars, clientVars, sleepVars
  <1>2. <<>> \in Seq(Signal)
    OBVIOUS
  <1>3. TypeOK'
    BY <1>1, <1>2 DEF DaemonInv, TypeOK, DevicesTypeOK, ClientsTypeOK, SleepTypeOK
  <1>4. SessionsDistinct' /\ NumActiveExact'
    BY <1>1 DEF DaemonInv, SessionsDistinct, NumActiveExact, Active, ActiveIn
  <1>5. DeviceInv' /\ IdleInv' /\ ClientsCounted' /\ NobodyBeforeStart'
    BY <1>1 DEF DaemonInv, DeviceInv, IdleInv, StartedAreInitialized, NothingBeforeStart, IdleDevicesReset,
                ClosedDevicesReset, ClientsCounted, NobodyBeforeStart, NumClients
  <1> QED
    BY <1>3, <1>4, <1>5 DEF DaemonInv

(* A daemon that was killed keeps nothing.                                 *)
LEMMA DaemonInvDead ==
    ASSUME DaemonInv, DaemonDies
    PROVE  DaemonInv'
  <1>1. /\ out' = <<>> /\ phase' = "exited"
        /\ started' = {} /\ stopped' = {} /\ sleeping' = {} /\ initialized' = {} /\ dead' = {}
        /\ config' = [d \in Device |-> DefaultConfig]
        /\ connected' = {} /\ client' = [c \in ClientID |-> NoClient] /\ numActive' = 0
        /\ delayLock' = FALSE
        /\ UNCHANGED <<plugged, uevents, daemonRunning, unplugged, numClients, waits, subscribed, power, sleepMsgs>>
    BY DEF DaemonDies, environmentVars
  <1>2. <<>> \in Seq(Signal) /\ NoClient \in Client /\ config' \in [Device -> Config]
    BY <1>1, ConfigAssumption DEF NoClient, Client, States
  <1>3. DevicesTypeOK'
    BY <1>1, <1>2 DEF DaemonInv, TypeOK, DevicesTypeOK, Phases
  <1>4. ClientsTypeOK' /\ SleepTypeOK'
    BY <1>1, <1>2 DEF DaemonInv, TypeOK, ClientsTypeOK, SleepTypeOK
  <1>5. SessionsDistinct'
    BY <1>1 DEF SessionsDistinct
  <1>6. NumActiveExact'
    <2>1. Active' = {}
      BY <1>1 DEF Active, ActiveIn
    <2> QED
      BY <1>1, <2>1, FS_EmptySet DEF NumActiveExact
  <1>7. DeviceInv' /\ IdleInv' /\ ClientsCounted' /\ NobodyBeforeStart'
    BY <1>1 DEF DeviceInv, IdleInv, StartedAreInitialized, NothingBeforeStart, IdleDevicesReset,
                ClosedDevicesReset, ClientsCounted, NobodyBeforeStart
  <1> QED
    BY <1>3, <1>4, <1>5, <1>6, <1>7 DEF DaemonInv, TypeOK

(* A daemon that has exited has no client and no device, so that the next  *)
(* one starts with none.                                                   *)
LEMMA DaemonInvRestarted ==
    ASSUME DaemonInv, NothingLeft, StartDaemon
    PROVE  DaemonInv'
  <1>1. /\ out' = <<>> /\ phase' = "starting" /\ daemonRunning' = TRUE
        /\ unplugged' = {} /\ uevents' = <<>> /\ numClients' = 0 /\ waits' = 0 /\ sleepMsgs' = <<>>
        /\ delayLock' \in BOOLEAN /\ subscribed' = delayLock'
        /\ UNCHANGED <<plugged, started, stopped, sleeping, initialized, dead, config, connected, client,
                       numActive, power>>
    BY LogindAssumption DEF StartDaemon, Inhibited, clientVars
  <1>2. phase = "exited" /\ connected = {} /\ started = {} /\ stopped = {}
    BY DEF StartDaemon, NoDaemon, NothingLeft
  <1>3. <<>> \in Seq(Signal) /\ <<>> \in Seq({"add", "remove"}) /\ <<>> \in Seq(BOOLEAN)
    OBVIOUS
  <1>4. DevicesTypeOK'
    BY <1>1, <1>3 DEF DaemonInv, TypeOK, DevicesTypeOK, Phases
  <1>5. ClientsTypeOK' /\ SleepTypeOK'
    BY <1>1, <1>3, MaxWaitsAssumption DEF DaemonInv, TypeOK, ClientsTypeOK, SleepTypeOK
  <1>6. SessionsDistinct' /\ NumActiveExact'
    BY <1>1 DEF DaemonInv, SessionsDistinct, NumActiveExact, Active, ActiveIn
  <1>7. NumClients({}) = 0
    BY FS_EmptySet DEF NumClients
  <1>8. DeviceInv' /\ IdleInv' /\ ClientsCounted' /\ NobodyBeforeStart'
    BY <1>1, <1>2, <1>7 DEF DaemonInv, DeviceInv, IdleInv, StartedAreInitialized, NothingBeforeStart, IdleDevicesReset,
                ClosedDevicesReset, ClientsCounted, NobodyBeforeStart
  <1> QED
    BY <1>4, <1>5, <1>6, <1>8 DEF DaemonInv, TypeOK

(* Only Exit makes the daemon exit, and nothing happens to it afterwards.  *)
LEMMA NothingLeftStep ==
    ASSUME NothingLeft, [Next]_vars
    PROVE  NothingLeft'
  <1> USE DEF NothingLeft
  <1>1. CASE UNCHANGED vars
    BY <1>1 DEF vars
  <1>2. CASE Start \/ UEvent \/ ThreadsCheck
    <2>1. phase' # "exited"
      BY <1>2 DEF Start, UEvent, ThreadsCheck, StartMonitoring, HotplugAdd, HotplugRemove, CheckThreads,
                  ReceiveUEvent, controlVars
    <2> QED
      BY <2>1
  <1>3. CASE ClientCall
    <2>1. UNCHANGED phase /\ Listening
      <3>1. ASSUME NEW s \in Session,
                   RegisterRefused(s) \/ RegisterFailed(s) \/ \E c \in ClientID : RegisterClient(s, c)
            PROVE  UNCHANGED phase /\ Listening
        BY <3>1 DEF RegisterRefused, RegisterFailed, RegisterClient, LeavesDevices, OnlyConfig, controlVars
      <3>2. ASSUME NEW c \in ClientID,
                   \/ UnregisterClient(c)
                   \/ \E state \in {"active", "online"} : UpdateClientState(c, state)
                   \/ ToggleClientReadyPropertie(c)
            PROVE  UNCHANGED phase /\ Listening
        BY <3>2 DEF UnregisterClient, UpdateClientState, ToggleClientReadyPropertie, OnlyConfig, controlVars
      <3>3. ASSUME NEW c \in ClientID, NEW d \in Device, NEW opened, NEW kept,
                   \/ StopDevice(c, d)
                   \/ StartDevice(c, d, opened, kept)
                   \/ RestartDevice(c, d, opened, kept)
            PROVE  UNCHANGED phase /\ Listening
        BY <3>3 DEF StopDevice, StartDevice, RestartDevice, controlVars, MayChangeDevices
      <3>4. ASSUME NEW c \in ClientID, NEW d \in Device, NEW v,
                   GetDeviceProperties(c, d) \/ DeleteDeviceConfiguration(c, d) \/ SetDeviceConfig(c, d, v)
            PROVE  UNCHANGED phase /\ Listening
        BY <3>4 DEF GetDeviceProperties, DeleteDeviceConfiguration, SetDeviceConfig, ClientDevices,
                    LeavesDevices, controlVars
      <3> QED
        BY <1>3, <3>1, <3>2, <3>3, <3>4 DEF ClientCall
    <2> QED
      BY <2>1 DEF Listening
  <1>4. CASE SleepEvent
    <2>1. UNCHANGED phase /\ Listening
      BY <1>4 DEF SleepEvent, GoToSleep, WakeUp, HandleSleepEvent, controlVars
    <2> QED
      BY <2>1 DEF Listening
  <1>5. CASE LeaveLoop \/ MonitoringFails \/ Wait \/ Exit
    BY <1>5 DEF LeaveLoop, MonitoringFails, StartWaiting, Wait, Exit, controlVars
  <1>6. CASE Environment
    BY <1>6 DEF Environment, Plug, Unplug, ThreadsGiveUp, LeavesClients, SigTerm, PrepareForSleep, Suspend,
                Resume, OnlySleep, controlVars, clientVars
  <1>7. CASE Exited
    BY <1>7 DEF Exited, vars
  <1> QED
    BY <1>1, <1>2, <1>3, <1>4, <1>5, <1>6, <1>7 DEF Next, MainThread

LEMMA DaemonInvStep ==
    ASSUME DaemonInv, NothingLeft, ServiceTypeOK, [SNext]_allVars
    PROVE  DaemonInv' /\ NothingLeft'
  <1>1. CASE Next
    <2>1. TypeOK' /\ SessionsDistinct' /\ NumActiveExact' /\ DeviceInv' /\ IdleInv'
      BY <1>1, TypeOKStep, SessionsDistinctStep, NumActiveStep, DeviceInvStep, IdleInvStep DEF DaemonInv
    <2>2. ClientsCounted' /\ NobodyBeforeStart'
      BY <1>1, CountSteps DEF DaemonInv, ClientsCounted, NobodyBeforeStart, Listening
    <2>3. NothingLeft'
      BY <1>1, NothingLeftStep
    <2> QED
      BY <2>1, <2>2, <2>3 DEF DaemonInv
  <1>2. CASE DaemonUntouched
    <2>1. UNCHANGED <<phase, connected, started, stopped>>
      BY <1>2 DEF DaemonUntouched, controlVars, deviceVars, clientVars
    <2> QED
      BY <1>2, <2>1, DaemonInvUntouched DEF NothingLeft
  <1>3. CASE DaemonDies
    BY <1>3, DaemonInvDead DEF NothingLeft, DaemonDies
  <1>4. CASE StartDaemon
    BY <1>4, DaemonInvRestarted DEF NothingLeft, StartDaemon
  <1>5. CASE UNCHANGED allVars
    <2>1. UNCHANGED vars
      BY <1>5 DEF allVars
    <2>2. Exited \/ phase # "exited"
      BY <2>1 DEF Exited
    <2> QED
      BY <2>1, TypeOKStep, SessionsDistinctStep, NumActiveStep, DeviceInvStep, IdleInvStep, CountSteps, NothingLeftStep
         DEF DaemonInv, ClientsCounted, NobodyBeforeStart, Listening
  <1> QED
    BY <1>1, <1>2, <1>3, <1>4, <1>5, DaemonPart DEF DaemonInv

-----------------------------------------------------------------------------
(* The handlers: the calls of each, in order.                              *)

(* The calls of a handler: typed, in order, and those of the set.          *)
Makes(q, calls) == q \in Seq(Calls) /\ InOrder(q) /\ Range(q) = calls

LEMMA MakesConcat ==
    ASSUME NEW p, NEW q, NEW C, NEW D, Makes(p, C), Makes(q, D), \A c \in C, e \in D : Before(c, e)
    PROVE  Makes(p \o q, C \cup D)
  BY RangeOfConcat, InOrderConcat DEF Makes

ReportCall == Call("UpdateClientState", NoDevice)

(* The report comes anywhere. *)
LEMMA ReportIfActiveMakes ==
    ASSUME NEW s \in Session
    PROVE  Makes(ReportIfActive(s), IF sessionState[s] = "active" THEN {ReportCall} ELSE {})
  <1>1. ReportCall \in Calls
    BY DEF ReportCall, Call, Calls, OtherCalls
  <1>2. Makes(<<ReportCall>>, {ReportCall}) /\ Makes(<<>>, {})
    BY <1>1, OneCall, NoCall DEF Makes
  <1>3. InTurn(<<"UpdateClientState">>) = <<ReportCall>>
    BY InTurnProperties DEF ReportCall, OtherCalls
  <1> QED
    BY <1>2, <1>3 DEF ReportIfActive

LEMMA CallEachMakes ==
    ASSUME NEW devices \in SUBSET Device, NEW name \in EachCalls
    PROVE  Makes(CallEach(name, devices), {Call(name, d) : d \in devices})
  BY CallEachProperties, CallEachInOrder DEF Makes, EachCalls, DeviceCalls

LEMMA AskEachMakes ==
    ASSUME NEW devices \in SUBSET Device, NEW name \in EachCalls, NEW s \in Session
    PROVE  Makes(CallEach(name, devices) \o ReportIfActive(s),
                 {Call(name, d) : d \in devices} \cup IF sessionState[s] = "active" THEN {ReportCall} ELSE {})
  <1>1. \A d : Before(Call(name, d), ReportCall)
    BY DEF Before, Turn, Requests, Rank, ReportCall, Call, Asks, EachCalls
  <1> QED
    BY <1>1, CallEachMakes, ReportIfActiveMakes, MakesConcat

LEMMA OneCallMakes ==
    ASSUME NEW c \in Calls
    PROVE  Makes(<<c>>, {c}) /\ Makes(<<>>, {})
  BY OneCall, NoCall DEF Makes

InitializeCalls(d, then) == {Call("GetDeviceProperties", d), Call("SetDeviceBacklightColor", d), Call(then, d)}

LEMMA InitializeMakes ==
    ASSUME NEW d \in Device, NEW then \in {"Start", "Stop"}
    PROVE  Makes(Initialize(d, then), InitializeCalls(d, then))
  <1>1. InitializeCalls(d, then) \subseteq Calls
    BY DEF InitializeCalls, Call, Calls, DeviceCalls
  <1>2. /\ Before(Call("GetDeviceProperties", d), Call("SetDeviceBacklightColor", d))
        /\ Before(Call("GetDeviceProperties", d), Call(then, d))
        /\ Before(Call("SetDeviceBacklightColor", d), Call(then, d))
    BY DEF Before, Turn, Requests, Rank, Call, Asks
  <1> QED
    BY <1>1, <1>2, ThreeCalls DEF Makes, Initialize, InitializeCalls

(* The calls about a device that is gone and was never handled. *)
ForgetCalls(d) == {Call("GetDeviceProperties", d), Call("Stop", d), Call("DeleteDeviceConfiguration", d)}

LEMMA ForgetMakes ==
    ASSUME NEW d \in Device
    PROVE  Makes(<<Call("GetDeviceProperties", d), Call("Stop", d), Call("DeleteDeviceConfiguration", d)>>,
                 ForgetCalls(d))
  <1>1. ForgetCalls(d) \subseteq Calls
    BY DEF ForgetCalls, Call, Calls, DeviceCalls
  <1>2. /\ Before(Call("GetDeviceProperties", d), Call("Stop", d))
        /\ Before(Call("GetDeviceProperties", d), Call("DeleteDeviceConfiguration", d))
        /\ Before(Call("Stop", d), Call("DeleteDeviceConfiguration", d))
    BY DEF Before, Turn, Requests, Rank, Call, Asks
  <1> QED
    BY <1>1, <1>2, ThreeCalls DEF Makes, ForgetCalls

RegistrationCalls == {Call("RegisterClient", NoDevice), Call("Get", NoDevice), ReportCall}
InitializeDevicesCalls ==
    {Call("GetStartedDevices", NoDevice), Call("ToggleClientReadyPropertie", NoDevice),
     Call("GetStoppedDevices", NoDevice)}

(* The service registers before it asks, and listens in between when it is *)
(* launched.                                                               *)
LEMMA RegistrationMakes ==
    ASSUME NEW s \in Session
    PROVE  /\ Makes(Registration(s) \o InitializeDevices, RegistrationCalls \cup InitializeDevicesCalls)
           /\ Makes(Registration(s) \o InTurn(<<"AddMatch">>) \o InitializeDevices,
                    RegistrationCalls \cup {Call("AddMatch", NoDevice)} \cup InitializeDevicesCalls)
  <1>1. RegistrationCalls \cup InitializeDevicesCalls \cup {Call("AddMatch", NoDevice)} \subseteq Calls
    BY DEF RegistrationCalls, InitializeDevicesCalls, ReportCall, Call, Calls, OtherCalls
  <1>2. /\ Registration(s) = <<Call("RegisterClient", NoDevice), Call("Get", NoDevice), ReportCall>>
        /\ InitializeDevices = <<Call("GetStartedDevices", NoDevice), Call("ToggleClientReadyPropertie", NoDevice),
                                 Call("GetStoppedDevices", NoDevice)>>
        /\ InTurn(<<"AddMatch">>) = <<Call("AddMatch", NoDevice)>>
    BY InTurnProperties DEF Registration, InitializeDevices, ReportCall, OtherCalls
  <1>3. /\ Rank(Call("RegisterClient", NoDevice)) = 0 /\ Rank(Call("Get", NoDevice)) = 0 /\ Rank(ReportCall) = 0
        /\ Rank(Call("AddMatch", NoDevice)) = 3 /\ Rank(Call("GetStartedDevices", NoDevice)) = 4
        /\ Rank(Call("ToggleClientReadyPropertie", NoDevice)) = 0 /\ Rank(Call("GetStoppedDevices", NoDevice)) = 4
        /\ \A name : Call(name, NoDevice).call = name
    BY DEF Rank, Call, ReportCall, Asks
  <1>4. Makes(Registration(s), RegistrationCalls)
    BY <1>1, <1>2, <1>3, ThreeCalls DEF Makes, RegistrationCalls, Before, Turn, Requests, ReportCall
  <1>5. Makes(InitializeDevices, InitializeDevicesCalls)
    BY <1>1, <1>2, <1>3, ThreeCalls DEF Makes, InitializeDevicesCalls, Before, Turn, Requests
  <1>6. Makes(InTurn(<<"AddMatch">>), {Call("AddMatch", NoDevice)})
    BY <1>1, <1>2, OneCallMakes
  <1>7. /\ \A c \in RegistrationCalls, e \in InitializeDevicesCalls : Before(c, e)
        /\ \A c \in RegistrationCalls, e \in {Call("AddMatch", NoDevice)} : Before(c, e)
        /\ \A c \in RegistrationCalls \cup {Call("AddMatch", NoDevice)}, e \in InitializeDevicesCalls : Before(c, e)
    BY <1>3 DEF Before, Turn, Requests, RegistrationCalls, InitializeDevicesCalls, ReportCall
  <1>8. Makes(Registration(s) \o InitializeDevices, RegistrationCalls \cup InitializeDevicesCalls)
    BY <1>4, <1>5, <1>7, MakesConcat
  <1>9. Makes(Registration(s) \o InTurn(<<"AddMatch">>), RegistrationCalls \cup {Call("AddMatch", NoDevice)})
    BY <1>4, <1>6, <1>7, MakesConcat
  <1>10. Makes((Registration(s) \o InTurn(<<"AddMatch">>)) \o InitializeDevices,
               (RegistrationCalls \cup {Call("AddMatch", NoDevice)}) \cup InitializeDevicesCalls)
    BY <1>5, <1>7, <1>9, MakesConcat
  <1> QED
    BY <1>8, <1>10

(* The calls of clearAndUnregister(), and of the exit. *)
ClearCalls(s) ==
    IF s \in registered
      THEN {Call("DeleteDeviceConfiguration", d) : d \in Handled(s)} \cup {Call("UnregisterClient", NoDevice)}
      ELSE {}

LEMMA ClearMakes ==
    ASSUME ServiceTypeOK, NEW s \in Session
    PROVE  /\ Makes(ClearAndUnregister(s), ClearCalls(s))
           /\ Makes(ClearAndUnregister(s) \o InTurn(<<"exit">>), ClearCalls(s) \cup {Call("exit", NoDevice)})
  <1>1. {Call("UnregisterClient", NoDevice), Call("exit", NoDevice)} \subseteq Calls
    BY DEF Call, Calls, OtherCalls
  <1>2. /\ InTurn(<<"UnregisterClient">>) = <<Call("UnregisterClient", NoDevice)>>
        /\ InTurn(<<"exit">>) = <<Call("exit", NoDevice)>>
    BY InTurnProperties DEF OtherCalls
  <1>3. /\ Makes(InTurn(<<"UnregisterClient">>), {Call("UnregisterClient", NoDevice)})
        /\ Makes(InTurn(<<"exit">>), {Call("exit", NoDevice)}) /\ Makes(<<>>, {})
    BY <1>1, <1>2, OneCallMakes
  <1>4. Handled(s) \in SUBSET Device
    BY DEF ServiceTypeOK, Handled
  <1>5. Makes(CallEach("DeleteDeviceConfiguration", Handled(s)),
              {Call("DeleteDeviceConfiguration", d) : d \in Handled(s)})
    BY <1>4, CallEachMakes DEF EachCalls
  <1>6. /\ \A d : Before(Call("DeleteDeviceConfiguration", d), Call("UnregisterClient", NoDevice))
        /\ \A d : Before(Call("DeleteDeviceConfiguration", d), Call("exit", NoDevice))
        /\ Before(Call("UnregisterClient", NoDevice), Call("exit", NoDevice))
    BY DEF Before, Turn, Requests, Rank, Call, Asks
  <1>7. Makes(ClearAndUnregister(s), ClearCalls(s))
    BY <1>3, <1>5, <1>6, MakesConcat DEF ClearAndUnregister, ClearCalls
  <1>8. \A c \in ClearCalls(s), e \in {Call("exit", NoDevice)} : Before(c, e)
    BY <1>6 DEF ClearCalls
  <1>9. Makes(ClearAndUnregister(s) \o InTurn(<<"exit">>), ClearCalls(s) \cup {Call("exit", NoDevice)})
    BY <1>3, <1>7, <1>8, MakesConcat
  <1> QED
    BY <1>7, <1>9

(* What the handler of each signal calls. *)
SignalCalls(s, signal) ==
    CASE signal.name = "DevicesStarted"   ->
           {Call("IsStarted", d) : d \in signal.devices} \cup IF sessionState[s] = "active" THEN {ReportCall} ELSE {}
      [] signal.name = "DevicesStopped"   -> {Call("IsStopped", d) : d \in signal.devices}
      [] signal.name = "DevicesUnplugged" -> {Call("IsUnplugged", d) : d \in signal.devices}
      [] signal.name = "DaemonIsStopping" -> ClearCalls(s)
      [] signal.name = "DaemonIsStarting" ->
           IF s \in registered THEN {} ELSE RegistrationCalls \cup InitializeDevicesCalls
      [] signal.name = "ReportYourself"   -> {ReportCall}
      [] signal.name = "PropertiesChanged" -> {Call("Get", NoDevice), ReportCall}

LEMMA HandlerMakes ==
    ASSUME ServiceTypeOK, NEW s \in Session, NEW signal \in Received
    PROVE  Makes(HandlerOf(s, signal), SignalCalls(s, signal))
  <1>1. /\ signal.devices \in SUBSET Device
        /\ signal.name \in {"DevicesStarted", "DevicesStopped", "DevicesUnplugged", "DaemonIsStarting",
                            "DaemonIsStopping", "ReportYourself", "PropertiesChanged"}
    BY DEF Received, SignalNames
  <1>2. CASE signal.name = "DevicesStarted"
    BY <1>1, <1>2, AskEachMakes DEF HandlerOf, SignalCalls, EachCalls
  <1>3. CASE signal.name = "DevicesStopped"
    BY <1>1, <1>3, CallEachMakes DEF HandlerOf, SignalCalls, EachCalls
  <1>4. CASE signal.name = "DevicesUnplugged"
    BY <1>1, <1>4, CallEachMakes DEF HandlerOf, SignalCalls, EachCalls
  <1>5. CASE signal.name = "DaemonIsStopping"
    BY <1>5, ClearMakes DEF HandlerOf, SignalCalls
  <1>6. CASE signal.name = "DaemonIsStarting"
    <2>1. Makes(<<>>, {})
      BY NoCall DEF Makes
    <2> QED
      BY <1>6, <2>1, RegistrationMakes DEF HandlerOf, SignalCalls
  <1>7. CASE signal.name = "ReportYourself"
    <2>1. InTurn(<<"UpdateClientState">>) = <<ReportCall>> /\ ReportCall \in Calls
      BY InTurnProperties DEF ReportCall, OtherCalls
    <2>2. Makes(InTurn(<<"UpdateClientState">>), {ReportCall})
      BY <2>1, OneCallMakes
    <2> QED
      BY <1>7, <2>2 DEF HandlerOf, SignalCalls
  <1>8. CASE signal.name = "PropertiesChanged"
    <2>1. /\ InTurn(<<"Get", "UpdateClientState">>) = <<Call("Get", NoDevice), ReportCall>>
          /\ ReportCall \in Calls /\ Call("Get", NoDevice) \in Calls
      BY InTurnProperties DEF ReportCall, OtherCalls
    <2>2. Rank(Call("Get", NoDevice)) = 0 /\ ReportCall.call = "UpdateClientState"
      BY DEF Rank, Call, ReportCall, Asks
    <2>3. Before(Call("Get", NoDevice), ReportCall)
      BY <2>2 DEF Before, Turn, Requests, Call, ReportCall
    <2>4. Makes(InTurn(<<"Get", "UpdateClientState">>), {Call("Get", NoDevice), ReportCall})
      BY <2>1, <2>3, TwoCalls DEF Makes
    <2> QED
      BY <1>8, <2>4 DEF HandlerOf, SignalCalls
  <1> QED
    BY <1>1, <1>2, <1>3, <1>4, <1>5, <1>6, <1>7, <1>8

-----------------------------------------------------------------------------
(* Every variable of the services keeps its type.                          *)

(* The call that a service makes, and those that are left after it.        *)
LEMMA CallInHand ==
    ASSUME ServiceTypeOK, NEW s \in Session, NEW name, Doing(s, name)
    PROVE  /\ Current(s) \in Calls /\ Current(s).call = name /\ Tail(todo[s]) \in Seq(Calls)
           /\ Left(s) = {Current(s)} \cup Range(Tail(todo[s]))
           /\ name \in DeviceCalls => Current(s).device \in Device /\ Current(s) = Call(name, Current(s).device)
           /\ name \notin DeviceCalls => Current(s) = Call(name, NoDevice)
  <1>1. todo[s] \in Seq(Calls) /\ todo[s] # <<>>
    BY DEF ServiceTypeOK, Doing
  <1>2. Head(todo[s]) \in Calls /\ Tail(todo[s]) \in Seq(Calls) /\ Left(s) = {Head(todo[s])} \cup Range(Tail(todo[s]))
    BY <1>1, RangeOfTail DEF Left
  <1>3. \A c \in Calls : /\ c.call \in DeviceCalls => c.device \in Device /\ c = Call(c.call, c.device)
                         /\ c.call \notin DeviceCalls => c = Call(c.call, NoDevice)
    BY DEF Calls, Call, DeviceCalls, OtherCalls
  <1> QED
    BY <1>2, <1>3 DEF Current, Doing

LEMMA ThenMakes ==
    ASSUME ServiceTypeOK, NEW s \in Session, NEW name, Doing(s, name), NEW q, NEW C, Makes(q, C), Then(s, q)
    PROVE  /\ todo' \in [Session -> Seq(Calls)]
           /\ Left(s)' = C \cup Range(Tail(todo[s]))
           /\ \A t \in Session \ {s} : todo'[t] = todo[t]
           /\ inbox' = Delivered(out')
           /\ InOrder(todo[s]) /\ (\A c \in C, e \in Range(Tail(todo[s])) : Before(c, e)) => InOrder(todo'[s])
  <1>1. Tail(todo[s]) \in Seq(Calls) /\ todo[s] \in Seq(Calls) /\ todo[s] # <<>>
    BY CallInHand DEF ServiceTypeOK, Doing
  <1>2. /\ q \o Tail(todo[s]) \in Seq(Calls)
        /\ Range(q \o Tail(todo[s])) = C \cup Range(Tail(todo[s]))
    BY <1>1, RangeOfConcat DEF Makes
  <1>3. todo' = [todo EXCEPT ![s] = q \o Tail(todo[s])] /\ inbox' = Delivered(out')
    BY DEF Then
  <1>4. todo'[s] = q \o Tail(todo[s]) /\ todo' \in [Session -> Seq(Calls)]
        /\ \A t \in Session \ {s} : todo'[t] = todo[t]
    BY <1>2, <1>3 DEF ServiceTypeOK
  <1>5. ASSUME InOrder(todo[s]), \A c \in C, e \in Range(Tail(todo[s])) : Before(c, e)
        PROVE  InOrder(todo'[s])
    <2>1. InOrder(Tail(todo[s]))
      BY <1>1, <1>5, InOrderTail
    <2> QED
      BY <1>1, <1>4, <1>5, <2>1, InOrderConcat DEF Makes
  <1> QED
    BY <1>2, <1>3, <1>4, <1>5 DEF Left

(* The signals of a step, to those who listen.                             *)
LEMMA DeliveredType ==
    ASSUME ServiceTypeOK, TypeOK'
    PROVE  /\ out' \in Seq(Received)
           /\ Delivered(out') \in [Session -> Seq(Received)]
           /\ \A s \in Session : Range(Delivered(out')[s]) = Unread(s) \cup IF s \in listening THEN Range(out') ELSE {}
  <1>1. out' \in Seq(Signal) /\ Signal \subseteq Received
    BY DEF TypeOK, DevicesTypeOK, Signal, Received
  <1>2. out' \in Seq(Received)
    BY <1>1
  <1>3. ASSUME NEW s \in Session
        PROVE  /\ Delivered(out')[s] \in Seq(Received)
               /\ Range(Delivered(out')[s]) = Unread(s) \cup IF s \in listening THEN Range(out') ELSE {}
    <2>1. inbox[s] \in Seq(Received)
      BY DEF ServiceTypeOK
    <2> QED
      BY <1>2, <2>1, RangeOfConcat DEF Delivered, Unread
  <1> QED
    BY <1>2, <1>3 DEF Delivered

LEMMA EndType ==
    ASSUME ServiceTypeOK, TypeOK', NEW s \in Session, ProcessEnds(s), UNCHANGED outsideVars
    PROVE  ServiceTypeOK'
  <1>1. <<>> \in Seq(Calls) /\ <<>> \in Seq(Received)
    OBVIOUS
  <1> QED
    BY <1>1, DeliveredType DEF ServiceTypeOK, ProcessEnds, outsideVars

(* The calls that change nothing of the service but what it has to do.     *)
LEMMA LocalType ==
    ASSUME ServiceTypeOK, TypeOK', NEW s \in Session, NEW name, Doing(s, name),
           NEW q, NEW C, Makes(q, C), Then(s, q), Local(s), UNCHANGED outsideVars
    PROVE  ServiceTypeOK'
  BY ThenMakes, DeliveredType DEF ServiceTypeOK, Local, outsideVars

LEMMA NothingMore == Makes(<<>>, {})
  BY NoCall DEF Makes

(* What the calls leave to do. *)
LEMMA AskedMakes ==
    ASSUME ServiceTypeOK, TypeOK, NEW s \in Session
    PROVE  /\ Makes(CallEach("IsStarted", started) \o ReportIfActive(s),
                    {Call("IsStarted", e) : e \in started}
                       \cup IF sessionState[s] = "active" THEN {ReportCall} ELSE {})
           /\ Makes(CallEach("IsStopped", stopped), {Call("IsStopped", e) : e \in stopped})
  <1>1. started \in SUBSET Device /\ stopped \in SUBSET Device
    BY DEF TypeOK, DevicesTypeOK
  <1> QED
    BY <1>1, AskEachMakes, CallEachMakes DEF EachCalls

LEMMA MoveMakes ==
    ASSUME NEW d \in Device, NEW name \in DeviceCalls
    PROVE  Makes(<<Call(name, d)>>, {Call(name, d)})
  <1>1. Call(name, d) \in Calls
    BY DEF Call, Calls
  <1> QED
    BY <1>1, OneCallMakes

LEMMA ServiceCallType ==
    ASSUME ServiceTypeOK, TypeOK, TypeOK', NEW s \in Session, ServiceCall(s)
    PROVE  ServiceTypeOK'
  <1> DEFINE d == Current(s).device
  <1> USE DEF Calling, Asking, ServiceOnly
  <1>1. CASE Register(s)
    <2>1. CASE UNCHANGED outsideVars /\ ProcessEnds(s)
      BY <2>1, EndType
    <2>2. ASSUME NEW c \in ClientID,
                 /\ Calling(TRUE, RegisterClient(s, c))
                 /\ id' = [id EXCEPT ![s] = c]
                 /\ registered' = registered \cup {s}
                 /\ Then(s, <<>>)
                 /\ UNCHANGED <<running, sessionState, startedHere, stoppedHere, listening>>
          PROVE  ServiceTypeOK'
      <3>1. Doing(s, "RegisterClient")
        BY <1>1 DEF Register
      <3>2. UNCHANGED outsideVars
        BY <2>2
      <3>3. todo' \in [Session -> Seq(Calls)] /\ inbox' = Delivered(out')
        BY <2>2, <3>1, ThenMakes, NothingMore
      <3>4. id' \in [Session -> ClientID \cup {NoID}] /\ \A t \in Session : t \in registered' <=> id'[t] # NoID
        BY <2>2, ServiceAssumption DEF ServiceTypeOK
      <3> QED
        BY <2>2, <3>2, <3>3, <3>4, DeliveredType DEF ServiceTypeOK, outsideVars
    <2> QED
      BY <1>1, <2>1, <2>2 DEF Register
  <1>2. CASE ReadSession(s)
    <2>1. Doing(s, "Get") /\ Then(s, <<>>)
      BY <1>2 DEF ReadSession
    <2>2. todo' \in [Session -> Seq(Calls)] /\ inbox' = Delivered(out')
      BY <2>1, ThenMakes, NothingMore
    <2> QED
      BY <1>2, <2>2, DeliveredType DEF ReadSession, ServiceTypeOK, outsideVars
  <1>3. CASE Listen(s)
    <2>1. Doing(s, "AddMatch") /\ Then(s, <<>>)
      BY <1>3 DEF Listen
    <2>2. todo' \in [Session -> Seq(Calls)] /\ inbox' = Delivered(out')
      BY <2>1, ThenMakes, NothingMore
    <2> QED
      BY <1>3, <2>2, DeliveredType DEF Listen, ServiceTypeOK, outsideVars
  <1>4. CASE Report(s)
    BY <1>4, LocalType, NothingMore DEF Report
  <1>5. CASE ToggleReady(s) \/ Initializing(s) \/ SendConfiguration(s)
    BY <1>5, LocalType, NothingMore DEF ToggleReady, Initializing, SendConfiguration
  <1>6. CASE ChangeStatus(s)
    BY <1>6, LocalType, NothingMore DEF ChangeStatus
  <1>7. CASE GetStarted(s)
    BY <1>7, LocalType, NothingMore, AskedMakes DEF GetStarted
  <1>8. CASE GetStopped(s)
    BY <1>8, LocalType, NothingMore, AskedMakes DEF GetStopped
  <1>9. CASE CheckStarted(s)
    <2>1. Doing(s, "IsStarted") /\ d \in Device
      BY <1>9, CallInHand DEF CheckStarted, DeviceCalls
    <2>2. Makes(<<Call("Start", d)>>, {Call("Start", d)})
      BY <2>1, MoveMakes DEF DeviceCalls
    <2> QED
      BY <1>9, <2>1, <2>2, LocalType, NothingMore, InitializeMakes DEF CheckStarted
  <1>10. CASE CheckStopped(s)
    <2>1. Doing(s, "IsStopped") /\ d \in Device
      BY <1>10, CallInHand DEF CheckStopped, DeviceCalls
    <2>2. Makes(<<Call("Stop", d)>>, {Call("Stop", d)})
      BY <2>1, MoveMakes DEF DeviceCalls
    <2> QED
      BY <1>10, <2>1, <2>2, LocalType, NothingMore, InitializeMakes DEF CheckStopped
  <1>11. CASE CheckUnplugged(s)
    <2>1. Doing(s, "IsUnplugged") /\ d \in Device
      BY <1>11, CallInHand DEF CheckUnplugged, DeviceCalls
    <2>2. Makes(<<Call("DeleteDeviceConfiguration", d)>>, {Call("DeleteDeviceConfiguration", d)})
      BY <2>1, MoveMakes DEF DeviceCalls
    <2> QED
      BY <1>11, <2>1, <2>2, LocalType, NothingMore, ForgetMakes DEF CheckUnplugged
  <1>12. CASE MoveToStarted(s)
    <2>1. Doing(s, "Start") /\ d \in Device /\ Then(s, <<>>)
      BY <1>12, CallInHand DEF MoveToStarted, Moving, DeviceCalls
    <2>2. todo' \in [Session -> Seq(Calls)] /\ inbox' = Delivered(out')
      BY <2>1, ThenMakes, NothingMore
    <2> QED
      BY <1>12, <2>1, <2>2, DeliveredType DEF MoveToStarted, Moving, ServiceTypeOK, outsideVars
  <1>13. CASE MoveToStopped(s)
    <2>1. Doing(s, "Stop") /\ d \in Device /\ Then(s, <<>>)
      BY <1>13, CallInHand DEF MoveToStopped, Moving, DeviceCalls
    <2>2. todo' \in [Session -> Seq(Calls)] /\ inbox' = Delivered(out')
      BY <2>1, ThenMakes, NothingMore
    <2> QED
      BY <1>13, <2>1, <2>2, DeliveredType DEF MoveToStopped, Moving, ServiceTypeOK, outsideVars
  <1>14. CASE UnplugDevice(s)
    <2>1. Doing(s, "DeleteDeviceConfiguration") /\ Then(s, <<>>)
      BY <1>14 DEF UnplugDevice
    <2>2. todo' \in [Session -> Seq(Calls)] /\ inbox' = Delivered(out')
      BY <2>1, ThenMakes, NothingMore
    <2> QED
      BY <1>14, <2>2, DeliveredType DEF UnplugDevice, ServiceTypeOK, outsideVars
  <1>15. CASE Unregister(s)
    <2>1. Doing(s, "UnregisterClient") /\ Then(s, <<>>)
      BY <1>15 DEF Unregister
    <2>2. todo' \in [Session -> Seq(Calls)] /\ inbox' = Delivered(out')
      BY <2>1, ThenMakes, NothingMore
    <2>3. \/ UNCHANGED <<registered, id>>
          \/ registered' = registered \ {s} /\ id' = [id EXCEPT ![s] = NoID]
      BY <1>15 DEF Unregister
    <2>4. /\ registered' \subseteq Session /\ id' \in [Session -> ClientID \cup {NoID}]
          /\ \A t \in Session : t \in registered' <=> id'[t] # NoID
      BY <2>3 DEF ServiceTypeOK
    <2> QED
      BY <1>15, <2>2, <2>4, DeliveredType DEF Unregister, ServiceTypeOK, outsideVars
  <1>16. CASE ExitService(s)
    BY <1>16, EndType DEF ExitService
  <1> QED
    BY <1>1, <1>2, <1>3, <1>4, <1>5, <1>6, <1>7, <1>8, <1>9, <1>10, <1>11, <1>12, <1>13, <1>14, <1>15, <1>16
       DEF ServiceCall

(* What happens to a service otherwise, and to all.                        *)
LEMMA ServiceEventType ==
    ASSUME ServiceTypeOK, TypeOK', NEW s \in Session,
           HandleSignal(s) \/ Launch(s) \/ AskRestart(s) \/ Crash(s) \/ SwitchSession(s)
              \/ \E d \in Device : GUIRequest(s, d) \/ ReloadFile(s, d)
    PROVE  ServiceTypeOK'
  <1> USE DEF ServiceOnly
  <1>t. todo[s] \in Seq(Calls) /\ inbox[s] \in Seq(Received) /\ Handled(s) \in SUBSET Device
    BY DEF ServiceTypeOK, Handled
  <1>1. CASE HandleSignal(s)
    <2>1. inbox[s] # <<>>
      BY <1>1 DEF HandleSignal
    <2>2. Head(inbox[s]) \in Received /\ Tail(inbox[s]) \in Seq(Received)
      BY <1>t, <2>1, RangeOfTail
    <2>3. HandlerOf(s, Head(inbox[s])) \in Seq(Calls)
      BY <2>2, HandlerMakes DEF Makes
    <2> QED
      BY <1>1, <2>2, <2>3 DEF HandleSignal, ServiceTypeOK, outsideVars
  <1>2. CASE Launch(s)
    BY <1>2, RegistrationMakes DEF Launch, ServiceTypeOK, Makes
  <1>3. CASE AskRestart(s)
    BY <1>3, ClearMakes DEF AskRestart, Local, ServiceTypeOK, Makes, outsideVars
  <1>4. CASE Crash(s)
    BY <1>4, EndType DEF Crash
  <1>5. CASE SwitchSession(s)
    <2>1. [name |-> "PropertiesChanged", devices |-> {}] \in Received
      BY DEF Received
    <2>2. \A t \in Session : inbox[t] \in Seq(Received) /\ inbox'[t] \in {inbox[t], Append(inbox[t], [name |-> "PropertiesChanged", devices |-> {}])}
      BY <1>5 DEF SwitchSession, ServiceTypeOK
    <2>3. ASSUME NEW t \in Session
          PROVE  inbox'[t] \in Seq(Received)
      <3> DEFINE e == [name |-> "PropertiesChanged", devices |-> {}]
      <3>1. e \in Received /\ inbox[t] \in Seq(Received) /\ inbox'[t] \in {inbox[t], Append(inbox[t], e)}
        BY <2>1, <2>2
      <3> HIDE DEF e
      <3>2. Append(inbox[t], e) \in Seq(Received)
        BY <3>1
      <3> QED
        BY <3>1, <3>2
    <2>4. inbox' \in [Session -> Seq(Received)]
      BY <1>5, <2>3 DEF SwitchSession
    <2>5. login' \in [Session -> {"active", "online"}]
      BY <1>5 DEF SwitchSession
    <2> QED
      BY <1>5, <2>4, <2>5 DEF SwitchSession, ServiceTypeOK, serviceVars
  <1>6. ASSUME NEW d \in Device, GUIRequest(s, d)
        PROVE  ServiceTypeOK'
    <2>1. PICK name \in {"StopDevice", "StartDevice", "RestartDevice"} : todo' = [todo EXCEPT ![s] = <<Call(name, d)>>]
      BY <1>6 DEF GUIRequest
    <2>2. <<Call(name, d)>> \in Seq(Calls)
      BY MoveMakes DEF Makes, DeviceCalls
    <2> QED
      BY <1>6, <2>1, <2>2 DEF GUIRequest, Local, ServiceTypeOK, outsideVars
  <1>7. ASSUME NEW d \in Device, ReloadFile(s, d)
        PROVE  ServiceTypeOK'
    <2>1. PICK v \in Config : conf' = [conf EXCEPT ![s][d] = v]
      BY <1>7 DEF ReloadFile
    <2>2. conf' \in [Session -> [Device -> Config]]
      BY <2>1 DEF ServiceTypeOK
    <2>3. <<Call("SetDeviceBacklightColor", d)>> \in Seq(Calls) /\ ReportIfActive(s) \in Seq(Calls)
      BY MoveMakes, ReportIfActiveMakes DEF Makes, DeviceCalls
    <2>4. <<Call("SetDeviceBacklightColor", d)>> \o ReportIfActive(s) \in Seq(Calls)
      BY <2>3, RangeOfConcat
    <2> QED
      BY <1>7, <2>2, <2>4 DEF ReloadFile, Local, ServiceTypeOK
  <1> QED
    BY <1>1, <1>2, <1>3, <1>4, <1>5, <1>6, <1>7

LEMMA ServiceTypeStep ==
    ASSUME ServiceTypeOK, TypeOK, TypeOK', [SNext]_allVars
    PROVE  ServiceTypeOK'
  <1>1. CASE DaemonStep
    <2>1. cutOff' \subseteq Session
      BY <1>1 DEF DaemonStep, ServiceTypeOK, LeftBehind
    <2> QED
      BY <1>1, <2>1, DeliveredType DEF DaemonStep, ServiceTypeOK, serviceVars
  <1>2. CASE DaemonDies
    BY <1>2 DEF DaemonDies, ServiceTypeOK, serviceVars, LeftBehind
  <1>3. CASE StartDaemon
    BY <1>3 DEF StartDaemon, ServiceTypeOK, serviceVars
  <1>4. CASE UNCHANGED allVars
    BY <1>4 DEF allVars, ServiceTypeOK, serviceVars, outsideVars
  <1> QED
    BY <1>1, <1>2, <1>3, <1>4, ServiceCallType, ServiceEventType DEF SNext

LEMMA ServiceInitType == SInit => DaemonInv /\ NothingLeft /\ ServiceTypeOK
  <1> SUFFICES ASSUME SInit PROVE DaemonInv /\ NothingLeft /\ ServiceTypeOK
    OBVIOUS
  <1>1. Init
    BY DEF SInit
  <1>2. IndInv
    BY <1>1, IndInvInit
  <1>3. ClientsCounted /\ NobodyBeforeStart /\ NothingLeft
    <2>1. connected = {} /\ numClients = 0 /\ phase = "starting"
      BY <1>1 DEF Init, ClientsManagerInit, DevicesManagerInit
    <2>2. NumClients({}) = 0
      BY FS_EmptySet DEF NumClients
    <2> QED
      BY <2>1, <2>2 DEF ClientsCounted, NobodyBeforeStart, NothingLeft
  <1>4. <<>> \in Seq(Calls) /\ <<>> \in Seq(Received)
    OBVIOUS
  <1>5. ServiceTypeOK
    BY <1>4, ServiceAssumption DEF SInit, ServiceTypeOK
  <1> QED
    BY <1>2, <1>3, <1>5 DEF DaemonInv, IndInv, DeviceInv, IdleInv

(* The invariants of the daemon survive its being killed and started again, *)
(* and every service makes its calls with arguments of the right type.      *)
THEOREM ServiceTypeInvariant == SSpec => [](DaemonInv /\ NothingLeft /\ ServiceTypeOK)
  <1>1. DaemonInv /\ NothingLeft /\ ServiceTypeOK /\ [SNext]_allVars => (DaemonInv /\ NothingLeft /\ ServiceTypeOK)'
    <2> SUFFICES ASSUME DaemonInv, NothingLeft, ServiceTypeOK, [SNext]_allVars
                 PROVE  DaemonInv' /\ NothingLeft' /\ ServiceTypeOK'
      OBVIOUS
    <2>1. DaemonInv' /\ NothingLeft'
      BY DaemonInvStep
    <2> QED
      BY <2>1, ServiceTypeStep DEF DaemonInv
  <1> QED
    BY <1>1, ServiceInitType, PTL DEF SSpec

-----------------------------------------------------------------------------
(* The handlers of a service are what HandlersInv says.                    *)

(* A step of someone else leaves the service s as it is, but for the       *)
(* signals that it hears.                                                  *)
Apart(s) ==
    /\ s \in running' <=> s \in running
    /\ s \in registered' <=> s \in registered
    /\ s \in listening' <=> s \in listening
    /\ id'[s] = id[s]
    /\ sessionState'[s] = sessionState[s]
    /\ startedHere'[s] = startedHere[s]
    /\ stoppedHere'[s] = stoppedHere[s]
    /\ todo'[s] = todo[s]

Hears(s) == IF s \in listening THEN inbox'[s] = inbox[s] \o out' ELSE inbox'[s] = inbox[s]

LEMMA CallApart ==
    ASSUME ServiceTypeOK, NEW s \in Session, NEW t \in Session \ {s}, ServiceCall(t)
    PROVE  Apart(s) /\ Hears(s) /\ (conf' = conf) /\ UNCHANGED cutOff
  <1> USE DEF ServiceTypeOK, Apart, Hears, Then, Delivered, outsideVars
  <1>1. CASE \E q : Then(t, q) /\ Local(t) /\ UNCHANGED outsideVars
    BY <1>1 DEF Local
  <1>2. CASE ProcessEnds(t) /\ UNCHANGED outsideVars
    BY <1>2 DEF ProcessEnds
  <1>3. CASE Register(t)
    <2>1. CASE ProcessEnds(t)
      BY <1>2, <1>3, <2>1 DEF Register, Calling
    <2>2. CASE ~ProcessEnds(t)
      BY <1>3, <2>2 DEF Register, Calling
    <2> QED
      BY <2>1, <2>2
  <1>4. CASE ReadSession(t)
    BY <1>4 DEF ReadSession, ServiceOnly
  <1>5. CASE Listen(t)
    BY <1>5 DEF Listen, ServiceOnly
  <1>6. CASE Report(t) \/ ToggleReady(t) \/ Initializing(t) \/ SendConfiguration(t) \/ ChangeStatus(t)
    <2>1. \E q : Then(t, q) /\ Local(t) /\ UNCHANGED outsideVars
      BY <1>6 DEF Report, ToggleReady, Initializing, SendConfiguration, ChangeStatus, Calling, ServiceOnly
    <2> QED
      BY <1>1, <2>1
  <1>7. CASE GetStarted(t) \/ GetStopped(t) \/ CheckStarted(t) \/ CheckStopped(t) \/ CheckUnplugged(t)
    <2>1. \E q : Then(t, q) /\ Local(t) /\ UNCHANGED outsideVars
      BY <1>7 DEF GetStarted, GetStopped, CheckStarted, CheckStopped, CheckUnplugged, Asking, ServiceOnly
    <2> QED
      BY <1>1, <2>1
  <1>8. CASE MoveToStarted(t) \/ MoveToStopped(t)
    BY <1>8 DEF MoveToStarted, MoveToStopped, Moving, ServiceOnly
  <1>9. CASE UnplugDevice(t)
    BY <1>9 DEF UnplugDevice, Calling
  <1>10. CASE Unregister(t)
    BY <1>10 DEF Unregister, Calling
  <1>11. CASE ExitService(t)
    BY <1>2, <1>11 DEF ExitService, ServiceOnly
  <1> QED
    BY <1>3, <1>4, <1>5, <1>6, <1>7, <1>8, <1>9, <1>10, <1>11 DEF ServiceCall

(* What a service does that is not a call to the daemon. *)
OwnEvent(s) ==
    \/ HandleSignal(s) \/ Launch(s) \/ AskRestart(s) \/ Crash(s)
    \/ \E d \in Device : GUIRequest(s, d) \/ ReloadFile(s, d)

PropertiesChanged == [name |-> "PropertiesChanged", devices |-> {}]

(* A step is one of the service s or leaves it as it is; then it hears     *)
(* nothing, the signals of the daemon, or that of logind.                  *)
LEMMA OwnOrApart ==
    ASSUME ServiceTypeOK, NEW s \in Session, [SNext]_allVars
    PROVE  \/ ServiceCall(s)
           \/ OwnEvent(s)
           \/ Apart(s) /\ \/ Hears(s)
                          \/ inbox'[s] = inbox[s] /\ DaemonUntouched
                          \/ inbox'[s] = inbox[s] /\ (DaemonDies \/ StartDaemon \/ UNCHANGED allVars)
                          \/ s \in running /\ inbox'[s] = Append(inbox[s], PropertiesChanged) /\ DaemonUntouched
  <1>1. ASSUME NEW t \in Session \ {s}, OwnEvent(t)
        PROVE  Apart(s) /\ (inbox'[s] = inbox[s] \/ Hears(s)) /\ DaemonUntouched
    <2> USE DEF ServiceTypeOK, Apart
    <2>1. CASE HandleSignal(t)
      BY <2>1 DEF HandleSignal
    <2>2. CASE Launch(t)
      BY <2>2 DEF Launch
    <2>3. CASE AskRestart(t)
      BY <2>3 DEF AskRestart, Local, ServiceOnly
    <2>4. CASE Crash(t)
      BY <2>4 DEF Crash, ServiceOnly, ProcessEnds, Delivered, Hears
    <2>5. CASE \E d \in Device : GUIRequest(t, d) \/ ReloadFile(t, d)
      BY <2>5 DEF GUIRequest, ReloadFile, Local, ServiceOnly
    <2> QED
      BY <1>1, <2>1, <2>2, <2>3, <2>4, <2>5 DEF OwnEvent
  <1>2. ASSUME NEW t \in Session, SwitchSession(t)
        PROVE  /\ Apart(s) /\ DaemonUntouched
               /\ \/ inbox'[s] = inbox[s]
                  \/ s \in running /\ inbox'[s] = Append(inbox[s], PropertiesChanged)
    BY <1>2 DEF SwitchSession, Apart, serviceVars, PropertiesChanged
  <1>3. CASE DaemonStep
    BY <1>3 DEF DaemonStep, Apart, Hears, Delivered, serviceVars
  <1>4. CASE DaemonDies \/ StartDaemon
    BY <1>4 DEF DaemonDies, StartDaemon, Apart, serviceVars
  <1>5. CASE UNCHANGED allVars
    BY <1>5 DEF allVars, Apart, serviceVars
  <1>6. ASSUME NEW t \in Session, ServiceCall(t)
        PROVE  ServiceCall(s) \/ (Apart(s) /\ Hears(s))
    BY <1>6, CallApart
  <1>7. ASSUME NEW t \in Session, OwnEvent(t)
        PROVE  OwnEvent(s) \/ (Apart(s) /\ (inbox'[s] = inbox[s] \/ Hears(s)) /\ DaemonUntouched)
    BY <1>1, <1>7
  <1> QED
    BY <1>2, <1>3, <1>4, <1>5, <1>6, <1>7 DEF SNext, OwnEvent

(* What follows the call of a service comes after it. *)
LEMMA WhatFollows ==
    ASSUME ServiceTypeOK, NEW s \in Session, NEW name, Doing(s, name), InOrder(todo[s])
    PROVE  \A e \in Range(Tail(todo[s])) : e \in Left(s) /\ Before(Current(s), e)
  <1>1. todo[s] \in Seq(Calls) /\ todo[s] # <<>>
    BY DEF ServiceTypeOK, Doing
  <1> QED
    BY <1>1, InOrderTail, CallInHand DEF Current

(* Calls that an answer of the daemon may lead to. *)
Answers == {"IsStarted", "IsStopped", "UpdateClientState", "GetDeviceProperties", "SetDeviceBacklightColor",
            "Start", "Stop", "DeleteDeviceConfiguration"}

(* A handler goes on, with more calls after a question.                    *)
LEMMA GoesOn ==
    ASSUME ServiceTypeOK, NEW s \in Session, HandlersInv(s), NEW name, Doing(s, name),
           NEW q, NEW C, Makes(q, C), Then(s, q), UNCHANGED running,
           C = {} \/ name \in Asks, \A x \in C : x.call \in Answers,
           \A x \in C : x.call = "UpdateClientState" => name = "GetStartedDevices",
           \A d \in Device : ~(Call("Start", d) \in C /\ Call("Stop", d) \in C)
    PROVE  /\ InOrder(todo[s])'
           /\ OneWay(s)'
           /\ StoppedServiceIsClear(s)'
           /\ RegistersFirst(s)'
           /\ \A e \in Left(s) : e # Current(s) => e \in Left(s)'
           /\ \A e \in Left(s)' : e \in C \/ e \in Left(s)
           /\ IsLeft(s, "AddMatch")' => IsLeft(s, "AddMatch") /\ C = {} /\ AsksAll(s)' /\ name \notin Moves
           /\ IsLeft(s, "UnregisterClient")' => IsLeft(s, "UnregisterClient") /\ C = {}
  <1> DEFINE T == Range(Tail(todo[s]))
             c == Current(s)
  <1>1. c.call = name /\ Left(s) = {c} \cup T /\ Left(s)' = C \cup T
    BY CallInHand, ThenMakes
  <1>2. \A e \in T : e \in Left(s) /\ Before(c, e)
    BY WhatFollows DEF HandlersInv
  <1> HIDE DEF T, c
  <1>3. \A x \in C, e \in T : Before(x, e)
    <2> SUFFICES ASSUME NEW x \in C, NEW e \in T
                 PROVE  Before(x, e)
      OBVIOUS
    <2>1. Rank(c) = 4
      BY <1>1 DEF Rank, Asks
    <2>2. Rank(x) \in {0, 1, 2, 4}
      BY DEF Rank, Asks, Answers
    <2>3. Rank(e) \in {0, 1, 2, 3, 4, 5, 6}
      BY DEF Rank
    <2>4. Turn(x, e)
      <3>1. Turn(c, e)
        BY <1>2 DEF Before
      <3>2. c.call = name /\ name \in Asks
        BY <1>1
      <3> QED
        BY <3>1, <3>2 DEF Turn, Requests, Answers, Asks
    <2> QED
      BY <1>2, <2>1, <2>2, <2>3, <2>4 DEF Before
  <1>4. InOrder(todo'[s])
    BY <1>3, ThenMakes DEF HandlersInv, T
  <1>5. \A e \in T : e.call # "RegisterClient"
    BY <1>2 DEF Before
  <1>6. RegistersFirst(s)'
    BY <1>1, <1>5 DEF RegistersFirst, IsLeft, Answers
  <1>7. s \in running'
    BY DEF Doing
  <1>8. \A d \in Device : ~(Call("Start", d) \in C \cup T /\ Call("Stop", d) \in C \cup T)
    <2> SUFFICES ASSUME NEW d \in Device
                 PROVE  ~(Call("Start", d) \in C \cup T /\ Call("Stop", d) \in C \cup T)
      OBVIOUS
    <2>1. ~(Call("Start", d) \in T /\ Call("Stop", d) \in T)
      BY <1>1 DEF HandlersInv, OneWay
    <2>2. CASE name \in Asks
      <3>1. Rank(c) = 4 /\ Rank(Call("Start", d)) = 1 /\ Rank(Call("Stop", d)) = 1
        BY <1>1, <2>2 DEF Rank, Asks, Call
      <3>2. Call("Start", d) \notin T /\ Call("Stop", d) \notin T
        BY <1>2, <3>1 DEF Before
      <3> QED
        BY <3>2
    <2> QED
      BY <2>1, <2>2
  <1>9. ASSUME IsLeft(s, "AddMatch")'
        PROVE  IsLeft(s, "AddMatch") /\ C = {} /\ AsksAll(s)' /\ name \notin Moves
    <2>1. PICK e \in T : e.call = "AddMatch"
      BY <1>1, <1>9 DEF IsLeft, Answers
    <2>2. IsLeft(s, "AddMatch") /\ AsksAll(s) /\ NoMoves(s)
      BY <1>2, <2>1 DEF IsLeft, HandlersInv, ListensBeforeAsking
    <2>3. Rank(e) = 3
      BY <2>1 DEF Rank, Asks
    <2>4. name \notin Asks
      <3>1. name \in Asks => Rank(c) = 4
        BY <1>1 DEF Rank, Asks
      <3> QED
        BY <1>2, <2>1, <2>3, <3>1 DEF Before
    <2>5. AsksAll(s)'
      BY <1>1, <2>2, <2>4 DEF AsksAll, IsLeft, Asks
    <2> QED
      BY <1>1, <2>2, <2>4, <2>5 DEF NoMoves
  <1>10. ASSUME IsLeft(s, "UnregisterClient")'
         PROVE  IsLeft(s, "UnregisterClient") /\ C = {}
    <2>1. IsLeft(s, "UnregisterClient")
      BY <1>1, <1>10 DEF IsLeft, Answers
    <2>2. name \notin Asks
      BY <1>1, <2>1 DEF HandlersInv, UnregistersLast, Asks
    <2> QED
      BY <2>1, <2>2
  <1> QED
    BY <1>1, <1>4, <1>6, <1>7, <1>8, <1>9, <1>10 DEF OneWay, StoppedServiceIsClear, c

(* A call that changes nothing of the service but what it has to do.       *)
LEMMA LocalKeepsHandlers ==
    ASSUME ServiceTypeOK, NEW s \in Session, HandlersInv(s), NEW name, Doing(s, name),
           NEW q, NEW C, Makes(q, C), Then(s, q), Local(s),
           C = {} \/ name \in Asks, \A x \in C : x.call \in Answers,
           \A x \in C : x.call = "UpdateClientState" => name = "GetStartedDevices",
           \A d \in Device : ~(Call("Start", d) \in C /\ Call("Stop", d) \in C),
           name \notin Moves \cup {"AddMatch"},
           s \notin registered => \A x \in C : x.call \notin Moves
    PROVE  HandlersInv(s)'
  <1>1. UNCHANGED <<running, registered, startedHere, stoppedHere, listening>>
    BY DEF Local
  <1>2. /\ InOrder(todo[s])' /\ OneWay(s)' /\ StoppedServiceIsClear(s)' /\ RegistersFirst(s)'
        /\ \A e \in Left(s) : e # Current(s) => e \in Left(s)'
        /\ \A e \in Left(s)' : e \in C \/ e \in Left(s)
        /\ IsLeft(s, "AddMatch")' => IsLeft(s, "AddMatch") /\ C = {} /\ AsksAll(s)'
        /\ IsLeft(s, "UnregisterClient")' => IsLeft(s, "UnregisterClient") /\ C = {}
    BY <1>1, GoesOn
  <1>3. Current(s).call = name
    BY DEF Doing
  <1>4. Disjoint(s)' /\ UnregisteredIsClear(s)'
    BY <1>1, <1>2 DEF HandlersInv, Disjoint, UnregisteredIsClear, Handled, NoMoves
  <1>5. s \in running \ listening => IsLeft(s, "AddMatch")'
    BY <1>2, <1>3 DEF HandlersInv, ListensBeforeAsking, IsLeft
  <1>6. ListensBeforeAsking(s)'
    BY <1>1, <1>2, <1>5 DEF HandlersInv, ListensBeforeAsking, Handled, NoMoves
  <1>7. UnregistersLast(s)'
    <2>1. \A d : Current(s) # Call("DeleteDeviceConfiguration", d)
      BY <1>3 DEF Call, Moves
    <2> QED
      BY <1>1, <1>2, <2>1 DEF HandlersInv, UnregistersLast, Handled
  <1> QED
    BY <1>2, <1>4, <1>6, <1>7 DEF HandlersInv

(* A service that ends keeps nothing.                                      *)
LEMMA EndKeepsHandlers ==
    ASSUME ServiceTypeOK, NEW s \in Session, ProcessEnds(s)
    PROVE  HandlersInv(s)'
  <1>1. /\ s \notin running' /\ s \notin registered' /\ s \notin listening'
        /\ startedHere'[s] = {} /\ stoppedHere'[s] = {} /\ todo'[s] = <<>> /\ inbox'[s] = <<>>
    BY DEF ProcessEnds, ServiceTypeOK, Delivered
  <1>2. Left(s)' = {} /\ InOrder(todo'[s])
    BY <1>1, NoCall DEF Left
  <1>3. InOrder(todo[s])' /\ Disjoint(s)' /\ OneWay(s)' /\ StoppedServiceIsClear(s)'
    BY <1>1, <1>2 DEF Disjoint, OneWay, StoppedServiceIsClear, Handled
  <1>4. UnregisteredIsClear(s)' /\ RegistersFirst(s)' /\ ListensBeforeAsking(s)' /\ UnregistersLast(s)'
    BY <1>1, <1>2 DEF UnregisteredIsClear, RegistersFirst, ListensBeforeAsking, UnregistersLast, Handled, NoMoves, IsLeft
  <1> QED
    BY <1>3, <1>4 DEF HandlersInv

(* Nothing is known by the daemon under the ID "undefined".                *)
LEMMA UnknownWhenUnregistered ==
    ASSUME ServiceTypeOK, TypeOK, NEW s \in Session, s \notin registered
    PROVE  ~KnownTo(s)
  BY ServiceAssumption DEF ServiceTypeOK, TypeOK, ClientsTypeOK, KnownTo

LEMMA AnswerKeepsHandlers ==
    ASSUME ServiceTypeOK, TypeOK, NEW s \in Session, HandlersInv(s),
           GetStarted(s) \/ GetStopped(s) \/ CheckStarted(s) \/ CheckStopped(s) \/ CheckUnplugged(s)
    PROVE  HandlersInv(s)'
  <1> DEFINE d == Current(s).device
  <1>0. /\ Makes(<<>>, {})
        /\ s \notin registered => ~KnownTo(s)
        /\ \A name \in Asks : name \notin Moves \cup {"AddMatch"}
    BY NothingMore, UnknownWhenUnregistered DEF Asks, Moves
  <1>1. CASE GetStarted(s)
    <2>1. Doing(s, "GetStartedDevices") /\ Local(s)
      BY <1>1 DEF GetStarted
    <2>2. CASE Then(s, <<>>)
      BY <1>0, <2>1, <2>2, LocalKeepsHandlers DEF Moves
    <2>3. CASE Then(s, CallEach("IsStarted", started) \o ReportIfActive(s))
      <3> DEFINE C == {Call("IsStarted", e) : e \in started}
                         \cup IF sessionState[s] = "active" THEN {ReportCall} ELSE {}
      <3>1. Makes(CallEach("IsStarted", started) \o ReportIfActive(s), C)
        BY AskedMakes
      <3>2. \A x \in C : x.call \in {"IsStarted", "UpdateClientState"}
        BY DEF Call, ReportCall
      <3> HIDE DEF C
      <3> QED
        BY <2>1, <2>3, <3>1, <3>2, LocalKeepsHandlers DEF Asks, Answers, Moves, Call
    <2> QED
      BY <1>1, <2>2, <2>3 DEF GetStarted
  <1>2. CASE GetStopped(s)
    <2>1. Doing(s, "GetStoppedDevices") /\ Local(s)
      BY <1>2 DEF GetStopped
    <2>2. CASE Then(s, <<>>)
      BY <1>0, <2>1, <2>2, LocalKeepsHandlers DEF Moves
    <2>3. CASE Then(s, CallEach("IsStopped", stopped))
      <3> DEFINE C == {Call("IsStopped", e) : e \in stopped}
      <3>1. Makes(CallEach("IsStopped", stopped), C)
        BY AskedMakes
      <3>2. \A x \in C : x.call \in {"IsStopped"}
        BY DEF Call
      <3> HIDE DEF C
      <3> QED
        BY <2>1, <2>3, <3>1, <3>2, LocalKeepsHandlers DEF Asks, Answers, Moves, Call
    <2> QED
      BY <1>2, <2>2, <2>3 DEF GetStopped
  <1>3. ASSUME NEW name \in {"Start", "Stop"}, NEW check \in {"IsStarted", "IsStopped"}, Doing(s, check), Local(s),
               \/ Then(s, <<>>)
               \/ s \in registered /\ (Then(s, <<Call(name, d)>>) \/ Then(s, Initialize(d, name)))
        PROVE  HandlersInv(s)'
    <2>1. d \in Device /\ check \in Asks
      BY <1>3, CallInHand DEF DeviceCalls, Asks
    <2>2. Makes(<<Call(name, d)>>, {Call(name, d)}) /\ Makes(Initialize(d, name), InitializeCalls(d, name))
      BY <2>1, MoveMakes, InitializeMakes DEF DeviceCalls
    <2>3. CASE Then(s, <<>>)
      BY <1>0, <1>3, <2>1, <2>3, LocalKeepsHandlers
    <2>4. ASSUME NEW q, NEW C, Makes(q, C), Then(s, q), s \in registered, C \in {{Call(name, d)}, InitializeCalls(d, name)}
          PROVE  HandlersInv(s)'
      <3>1. /\ \A x \in C : x.call \in Answers /\ x.call # "UpdateClientState"
            /\ \A e \in Device : ~(Call("Start", e) \in C /\ Call("Stop", e) \in C)
        BY <2>4 DEF Call, InitializeCalls, Answers
      <3> QED
        BY <1>0, <1>3, <2>1, <2>4, <3>1, LocalKeepsHandlers
    <2> QED
      BY <1>3, <2>2, <2>3, <2>4
  <1>4. CASE CheckStarted(s)
    <2>1. /\ Doing(s, "IsStarted") /\ Local(s)
          /\ \/ Then(s, <<>>)
             \/ s \in registered /\ (Then(s, <<Call("Start", d)>>) \/ Then(s, Initialize(d, "Start")))
      <3>1. s \notin registered => StatusSaid(s, d) = "unknown"
        BY <1>0 DEF StatusSaid
      <3> QED
        BY <1>4, <3>1 DEF CheckStarted
    <2> QED
      BY <1>3, <2>1
  <1>5. CASE CheckStopped(s)
    <2>1. /\ Doing(s, "IsStopped") /\ Local(s)
          /\ \/ Then(s, <<>>)
             \/ s \in registered /\ (Then(s, <<Call("Stop", d)>>) \/ Then(s, Initialize(d, "Stop")))
      <3>1. s \notin registered => StatusSaid(s, d) = "unknown"
        BY <1>0 DEF StatusSaid
      <3> QED
        BY <1>5, <3>1 DEF CheckStopped
    <2> QED
      BY <1>3, <2>1
  <1>6. CASE CheckUnplugged(s)
    <2>1. Doing(s, "IsUnplugged") /\ Local(s) /\ d \in Device
      BY <1>6, CallInHand DEF CheckUnplugged, DeviceCalls
    <2>2. /\ Makes(<<Call("DeleteDeviceConfiguration", d)>>, {Call("DeleteDeviceConfiguration", d)})
          /\ Makes(<<Call("GetDeviceProperties", d), Call("Stop", d), Call("DeleteDeviceConfiguration", d)>>,
                   ForgetCalls(d))
      BY <2>1, MoveMakes, ForgetMakes DEF DeviceCalls
    <2>3. CASE Then(s, <<>>)
      BY <1>0, <2>1, <2>3, LocalKeepsHandlers DEF Asks
    <2>4. ASSUME NEW q, NEW C, Makes(q, C), Then(s, q), s \in registered,
                 C \in {{Call("DeleteDeviceConfiguration", d)}, ForgetCalls(d)}
          PROVE  HandlersInv(s)'
      <3>1. /\ \A x \in C : x.call \in Answers /\ x.call # "UpdateClientState"
            /\ \A e \in Device : ~(Call("Start", e) \in C /\ Call("Stop", e) \in C)
        BY <2>4 DEF Call, ForgetCalls, Answers
      <3> QED
        BY <1>0, <2>1, <2>4, <3>1, LocalKeepsHandlers DEF Asks
    <2>5. s \notin registered => StatusSaid(s, d) = "unknown"
      BY <1>0 DEF StatusSaid
    <2> QED
      BY <1>6, <2>2, <2>3, <2>4, <2>5 DEF CheckUnplugged
  <1> QED
    BY <1>1, <1>2, <1>4, <1>5, <1>6

LEMMA CallKeepsHandlers ==
    ASSUME ServiceTypeOK, TypeOK, NEW s \in Session, HandlersInv(s), ServiceCall(s)
    PROVE  HandlersInv(s)'
  <1> DEFINE d == Current(s).device
  <1>0. Makes(<<>>, {})
    BY NothingMore
  <1>1. CASE \E name : /\ name \in {"UpdateClientState", "ToggleClientReadyPropertie", "GetDeviceProperties",
                                     "SetDeviceBacklightColor", "StopDevice", "StartDevice", "RestartDevice"}
                       /\ Doing(s, name) /\ Then(s, <<>>) /\ Local(s)
    BY <1>0, <1>1, LocalKeepsHandlers DEF Moves
  <1>2. CASE Report(s) \/ ToggleReady(s) \/ Initializing(s) \/ SendConfiguration(s) \/ ChangeStatus(s)
    BY <1>1, <1>2 DEF Report, ToggleReady, Initializing, SendConfiguration, ChangeStatus
  <1>3. CASE GetStarted(s) \/ GetStopped(s) \/ CheckStarted(s) \/ CheckStopped(s) \/ CheckUnplugged(s)
    BY <1>3, AnswerKeepsHandlers
  <1>4. CASE \E name : Doing(s, name) /\ ProcessEnds(s)
    BY <1>4, EndKeepsHandlers
  <1>5. ASSUME NEW name, Doing(s, name), Then(s, <<>>), UNCHANGED running
        PROVE  /\ InOrder(todo[s])' /\ OneWay(s)' /\ StoppedServiceIsClear(s)' /\ RegistersFirst(s)'
               /\ \A e \in Left(s) : e # Current(s) => e \in Left(s)'
               /\ \A e \in Left(s)' : e \in Left(s)
               /\ IsLeft(s, "AddMatch")' => IsLeft(s, "AddMatch") /\ AsksAll(s)' /\ name \notin Moves
               /\ IsLeft(s, "UnregisterClient")' => IsLeft(s, "UnregisterClient")
               /\ Current(s).call = name
    BY <1>0, <1>5, GoesOn DEF Doing
  <1>6. ASSUME NEW name \in {"Get", "AddMatch"}, Doing(s, name), Then(s, <<>>),
               UNCHANGED <<running, registered, startedHere, stoppedHere>>,
               name = "Get" => listening' = listening, name = "AddMatch" => listening' = listening \cup {s}
        PROVE  HandlersInv(s)'
    <2>1. /\ InOrder(todo[s])' /\ OneWay(s)' /\ StoppedServiceIsClear(s)' /\ RegistersFirst(s)'
          /\ \A e \in Left(s) : e # Current(s) => e \in Left(s)'
          /\ \A e \in Left(s)' : e \in Left(s)
          /\ IsLeft(s, "AddMatch")' => IsLeft(s, "AddMatch") /\ AsksAll(s)'
          /\ IsLeft(s, "UnregisterClient")' => IsLeft(s, "UnregisterClient")
          /\ Current(s).call = name
      BY <1>5, <1>6
    <2>2. Disjoint(s)' /\ UnregisteredIsClear(s)'
      BY <1>6, <2>1 DEF HandlersInv, Disjoint, UnregisteredIsClear, Handled, NoMoves
    <2>3. s \in running' \ listening' => IsLeft(s, "AddMatch")'
      BY <1>6, <2>1 DEF HandlersInv, ListensBeforeAsking, IsLeft
    <2>4. ListensBeforeAsking(s)'
      BY <1>6, <2>1, <2>3 DEF HandlersInv, ListensBeforeAsking, Handled, NoMoves
    <2>5. UnregistersLast(s)'
      <3>1. \A e : Current(s) # Call("DeleteDeviceConfiguration", e)
        BY <2>1 DEF Call
      <3> QED
        BY <1>6, <2>1, <3>1 DEF HandlersInv, UnregistersLast, Handled
    <2> QED
      BY <2>1, <2>2, <2>4, <2>5 DEF HandlersInv
  <1>7. CASE ReadSession(s)
    BY <1>6, <1>7 DEF ReadSession
  <1>8. CASE Listen(s)
    BY <1>6, <1>8 DEF Listen
  <1>9. CASE Register(s)
    <2>1. CASE ProcessEnds(s)
      BY <2>1, EndKeepsHandlers
    <2>2. CASE ~ProcessEnds(s)
      <3>1. /\ Doing(s, "RegisterClient") /\ Then(s, <<>>) /\ registered' = registered \cup {s}
            /\ UNCHANGED <<running, startedHere, stoppedHere, listening>>
        BY <1>9, <2>2 DEF Register
      <3>2. /\ InOrder(todo[s])' /\ OneWay(s)' /\ StoppedServiceIsClear(s)' /\ RegistersFirst(s)'
            /\ \A e \in Left(s) : e # Current(s) => e \in Left(s)'
            /\ \A e \in Left(s)' : e \in Left(s)
            /\ IsLeft(s, "AddMatch")' => IsLeft(s, "AddMatch") /\ AsksAll(s)'
            /\ IsLeft(s, "UnregisterClient")' => IsLeft(s, "UnregisterClient")
            /\ Current(s).call = "RegisterClient"
        BY <1>5, <3>1
      <3>3. Disjoint(s)' /\ UnregisteredIsClear(s)'
        BY <3>1 DEF HandlersInv, Disjoint, UnregisteredIsClear
      <3>4. s \in running' \ listening' => IsLeft(s, "AddMatch")'
        BY <3>1, <3>2 DEF HandlersInv, ListensBeforeAsking, IsLeft
      <3>5. ListensBeforeAsking(s)'
        BY <3>1, <3>2, <3>4 DEF HandlersInv, ListensBeforeAsking, Handled, NoMoves
      <3>6. UnregistersLast(s)'
        <4>1. \A e : Current(s) # Call("DeleteDeviceConfiguration", e)
          BY <3>2 DEF Call
        <4> QED
          BY <3>1, <3>2, <4>1 DEF HandlersInv, UnregistersLast, Handled
      <3> QED
        BY <3>2, <3>3, <3>5, <3>6 DEF HandlersInv
    <2> QED
      BY <2>1, <2>2
  <1>10. ASSUME NEW name \in Moves, Doing(s, name), Then(s, <<>>), UNCHANGED <<running, registered, listening>>,
                /\ name = "Start" => /\ startedHere' = [startedHere EXCEPT ![s] = @ \cup {d}]
                                     /\ stoppedHere' = [stoppedHere EXCEPT ![s] = @ \ {d}]
                /\ name = "Stop"  => /\ stoppedHere' = [stoppedHere EXCEPT ![s] = @ \cup {d}]
                                     /\ startedHere' = [startedHere EXCEPT ![s] = @ \ {d}]
                /\ name = "DeleteDeviceConfiguration" =>
                                     /\ startedHere' = [startedHere EXCEPT ![s] = @ \ {d}]
                                     /\ stoppedHere' = [stoppedHere EXCEPT ![s] = @ \ {d}]
         PROVE  HandlersInv(s)'
    <2>1. /\ InOrder(todo[s])' /\ OneWay(s)' /\ StoppedServiceIsClear(s)' /\ RegistersFirst(s)'
          /\ \A e \in Left(s) : e # Current(s) => e \in Left(s)'
          /\ \A e \in Left(s)' : e \in Left(s)
          /\ ~IsLeft(s, "AddMatch")'
          /\ IsLeft(s, "UnregisterClient")' => IsLeft(s, "UnregisterClient")
          /\ Current(s).call = name
      BY <1>5, <1>10
    <2>2. Current(s) \in Left(s) /\ Current(s) = Call(name, d)
      BY <1>10, CallInHand DEF DeviceCalls, Moves
    <2>3. startedHere \in [Session -> SUBSET Device] /\ stoppedHere \in [Session -> SUBSET Device]
      BY DEF ServiceTypeOK
    <2>4. Disjoint(s)'
      BY <1>10, <2>3 DEF HandlersInv, Disjoint, Moves
    <2>5. s \in registered'
      BY <1>10, <2>1, <2>2 DEF HandlersInv, UnregisteredIsClear, NoMoves
    <2>6. UnregisteredIsClear(s)' /\ ListensBeforeAsking(s)'
      <3>1. s \in running \ listening => IsLeft(s, "AddMatch")'
        BY <1>10, <2>1 DEF HandlersInv, ListensBeforeAsking, IsLeft, Moves
      <3> QED
        BY <1>10, <2>1, <2>5, <3>1 DEF UnregisteredIsClear, ListensBeforeAsking
    <2>7. UnregistersLast(s)'
      <3> SUFFICES ASSUME IsLeft(s, "UnregisterClient")'
                   PROVE  /\ \A c \in Left(s)' : c.call \in {"DeleteDeviceConfiguration", "UnregisterClient", "exit"}
                          /\ \A e \in Handled(s)' : Call("DeleteDeviceConfiguration", e) \in Left(s)'
        BY DEF UnregistersLast
      <3>1. /\ \A c \in Left(s) : c.call \in {"DeleteDeviceConfiguration", "UnregisterClient", "exit"}
            /\ \A e \in Handled(s) : Call("DeleteDeviceConfiguration", e) \in Left(s)
        BY <2>1 DEF HandlersInv, UnregistersLast
      <3>2. name = "DeleteDeviceConfiguration"
        BY <2>1, <2>2, <3>1, <1>10 DEF Moves
      <3>3. Handled(s)' = Handled(s) \ {d}
        BY <1>10, <2>3, <3>2 DEF Handled
      <3>4. \A e \in Handled(s)' : Call("DeleteDeviceConfiguration", e) # Current(s)
        BY <2>2, <3>3 DEF Call
      <3> QED
        BY <2>1, <3>1, <3>3, <3>4
    <2> QED
      BY <2>1, <2>4, <2>6, <2>7 DEF HandlersInv
  <1>11. CASE MoveToStarted(s)
    BY <1>10, <1>11 DEF MoveToStarted, Moving, Moves
  <1>12. CASE MoveToStopped(s)
    BY <1>10, <1>12 DEF MoveToStopped, Moving, Moves
  <1>13. CASE UnplugDevice(s)
    BY <1>10, <1>13 DEF UnplugDevice, Moves
  <1>14. CASE Unregister(s)
    <2>1. /\ Doing(s, "UnregisterClient") /\ Then(s, <<>>) /\ registered' \in {registered, registered \ {s}}
          /\ UNCHANGED <<running, startedHere, stoppedHere, listening>>
      BY <1>14 DEF Unregister
    <2>2. /\ InOrder(todo[s])' /\ OneWay(s)' /\ StoppedServiceIsClear(s)' /\ RegistersFirst(s)'
          /\ \A e \in Left(s) : e # Current(s) => e \in Left(s)'
          /\ \A e \in Left(s)' : e \in Left(s)
          /\ IsLeft(s, "AddMatch")' => IsLeft(s, "AddMatch") /\ AsksAll(s)'
          /\ IsLeft(s, "UnregisterClient")' => IsLeft(s, "UnregisterClient")
          /\ Current(s).call = "UnregisterClient"
      BY <1>5, <2>1
    <2>3. Current(s) \in Left(s) /\ Left(s)' = Range(Tail(todo[s]))
      <3>1. Current(s) \in Left(s)
        BY <2>1, CallInHand
      <3>2. Left(s)' = {} \cup Range(Tail(todo[s]))
        BY <1>0, <2>1, ThenMakes
      <3> QED
        BY <3>1, <3>2
    <2>4. /\ \A c \in Left(s) : c.call \in {"DeleteDeviceConfiguration", "UnregisterClient", "exit"}
          /\ \A e \in Handled(s) : Call("DeleteDeviceConfiguration", e) \in Left(s)
      BY <2>2, <2>3 DEF HandlersInv, UnregistersLast, IsLeft
    <2>5. \A c \in Left(s)' : Before(Current(s), c)
      BY <2>1, <2>3, WhatFollows DEF HandlersInv
    <2>6. Rank(Current(s)) = 5 /\ \A c : c.call = "DeleteDeviceConfiguration" => Rank(c) = 2
      BY <2>2 DEF Rank, Asks
    <2>7. \A c \in Left(s)' : c.call # "DeleteDeviceConfiguration"
      BY <2>5, <2>6 DEF Before
    <2>8. NoMoves(s)'
      BY <2>2, <2>4, <2>7 DEF NoMoves, Moves
    <2>9. Handled(s) = {} /\ Handled(s)' = {}
      <3>1. \A e \in Handled(s) : Call("DeleteDeviceConfiguration", e) \in Left(s)'
        BY <2>2, <2>4 DEF Call
      <3>2. \A e : Call("DeleteDeviceConfiguration", e).call = "DeleteDeviceConfiguration"
        BY DEF Call
      <3> QED
        BY <2>1, <2>7, <3>1, <3>2 DEF Handled
    <2>10. Disjoint(s)' /\ UnregisteredIsClear(s)'
      BY <2>1, <2>8, <2>9 DEF HandlersInv, Disjoint, UnregisteredIsClear
    <2>11. ListensBeforeAsking(s)'
      BY <2>1, <2>2, <2>4, <2>8, <2>9 DEF HandlersInv, ListensBeforeAsking, IsLeft
    <2>12. UnregistersLast(s)'
      BY <2>2, <2>4, <2>9 DEF UnregistersLast
    <2> QED
      BY <2>2, <2>10, <2>11, <2>12 DEF HandlersInv
  <1>15. CASE ExitService(s)
    BY <1>15, EndKeepsHandlers DEF ExitService
  <1> QED
    BY <1>2, <1>3, <1>7, <1>8, <1>9, <1>11, <1>12, <1>13, <1>14, <1>15 DEF ServiceCall

(* A handler that starts, in a service that listens.                       *)
LEMMA StartsHandler ==
    ASSUME ServiceTypeOK, NEW s \in Session, s \in running', HandlersInv(s), todo[s] = <<>>, s \in listening,
           NEW q, NEW C, Makes(q, C), todo'[s] = q,
           UNCHANGED <<registered, startedHere, stoppedHere, listening>>,
           \A x \in C : x.call \notin {"Start", "Stop", "AddMatch"},
           (\E x \in C : x.call = "RegisterClient") =>
               s \notin registered /\ Call("GetStartedDevices", NoDevice) \in C /\ Call("GetStoppedDevices", NoDevice) \in C,
           \A x \in C : x.call = "DeleteDeviceConfiguration" => s \in registered,
           (\E x \in C : x.call = "UnregisterClient") =>
               /\ \A x \in C : x.call \in {"DeleteDeviceConfiguration", "UnregisterClient", "exit"}
               /\ \A d \in Handled(s) : Call("DeleteDeviceConfiguration", d) \in C
    PROVE  HandlersInv(s)'
  <1>1. InOrder(todo[s])' /\ Left(s)' = C
    BY DEF Makes, Left
  <1>2. Disjoint(s)'
    BY DEF HandlersInv, Disjoint
  <1>3. OneWay(s)'
    BY <1>1 DEF OneWay, Call
  <1>4. StoppedServiceIsClear(s)' /\ ListensBeforeAsking(s)'
    BY <1>1 DEF StoppedServiceIsClear, ListensBeforeAsking, IsLeft
  <1>5. UnregisteredIsClear(s)'
    BY <1>1 DEF HandlersInv, UnregisteredIsClear, NoMoves, Moves, Handled
  <1>6. RegistersFirst(s)'
    BY <1>1 DEF RegistersFirst, AsksAll, IsLeft, Call
  <1>7. UnregistersLast(s)'
    BY <1>1 DEF UnregistersLast, IsLeft, Handled
  <1> QED
    BY <1>1, <1>2, <1>3, <1>4, <1>5, <1>6, <1>7 DEF HandlersInv

(* A service that waits for signals has declared them.                     *)
LEMMA IdleListens ==
    ASSUME ServiceTypeOK, NEW s \in Session, HandlersInv(s), Idle(s)
    PROVE  s \in listening /\ Left(s) = {}
  <1>1. Left(s) = {}
    BY NoCall DEF Idle, Left
  <1> QED
    BY <1>1 DEF Idle, HandlersInv, ListensBeforeAsking, IsLeft

LEMMA EventKeepsHandlers ==
    ASSUME ServiceTypeOK, NEW s \in Session, HandlersInv(s), OwnEvent(s)
    PROVE  HandlersInv(s)'
  <1>1. CASE HandleSignal(s)
    <2> DEFINE signal == Head(inbox[s])
    <2>1. Idle(s) /\ inbox[s] # <<>> /\ s \in running' /\ UNCHANGED <<registered, startedHere, stoppedHere, listening>>
      BY <1>1 DEF HandleSignal, Idle
    <2>2. signal \in Received
      BY <2>1, RangeOfTail DEF ServiceTypeOK
    <2>3. todo'[s] = HandlerOf(s, signal)
      BY <1>1 DEF HandleSignal, ServiceTypeOK
    <2>4. Makes(HandlerOf(s, signal), SignalCalls(s, signal))
      BY <2>2, HandlerMakes
    <2>5. s \in listening /\ todo[s] = <<>>
      BY <2>1, IdleListens DEF Idle
    <2>6. signal.name \in {"DevicesStarted", "DevicesStopped", "DevicesUnplugged", "DaemonIsStarting",
                           "DaemonIsStopping", "ReportYourself", "PropertiesChanged"}
      BY <2>2 DEF Received, SignalNames
    <2> DEFINE C == SignalCalls(s, signal)
    <2>7. CASE signal.name \notin {"DaemonIsStopping", "DaemonIsStarting"}
      <3>1. \A x \in C : x.call \in {"IsStarted", "IsStopped", "IsUnplugged", "UpdateClientState", "Get"}
        BY <2>6, <2>7 DEF SignalCalls, ReportCall, Call
      <3> HIDE DEF C
      <3> QED
        BY <2>1, <2>3, <2>4, <2>5, <3>1, StartsHandler DEF C
    <2>8. CASE signal.name = "DaemonIsStopping"
      <3>1. C = ClearCalls(s)
        BY <2>8 DEF SignalCalls
      <3>2. /\ \A x \in ClearCalls(s) : x.call \in {"DeleteDeviceConfiguration", "UnregisterClient"} /\ s \in registered
            /\ s \in registered => \A d \in Handled(s) : Call("DeleteDeviceConfiguration", d) \in ClearCalls(s)
        BY DEF ClearCalls, Call
      <3> HIDE DEF C
      <3> QED
        BY <2>1, <2>3, <2>4, <2>5, <3>1, <3>2, StartsHandler DEF C
    <2>9. CASE signal.name = "DaemonIsStarting"
      <3>1. C = IF s \in registered THEN {} ELSE RegistrationCalls \cup InitializeDevicesCalls
        BY <2>9 DEF SignalCalls
      <3>2. /\ \A x \in RegistrationCalls \cup InitializeDevicesCalls :
                 x.call \in {"RegisterClient", "Get", "UpdateClientState", "GetStartedDevices",
                             "ToggleClientReadyPropertie", "GetStoppedDevices"}
            /\ {Call("GetStartedDevices", NoDevice), Call("GetStoppedDevices", NoDevice)} \subseteq InitializeDevicesCalls
        BY DEF RegistrationCalls, InitializeDevicesCalls, ReportCall, Call
      <3> HIDE DEF C
      <3> QED
        BY <2>1, <2>3, <2>4, <2>5, <3>1, <3>2, StartsHandler DEF C
    <2> QED
      BY <2>6, <2>7, <2>8, <2>9
  <1>2. CASE Launch(s)
    <2> DEFINE C == RegistrationCalls \cup {Call("AddMatch", NoDevice)} \cup InitializeDevicesCalls
               q == Registration(s) \o InTurn(<<"AddMatch">>) \o InitializeDevices
    <2>1. /\ s \notin running /\ s \in running' /\ todo'[s] = q
          /\ UNCHANGED <<registered, startedHere, stoppedHere, listening>>
      BY <1>2 DEF Launch, ServiceTypeOK
    <2>2. Makes(q, C)
      BY RegistrationMakes
    <2>3. s \notin registered /\ s \notin listening /\ Handled(s) = {}
      BY <2>1 DEF HandlersInv, StoppedServiceIsClear
    <2>4. \A x \in C : x.call \in {"RegisterClient", "Get", "UpdateClientState", "GetStartedDevices", "AddMatch",
                                   "ToggleClientReadyPropertie", "GetStoppedDevices"}
      BY DEF RegistrationCalls, InitializeDevicesCalls, ReportCall, Call
    <2>5. {Call("GetStartedDevices", NoDevice), Call("GetStoppedDevices", NoDevice), Call("AddMatch", NoDevice)} \subseteq C
      BY DEF InitializeDevicesCalls
    <2> HIDE DEF C, q
    <2>6. InOrder(todo[s])' /\ Left(s)' = C
      BY <2>1, <2>2 DEF Makes, Left
    <2>7. IsLeft(s, "AddMatch")' /\ AsksAll(s)' /\ NoMoves(s)' /\ ~IsLeft(s, "UnregisterClient")'
      BY <2>4, <2>5, <2>6 DEF IsLeft, AsksAll, NoMoves, Moves, Call
    <2>8. OneWay(s)'
      BY <2>4, <2>6 DEF OneWay, Call
    <2>9. Disjoint(s)' /\ StoppedServiceIsClear(s)' /\ Handled(s)' = {}
      BY <2>1, <2>3 DEF Disjoint, StoppedServiceIsClear, Handled
    <2>10. UnregisteredIsClear(s)' /\ RegistersFirst(s)' /\ ListensBeforeAsking(s)' /\ UnregistersLast(s)'
      BY <2>1, <2>3, <2>7, <2>9 DEF UnregisteredIsClear, RegistersFirst, ListensBeforeAsking, UnregistersLast
    <2> QED
      BY <2>6, <2>8, <2>9, <2>10 DEF HandlersInv
  <1>3. CASE AskRestart(s)
    <2> DEFINE C == ClearCalls(s) \cup {Call("exit", NoDevice)}
               q == ClearAndUnregister(s) \o InTurn(<<"exit">>)
    <2>1. Idle(s) /\ s \in running' /\ todo'[s] = q /\ UNCHANGED <<registered, startedHere, stoppedHere, listening>>
      BY <1>3 DEF AskRestart, Local, Idle, ServiceTypeOK
    <2>2. s \in listening /\ todo[s] = <<>>
      BY <2>1, IdleListens DEF Idle
    <2>3. Makes(q, C)
      BY ClearMakes
    <2>4. /\ \A x \in C : x.call = "exit" \/ (x.call \in {"DeleteDeviceConfiguration", "UnregisterClient"} /\ s \in registered)
          /\ s \in registered => \A d \in Handled(s) : Call("DeleteDeviceConfiguration", d) \in C
      BY DEF ClearCalls, Call
    <2> HIDE DEF C, q
    <2> QED
      BY <2>1, <2>2, <2>3, <2>4, StartsHandler
  <1>4. CASE Crash(s)
    BY <1>4, EndKeepsHandlers DEF Crash
  <1>5. ASSUME NEW d \in Device, GUIRequest(s, d)
        PROVE  HandlersInv(s)'
    <2>1. PICK name \in {"StopDevice", "StartDevice", "RestartDevice"} : todo' = [todo EXCEPT ![s] = <<Call(name, d)>>]
      BY <1>5 DEF GUIRequest
    <2>2. Idle(s) /\ s \in running' /\ todo'[s] = <<Call(name, d)>>
          /\ UNCHANGED <<registered, startedHere, stoppedHere, listening>>
      BY <1>5, <2>1 DEF GUIRequest, Local, Idle, ServiceTypeOK
    <2>3. s \in listening /\ todo[s] = <<>>
      BY <2>2, IdleListens DEF Idle
    <2>4. Makes(<<Call(name, d)>>, {Call(name, d)})
      BY MoveMakes DEF DeviceCalls
    <2>5. \A x \in {Call(name, d)} : x.call \in {"StopDevice", "StartDevice", "RestartDevice"}
      BY DEF Call
    <2> QED
      BY <2>2, <2>3, <2>4, <2>5, StartsHandler
  <1>6. ASSUME NEW d \in Device, ReloadFile(s, d)
        PROVE  HandlersInv(s)'
    <2> DEFINE q == <<Call("SetDeviceBacklightColor", d)>> \o ReportIfActive(s)
               C == {Call("SetDeviceBacklightColor", d)} \cup IF sessionState[s] = "active" THEN {ReportCall} ELSE {}
    <2>1. Idle(s) /\ s \in running' /\ todo'[s] = q /\ UNCHANGED <<registered, startedHere, stoppedHere, listening>>
      BY <1>6 DEF ReloadFile, Local, Idle, ServiceTypeOK
    <2>2. s \in listening /\ todo[s] = <<>>
      BY <2>1, IdleListens DEF Idle
    <2>3. Before(Call("SetDeviceBacklightColor", d), ReportCall)
      BY DEF Before, Turn, Requests, Rank, ReportCall, Call, Asks
    <2>4. Makes(q, C)
      BY <2>3, MoveMakes, ReportIfActiveMakes, MakesConcat DEF DeviceCalls
    <2>5. \A x \in C : x.call \in {"SetDeviceBacklightColor", "UpdateClientState"}
      BY DEF ReportCall, Call
    <2> HIDE DEF C, q
    <2> QED
      BY <2>1, <2>2, <2>4, <2>5, StartsHandler
  <1> QED
    BY <1>1, <1>2, <1>3, <1>4, <1>5, <1>6 DEF OwnEvent

LEMMA HandlersStep ==
    ASSUME ServiceTypeOK, TypeOK, NEW s \in Session, HandlersInv(s), [SNext]_allVars
    PROVE  HandlersInv(s)'
  <1>1. ASSUME Apart(s), s \notin running => inbox'[s] = inbox[s]
        PROVE  HandlersInv(s)'
    <2>1. Left(s)' = Left(s) /\ Handled(s)' = Handled(s)
      BY <1>1 DEF Left, Apart, Handled
    <2>2. InOrder(todo[s])' /\ Disjoint(s)' /\ OneWay(s)' /\ StoppedServiceIsClear(s)'
      BY <1>1, <2>1 DEF Apart, HandlersInv, Disjoint, OneWay, StoppedServiceIsClear
    <2>3. UnregisteredIsClear(s)' /\ RegistersFirst(s)' /\ ListensBeforeAsking(s)' /\ UnregistersLast(s)'
      BY <1>1, <2>1 DEF Apart, HandlersInv, UnregisteredIsClear, RegistersFirst, ListensBeforeAsking, UnregistersLast,
                        NoMoves, AsksAll, IsLeft
    <2> QED
      BY <2>2, <2>3 DEF HandlersInv
  <1>2. Apart(s) /\ Hears(s) => (s \notin running => inbox'[s] = inbox[s])
    BY DEF Hears, HandlersInv, StoppedServiceIsClear
  <1> QED
    BY <1>1, <1>2, OwnOrApart, CallKeepsHandlers, EventKeepsHandlers

AllHandlersInv == \A s \in Session : HandlersInv(s)

LEMMA HandlersInit == SInit => AllHandlersInv
  <1> SUFFICES ASSUME SInit, NEW s \in Session
               PROVE  HandlersInv(s)
    BY DEF AllHandlersInv
  <1>1. /\ s \notin running /\ s \notin registered /\ s \notin listening
        /\ startedHere[s] = {} /\ stoppedHere[s] = {} /\ todo[s] = <<>> /\ inbox[s] = <<>>
    BY DEF SInit
  <1>2. Left(s) = {} /\ InOrder(todo[s])
    BY <1>1, NoCall DEF Left
  <1> QED
    BY <1>1, <1>2 DEF HandlersInv, Disjoint, OneWay, StoppedServiceIsClear, Handled, UnregisteredIsClear,
                      RegistersFirst, ListensBeforeAsking, UnregistersLast, NoMoves, IsLeft

(* Whenever a service is interrupted, what is left of its handler is in    *)
(* order: it has nothing to move and no device when it is not registered,  *)
(* it declares its signals before it asks for the devices, and deletes     *)
(* them all before it unregisters.                                         *)
THEOREM HandlersAreOrderly == SSpec => []AllHandlersInv
  <1>1. ServiceTypeOK /\ TypeOK /\ AllHandlersInv /\ [SNext]_allVars => AllHandlersInv'
    BY HandlersStep DEF AllHandlersInv
  <1>2. DaemonInv => TypeOK
    BY DEF DaemonInv
  <1> QED
    BY <1>1, <1>2, HandlersInit, ServiceTypeInvariant, PTL DEF SSpec

-----------------------------------------------------------------------------
(* Registration.                                                           *)

AgreedInv == IDsDiffer /\ \A s \in Session : RegisteredIsKnown(s)

(* Who is connected changes only when a service registers, when one        *)
(* unregisters, and when the daemon ends.                                  *)
LEMMA CallConnects ==
    ASSUME ServiceTypeOK, NEW t \in Session, ServiceCall(t)
    PROVE  /\ cutOff' = cutOff
           /\ \/ UNCHANGED connected
              \/ /\ Register(t) /\ ~AlreadyRegistered(t)
                 /\ connected \ Unresponsive \subseteq connected' /\ connected' \subseteq connected \cup {id'[t]}
              \/ /\ KnownTo(t) /\ connected' = connected \ {id[t]} /\ registered' = registered \ {t}
           /\ \/ Register(t) /\ registered' = registered \cup {t} /\ ~AlreadyRegistered(t) /\ id'[t] \in connected'
              \/ registered' = registered \ {t}
              \/ UNCHANGED registered /\ id'[t] = id[t]
  <1> USE DEF outsideVars, ServiceOnly
  <1>0. DaemonUntouched => UNCHANGED connected
    BY DEF DaemonUntouched, clientVars
  <1>1. ASSUME DaemonUntouched \/ UNCHANGED connected, cutOff' = cutOff,
               registered' = registered \ {t} \/ Local(t) \/ UNCHANGED <<registered, id>>
        PROVE  /\ cutOff' = cutOff
               /\ UNCHANGED connected
               /\ registered' = registered \ {t} \/ (UNCHANGED registered /\ id'[t] = id[t])
    BY <1>0, <1>1 DEF Local
  <1>2. CASE Register(t)
    <2>1. ASSUME NEW c \in ClientID, RegisterClient(t, c), id' = [id EXCEPT ![t] = c], registered' = registered \cup {t}
          PROVE  /\ ~AlreadyRegistered(t) /\ connected \ Unresponsive \subseteq connected'
                 /\ connected' \subseteq connected \cup {id'[t]}
                 /\ id'[t] \in connected'
      BY <2>1 DEF RegisterClient, ServiceTypeOK
    <2>2. RegisterRefused(t) => UNCHANGED connected
      BY DEF RegisterRefused
    <2>3. RegisterFailed(t) => /\ ~AlreadyRegistered(t) /\ connected \ Unresponsive \subseteq connected'
                                 /\ connected' \subseteq connected \cup {id'[t]}
      BY DEF RegisterFailed
    <2>4. ProcessEnds(t) => registered' = registered \ {t}
      BY DEF ProcessEnds
    <2> QED
      BY <1>0, <1>2, <2>1, <2>2, <2>3, <2>4 DEF Register, Calling
  <1>3. CASE Unregister(t)
    <2>1. UnregisterClient(id[t]) => connected' = connected \ {id[t]}
      BY DEF UnregisterClient
    <2> QED
      BY <1>0, <1>3, <2>1 DEF Unregister, Calling
  <1>4. CASE ReadSession(t) \/ Listen(t)
    BY <1>1, <1>4 DEF ReadSession, Listen
  <1>5. CASE Report(t)
    BY <1>1, <1>5 DEF Report, Calling, UpdateClientState
  <1>6. CASE ToggleReady(t) \/ Initializing(t) \/ SendConfiguration(t)
    BY <1>1, <1>6 DEF ToggleReady, Initializing, SendConfiguration, Calling, ToggleClientReadyPropertie,
                      GetDeviceProperties, SetDeviceConfig, ClientDevices
  <1>7. CASE ChangeStatus(t)
    <2>1. DaemonUntouched \/ UNCHANGED connected
      BY <1>7 DEF ChangeStatus, Calling, StopDevice, StartDevice, RestartDevice, clientVars
    <2> QED
      BY <1>1, <1>7, <2>1 DEF ChangeStatus, Calling
  <1>8. CASE GetStarted(t) \/ GetStopped(t) \/ CheckStarted(t) \/ CheckStopped(t) \/ CheckUnplugged(t)
    BY <1>1, <1>8 DEF GetStarted, GetStopped, CheckStarted, CheckStopped, CheckUnplugged, Asking
  <1>9. CASE MoveToStarted(t) \/ MoveToStopped(t)
    BY <1>1, <1>9 DEF MoveToStarted, MoveToStopped, Moving
  <1>10. CASE UnplugDevice(t)
    BY <1>1, <1>10 DEF UnplugDevice, Calling, DeleteDeviceConfiguration, ClientDevices
  <1>11. CASE ExitService(t)
    BY <1>1, <1>11 DEF ExitService, ProcessEnds
  <1> QED
    BY <1>2, <1>3, <1>4, <1>5, <1>6, <1>7, <1>8, <1>9, <1>10, <1>11 DEF ServiceCall

LEMMA DaemonConnects ==
    ASSUME DaemonStep
    PROVE  UNCHANGED connected \/ phase' = "exited"
  <1>1. CASE Start \/ UEvent \/ ThreadsCheck
    BY <1>1 DEF Start, UEvent, ThreadsCheck, LeavesClients, clientVars
  <1>2. CASE LeaveLoop \/ Wait \/ Exit
    BY <1>2 DEF LeaveLoop, StartWaiting, Wait, Exit, clientVars
  <1>3. CASE Environment
    BY <1>3 DEF Environment, LeavesClients, clientVars, SigTerm, PrepareForSleep, Suspend, Resume, OnlySleep
  <1> QED
    BY <1>1, <1>2, <1>3 DEF DaemonStep

LEMMA AgreedStep ==
    ASSUME ServiceTypeOK, TypeOK, AllHandlersInv, AgreedInv, [SNext /\ ~Intrudes]_allVars
    PROVE  AgreedInv'
  <1>1. ASSUME NEW t \in Session, ServiceCall(t), ~Intrudes
        PROVE  AgreedInv'
    <2>1. \A s \in Session \ {t} : (s \in registered' <=> s \in registered) /\ id'[s] = id[s]
      BY <1>1, CallApart DEF Apart
    <2>2. /\ cutOff' = cutOff
          /\ \/ UNCHANGED connected
             \/ /\ Register(t) /\ ~AlreadyRegistered(t)
                /\ connected \ Unresponsive \subseteq connected'
             \/ /\ KnownTo(t) /\ connected' = connected \ {id[t]} /\ registered' = registered \ {t}
          /\ \/ Register(t) /\ registered' = registered \cup {t} /\ ~AlreadyRegistered(t) /\ id'[t] \in connected'
             \/ registered' = registered \ {t}
             \/ UNCHANGED registered /\ id'[t] = id[t]
      BY <1>1, CallConnects
    <2>3. Register(t) => t \notin registered
      <3>1. Register(t) => IsLeft(t, "RegisterClient")
        BY CallInHand DEF Register, IsLeft
      <3> QED
        BY <3>1 DEF AllHandlersInv, HandlersInv, RegistersFirst
    <2>4. Register(t) /\ ~AlreadyRegistered(t) => \A s \in registered \ {t} : id[s] \notin Unresponsive /\ id'[t] # id[s]
      BY <1>1 DEF Intrudes, ServiceTypeOK
    <2>5. registered \subseteq Session /\ registered' \subseteq Session
      BY <1>1, <2>2 DEF ServiceTypeOK
    <2>6. KnownTo(t) => t \in registered
      BY UnknownWhenUnregistered
    <2>7. ASSUME NEW s \in Session \ {t}, s \in registered
          PROVE  id'[s] \in connected' \/ s \in cutOff'
      <3>1. id'[s] = id[s] /\ (id[s] \in connected \/ s \in cutOff)
        BY <2>1, <2>7 DEF AgreedInv, RegisteredIsKnown, KnownTo
      <3>2. KnownTo(t) => id[s] # id[t]
        BY <2>6, <2>7 DEF AgreedInv, IDsDiffer
      <3> QED
        BY <2>2, <2>4, <2>7, <3>1, <3>2
    <2>8. t \in registered' => id'[t] \in connected' \/ t \in cutOff'
      <3>1. t \in registered /\ id'[t] = id[t] /\ UNCHANGED registered => id'[t] \in connected' \/ t \in cutOff'
        BY <2>2, <2>3 DEF AgreedInv, RegisteredIsKnown, KnownTo
      <3> QED
        BY <2>2, <3>1
    <2>9. \A s \in Session : RegisteredIsKnown(s)'
      BY <2>1, <2>7, <2>8 DEF RegisteredIsKnown, KnownTo
    <2>10. ASSUME NEW s \in Session \ {t}, s \in registered', t \in registered'
           PROVE  id'[s] # id'[t]
      BY <2>1, <2>2, <2>4, <2>10 DEF AgreedInv, IDsDiffer
    <2>11. IDsDiffer'
      BY <2>1, <2>5, <2>10 DEF AgreedInv, IDsDiffer
    <2> QED
      BY <2>9, <2>11 DEF AgreedInv
  <1>2. ASSUME registered' \subseteq registered, \A s \in registered' : id'[s] = id[s] /\ s \in Session,
               UNCHANGED connected \/ LeftBehind \subseteq cutOff',
               \A s \in registered' : s \in cutOff => s \in cutOff'
        PROVE  AgreedInv'
    <2>1. IDsDiffer'
      BY <1>2 DEF AgreedInv, IDsDiffer
    <2>2. \A s \in Session : RegisteredIsKnown(s)'
      BY <1>2 DEF AgreedInv, RegisteredIsKnown, KnownTo, LeftBehind
    <2> QED
      BY <2>1, <2>2 DEF AgreedInv
  <1>3. DaemonUntouched => UNCHANGED connected
    BY DEF DaemonUntouched, clientVars
  <1>4. registered \subseteq Session
    BY DEF ServiceTypeOK
  <1>5. ASSUME NEW t \in Session, HandleSignal(t) \/ AskRestart(t) \/ SwitchSession(t)
                                  \/ \E d \in Device : GUIRequest(t, d) \/ ReloadFile(t, d)
        PROVE  AgreedInv'
    BY <1>2, <1>3, <1>4, <1>5 DEF HandleSignal, AskRestart, SwitchSession, GUIRequest, ReloadFile, Local,
       ServiceOnly, outsideVars, serviceVars
  <1>6. ASSUME NEW t \in Session, Launch(t)
        PROVE  AgreedInv'
    <2>1. t \notin registered
      BY <1>6 DEF Launch, AllHandlersInv, HandlersInv, StoppedServiceIsClear
    <2> QED
      BY <1>2, <1>3, <1>4, <1>6, <2>1 DEF Launch
  <1>7. ASSUME NEW t \in Session, Crash(t)
        PROVE  AgreedInv'
    <2>1. registered' = registered \ {t} /\ id' = [id EXCEPT ![t] = NoID]
      BY <1>7 DEF Crash, ProcessEnds
    <2>2. \A s \in registered' : id'[s] = id[s]
      BY <2>1 DEF ServiceTypeOK
    <2> QED
      BY <1>2, <1>3, <1>4, <1>7, <2>1, <2>2 DEF Crash, ServiceOnly, outsideVars
  <1>8. CASE DaemonStep
    <2>1. UNCHANGED <<registered, id>>
      BY <1>8 DEF DaemonStep, serviceVars
    <2>2. \A s \in registered : s \in cutOff => s \in LeftBehind
      BY DEF LeftBehind
    <2>3. cutOff' = IF phase' = "exited" THEN LeftBehind ELSE cutOff
      BY <1>8 DEF DaemonStep, NoDaemon
    <2> QED
      BY <1>2, <1>4, <1>8, <2>1, <2>2, <2>3, DaemonConnects
  <1>9. CASE DaemonDies
    <2>1. \A s \in registered : s \in cutOff => s \in LeftBehind
      BY DEF LeftBehind
    <2> QED
      BY <1>2, <1>4, <1>9, <2>1 DEF DaemonDies, serviceVars
  <1>10. CASE StartDaemon
    BY <1>2, <1>4, <1>10 DEF StartDaemon, serviceVars, clientVars
  <1>11. CASE UNCHANGED allVars
    BY <1>2, <1>4, <1>11 DEF allVars, vars, serviceVars, outsideVars
  <1> QED
    BY <1>1, <1>5, <1>6, <1>7, <1>8, <1>9, <1>10, <1>11 DEF SNext

LEMMA AgreedInit == SInit => AgreedInv
  BY DEF SInit, AgreedInv, IDsDiffer, RegisteredIsKnown

(* A service that believes it is registered is known by the daemon, or was *)
(* cut off from the one it had registered with, unless another one that    *)
(* registers takes its place before it has reported.                       *)
THEOREM RegistrationIsAgreed == SSpec /\ [][~Intrudes]_allVars => [](AgreedInv /\ RegistrationAgreed)
  <1>1. ServiceTypeOK /\ TypeOK /\ AllHandlersInv /\ AgreedInv /\ [SNext]_allVars /\ [~Intrudes]_allVars => AgreedInv'
    BY AgreedStep
  <1>2. AgreedInv => AgreedInv /\ RegistrationAgreed
    BY DEF AgreedInv, RegisteredIsKnown, RegistrationAgreed
  <1>3. DaemonInv => TypeOK
    BY DEF DaemonInv
  <1> QED
    BY <1>1, <1>2, <1>3, AgreedInit, ServiceTypeInvariant, HandlersAreOrderly, PTL DEF SSpec

(* With the service of a single user there is none to take its place.      *)
THEOREM LoneServiceIsAgreed ==
    ASSUME \A s, t \in Session : s = t
    PROVE  SSpec => []RegistrationAgreed
  <1>1. ServiceTypeOK => [~Intrudes]_allVars
    BY DEF Intrudes, ServiceTypeOK
  <1> QED
    BY <1>1, ServiceTypeInvariant, RegistrationIsAgreed, PTL

-----------------------------------------------------------------------------
(* The containers.                                                         *)

(* A service that will ask for all devices and has none knows enough.      *)
LEMMA AskingForAll ==
    ASSUME NEW calls, NEW signals, NEW a, NEW b, NEW status, NEW d \in Device,
           \E c \in calls : c.call = "GetStartedDevices", \E c \in calls : c.call = "GetStoppedDevices",
           \A c \in calls : c.call \notin Moves, d \notin a, d \notin b
    PROVE  Knows(calls, signals, a, b, status, d)
  BY DEF Knows, WillAsk, Confirms, Heads, Call, Moves

(* What a service knew, it knows after a call whose answer it got.         *)
LEMMA KnowsAfterCall ==
    ASSUME NEW c, NEW T, NEW C, NEW U, NEW V, U \subseteq V, NEW a, NEW b, NEW x, NEW y, NEW status, NEW d \in Device,
           Knows({c} \cup T, U, a, b, status, d),
           Confirms(c, status, d) => Knows(C \cup T, V, x, y, status, d),
           Heads({c} \cup T, a, b, status, d) => Heads(C \cup T, x, y, status, d)
    PROVE  Knows(C \cup T, V, x, y, status, d)
  BY DEF Knows, WillAsk

(* A call that moves nothing and asks nothing.                             *)
LEMMA KnowsAfterOther ==
    ASSUME NEW c, NEW T, NEW U, NEW V, U \subseteq V, NEW a, NEW b, NEW status, NEW d \in Device,
           Knows({c} \cup T, U, a, b, status, d), c.call \notin Moves \cup Asks
    PROVE  Knows({} \cup T, V, a, b, status, d)
  <1>1. ~Confirms(c, status, d)
    BY DEF Confirms, Asks
  <1>2. c \notin {Call("Start", d), Call("Stop", d), Call("DeleteDeviceConfiguration", d)}
    BY DEF Call, Moves
  <1>3. Heads({c} \cup T, a, b, status, d) => Heads({} \cup T, a, b, status, d)
    BY <1>2 DEF Heads
  <1> QED
    BY <1>1, <1>3, KnowsAfterCall

(* Which phases come before the monitoring. *)
LEMMA MonitoringBefore ==
    ASSUME Next, phase' = "monitoring"
    PROVE  phase \in {"starting", "monitoring"}
  <1>1. CASE Start \/ UEvent \/ ThreadsCheck
    BY <1>1 DEF Start, UEvent, ThreadsCheck, StartMonitoring, HotplugAdd, HotplugRemove, CheckThreads, ReceiveUEvent
  <1>2. CASE ClientCall
    <2>1. ASSUME NEW s \in Session,
                 RegisterRefused(s) \/ RegisterFailed(s) \/ \E c \in ClientID : RegisterClient(s, c)
          PROVE  UNCHANGED phase
      BY <2>1 DEF RegisterRefused, RegisterFailed, RegisterClient, LeavesDevices, OnlyConfig, controlVars
    <2>2. ASSUME NEW c \in ClientID,
                 \/ UnregisterClient(c)
                 \/ \E state \in {"active", "online"} : UpdateClientState(c, state)
                 \/ ToggleClientReadyPropertie(c)
          PROVE  UNCHANGED phase
      BY <2>2 DEF UnregisterClient, UpdateClientState, ToggleClientReadyPropertie, OnlyConfig, controlVars
    <2>3. ASSUME NEW c \in ClientID, NEW d \in Device, NEW opened, NEW kept,
                 \/ StopDevice(c, d)
                 \/ StartDevice(c, d, opened, kept)
                 \/ RestartDevice(c, d, opened, kept)
          PROVE  UNCHANGED phase
      BY <2>3 DEF StopDevice, StartDevice, RestartDevice, controlVars
    <2>4. ASSUME NEW c \in ClientID, NEW d \in Device, NEW v,
                 GetDeviceProperties(c, d) \/ DeleteDeviceConfiguration(c, d) \/ SetDeviceConfig(c, d, v)
          PROVE  UNCHANGED phase
      BY <2>4 DEF GetDeviceProperties, DeleteDeviceConfiguration, SetDeviceConfig, ClientDevices,
                  LeavesDevices, controlVars
    <2> QED
      BY <1>2, <2>1, <2>2, <2>3, <2>4 DEF ClientCall
  <1>3. CASE SleepEvent
    BY <1>3 DEF SleepEvent, GoToSleep, WakeUp, HandleSleepEvent, controlVars
  <1>4. CASE LeaveLoop \/ MonitoringFails \/ Wait \/ Exit
    BY <1>4 DEF LeaveLoop, MonitoringFails, StartWaiting, Wait, Exit, controlVars
  <1>5. CASE Environment
    BY <1>5 DEF Environment, Plug, Unplug, ThreadsGiveUp, SigTerm, PrepareForSleep, Suspend, Resume, OnlySleep,
                LeavesClients, controlVars
  <1>6. CASE Exited
    BY <1>6 DEF Exited, vars
  <1> QED
    BY <1>1, <1>2, <1>3, <1>4, <1>5, <1>6 DEF Next, MainThread

(* A service that is a client after a step was one before, unless it       *)
(* registered.                                                             *)
LEMMA LiveBefore ==
    ASSUME DaemonInv, ServiceTypeOK, AllHandlersInv, SNext, ~Intrudes,
           NEW s \in Session, s \in registered, id'[s] = id[s], Live(s)'
    PROVE  Live(s)
  <1>1. phase' = "monitoring" /\ daemonRunning' /\ id[s] \in connected'
    BY DEF Live, DaemonGoesOn, KnownTo
  <1>2. CASE Next
    <2>1. phase \in {"starting", "monitoring"} /\ daemonRunning
      BY <1>1, <1>2, MonitoringBefore, NoComeback
    <2>2. id[s] \in connected
      <3>1. ASSUME NEW t \in Session, ServiceCall(t)
            PROVE  id[s] \in connected
        <4>1. \/ connected' \subseteq connected
              \/ Register(t) /\ ~AlreadyRegistered(t) /\ connected' \subseteq connected \cup {id'[t]}
          BY <3>1, CallConnects
        <4>2. Register(t) => t \notin registered
          <5>1. Register(t) => IsLeft(t, "RegisterClient")
            BY CallInHand DEF Register, IsLeft
          <5> QED
            BY <5>1 DEF AllHandlersInv, HandlersInv, RegistersFirst
        <4>3. Register(t) /\ ~AlreadyRegistered(t) => id'[t] # id[s]
          BY <4>2 DEF Intrudes
        <4> QED
          BY <1>1, <4>1, <4>3
      <3>2. CASE DaemonStep
        BY <1>1, <3>2, DaemonConnects
      <3>3. CASE DaemonUntouched
        BY <1>1, <3>3 DEF DaemonUntouched, clientVars
      <3>4. CASE DaemonDies \/ StartDaemon
        BY <1>1, <3>4 DEF DaemonDies, StartDaemon
      <3>5. \A t \in Session : HandleSignal(t) \/ Launch(t) \/ AskRestart(t) \/ Crash(t) \/ SwitchSession(t)
                               => DaemonUntouched
        BY DEF HandleSignal, Launch, AskRestart, Crash, SwitchSession, ServiceOnly
      <3>6. \A t \in Session, d \in Device : GUIRequest(t, d) \/ ReloadFile(t, d) => DaemonUntouched
        BY DEF GUIRequest, ReloadFile, ServiceOnly
      <3> QED
        BY <3>1, <3>2, <3>3, <3>4, <3>5, <3>6 DEF SNext
    <2>3. phase # "starting"
      BY <2>2 DEF DaemonInv, NobodyBeforeStart
    <2> QED
      BY <2>1, <2>2, <2>3 DEF Live, DaemonGoesOn, KnownTo
  <1>3. CASE DaemonUntouched
    BY <1>1, <1>3 DEF DaemonUntouched, controlVars, clientVars, Live, DaemonGoesOn, KnownTo
  <1>4. CASE DaemonDies \/ StartDaemon
    BY <1>1, <1>4 DEF DaemonDies, StartDaemon
  <1> QED
    BY <1>2, <1>3, <1>4, DaemonPart DEF DaemonInv

(* When the status of a device changes, a signal announces it.             *)
LEMMA StatusIsAnnounced ==
    ASSUME DaemonInv, FewClients, ServiceTypeOK, SNext, NEW s \in Session, Live(s), Live(s)', NEW d \in Device
    PROVE  \/ DeviceStatus(d)' = DeviceStatus(d)
           \/ ~DaemonUntouched /\ \E signal \in Range(out') : Announces(signal, DeviceStatus(d)', d)
  <1>1. CASE DaemonUntouched
    BY <1>1 DEF DaemonUntouched, deviceVars, DeviceStatus
  <1>2. CASE ~DaemonUntouched /\ Next /\ OtherStep
    <2>1. connected # {} /\ daemonRunning /\ phase' # "exited"
      BY DEF Live, DaemonGoesOn, KnownTo
    <2>2. Silent \/ \E name \in DOMAIN NewStatus, S \in SUBSET Device : Tells(name, S)
      BY <1>2, <2>1, StatusChangesAreTold DEF DaemonInv
    <2>3. CASE Silent
      BY <2>3 DEF Silent, DeviceStatus
    <2>4. ASSUME NEW name \in DOMAIN NewStatus, NEW S \in SUBSET Device, Tells(name, S), d \in S
          PROVE  \E signal \in Range(out') : Announces(signal, DeviceStatus(d)', d)
      <3> DEFINE signal == [name |-> name, devices |-> S]
      <3>1. out' = <<signal>> /\ DeviceStatus(d)' = NewStatus[name]
        BY <2>4 DEF Tells
      <3>2. signal \in Range(<<signal>>)
        BY DEF Range
      <3>3. name \in {"DevicesStarted", "DevicesStopped", "DevicesUnplugged"}
        BY DEF NewStatus
      <3>4. Announces(signal, NewStatus[name], d)
        BY <2>4, <3>3 DEF Announces, NewStatus
      <3> QED
        BY <3>1, <3>2, <3>4
    <2> QED
      BY <1>2, <2>2, <2>3, <2>4 DEF Tells
  <1>3. CASE DaemonDies \/ StartDaemon
    BY <1>3 DEF DaemonDies, StartDaemon, Live, DaemonGoesOn
  <1> QED
    BY <1>1, <1>2, <1>3, DaemonPart DEF DaemonInv

(* While its daemon goes on, the call of a client gets an answer; if no    *)
(* status changes meanwhile, the service knows afterwards what it knew.    *)
LEMMA CallKeepsView ==
    ASSUME DaemonInv, ServiceTypeOK, TypeOK', NEW s \in Session, HandlersInv(s), ServiceCall(s),
           Live(s), s \in registered', ~IsLeft(s, "UnregisterClient"), NEW d \in Device,
           Knows(Left(s), Unread(s), startedHere[s], stoppedHere[s], DeviceStatus(d), d)
    PROVE  Knows(Left(s)', Unread(s)', startedHere'[s], stoppedHere'[s], DeviceStatus(d), d)
  <1> DEFINE T == Range(Tail(todo[s]))
             c == Current(s)
             e == c.device
             status == DeviceStatus(d)
  <1>0. (DaemonAnswers /\ KnownTo(s)) \/ ~Replied
    BY DEF Live, DaemonGoesOn, Replied, NoDaemon
  <1>1. ASSUME NEW name, Doing(s, name), NEW q, NEW C, Makes(q, C), Then(s, q)
        PROVE  /\ c.call = name /\ Left(s) = {c} \cup T /\ Left(s)' = C \cup T
               /\ Unread(s) \subseteq Unread(s)'
    <2>1. Unread(s)' = Range(Delivered(out')[s])
      BY <1>1, ThenMakes DEF Unread
    <2>2. Unread(s) \subseteq Range(Delivered(out')[s])
      BY DeliveredType
    <2> QED
      BY <1>1, <2>1, <2>2, CallInHand, ThenMakes
  <1>2. ASSUME NEW name, Doing(s, name)
        PROVE  /\ \A x \in T : x \in Left(s) /\ Before(c, x)
               /\ name \in Asks => Call("Start", d) \notin T /\ Call("Stop", d) \notin T
                                   /\ Call("DeleteDeviceConfiguration", d) \notin T
               /\ name = "DeleteDeviceConfiguration" => Call("Start", d) \notin T /\ Call("Stop", d) \notin T
               /\ name \in DeviceCalls => e \in Device /\ c = Call(name, e)
    <2>1. \A x \in T : x \in Left(s) /\ Before(c, x)
      BY <1>2, WhatFollows DEF HandlersInv
    <2>2. name \in DeviceCalls => e \in Device /\ c = Call(name, e)
      BY <1>2, CallInHand
    <2>3. c.call = name
      BY <1>2, CallInHand
    <2>4. /\ name \in Asks => Rank(c) = 4
          /\ name = "DeleteDeviceConfiguration" => Rank(c) = 2
          /\ Rank(Call("Start", d)) = 1 /\ Rank(Call("Stop", d)) = 1
          /\ Rank(Call("DeleteDeviceConfiguration", d)) = 2
      BY <2>3 DEF Rank, Asks, Call
    <2> HIDE DEF T, c, e
    <2> QED
      BY <2>1, <2>2, <2>4 DEF Before
  <1>3. Makes(<<>>, {})
    BY NothingMore
  <1>4. ASSUME NEW name \in {"Get", "UpdateClientState", "AddMatch", "ToggleClientReadyPropertie", "GetDeviceProperties",
                             "SetDeviceBacklightColor", "StopDevice", "StartDevice", "RestartDevice"},
               Doing(s, name), Then(s, <<>>), UNCHANGED <<startedHere, stoppedHere>>
        PROVE  Knows(Left(s)', Unread(s)', startedHere'[s], stoppedHere'[s], status, d)
    <2>1. /\ c.call = name /\ Left(s) = {c} \cup T /\ Left(s)' = {} \cup T
          /\ Unread(s) \subseteq Unread(s)'
      BY <1>1, <1>3, <1>4
    <2>2. c.call \notin Moves \cup Asks
      BY <2>1 DEF Moves, Asks
    <2> HIDE DEF c, T, status
    <2>3. Knows({} \cup T, Unread(s)', startedHere[s], stoppedHere[s], status, d)
      BY <2>1, <2>2, KnowsAfterOther DEF status
    <2> QED
      BY <1>4, <2>1, <2>3
  <1>5. CASE ReadSession(s) \/ Listen(s)
    BY <1>4, <1>5 DEF ReadSession, Listen
  <1>6. CASE Report(s) \/ ToggleReady(s) \/ Initializing(s) \/ SendConfiguration(s) \/ ChangeStatus(s)
    BY <1>4, <1>6 DEF Report, ToggleReady, Initializing, SendConfiguration, ChangeStatus, Local
  <1>7. ~Register(s) /\ ~ExitService(s)
    <2>1. Register(s) => IsLeft(s, "RegisterClient")
      BY CallInHand DEF Register, IsLeft
    <2>2. s \in registered
      BY DEF Live
    <2>3. ~Register(s)
      BY <2>1, <2>2 DEF HandlersInv, RegistersFirst
    <2> QED
      BY <2>3 DEF ExitService, ProcessEnds
  <1>8. ~Unregister(s)
    BY CallInHand DEF Unregister, IsLeft
  (* The questions. *)
  <1>9. ASSUME NEW name \in Asks, Doing(s, name), NEW q, NEW C, Makes(q, C), Then(s, q), Local(s),
               Confirms(c, status, d) =>
                 ((\E x \in C : Confirms(x, status, d)) \/ Heads(C \cup T, startedHere[s], stoppedHere[s], status, d)),
               \/ Heads(C \cup T, startedHere[s], stoppedHere[s], status, d)
               \/ \A x \in C : x \notin {Call("Start", d), Call("Stop", d), Call("DeleteDeviceConfiguration", d)}
        PROVE  Knows(Left(s)', Unread(s)', startedHere'[s], stoppedHere'[s], status, d)
    <2>1. /\ c.call = name /\ Left(s) = {c} \cup T /\ Left(s)' = C \cup T
          /\ Unread(s) \subseteq Unread(s)'
      BY <1>1, <1>9
    <2>2. UNCHANGED <<startedHere, stoppedHere>>
      BY <1>9 DEF Local
    <2>3. c \notin {Call("Start", d), Call("Stop", d), Call("DeleteDeviceConfiguration", d)}
      BY <2>1 DEF Call, Asks
    <2> HIDE DEF c, T, status
    <2>4. Confirms(c, status, d) => Knows(C \cup T, Unread(s)', startedHere[s], stoppedHere[s], status, d)
      BY <1>9 DEF Knows, WillAsk
    <2>5. Heads({c} \cup T, startedHere[s], stoppedHere[s], status, d)
             => Heads(C \cup T, startedHere[s], stoppedHere[s], status, d)
      BY <1>9, <2>3 DEF Heads
    <2>6. Knows({c} \cup T, Unread(s), startedHere[s], stoppedHere[s], status, d)
      BY <2>1 DEF status
    <2>7. Knows(C \cup T, Unread(s)', startedHere[s], stoppedHere[s], status, d)
      BY <2>1, <2>4, <2>5, <2>6, KnowsAfterCall
    <2> QED
      BY <2>1, <2>2, <2>7
  <1>10. CASE GetStarted(s)
    <2> DEFINE q == CallEach("IsStarted", started) \o ReportIfActive(s)
               C == {Call("IsStarted", x) : x \in started} \cup IF sessionState[s] = "active" THEN {ReportCall} ELSE {}
    <2>1. Doing(s, "GetStartedDevices") /\ Local(s) /\ Then(s, q)
      BY <1>0, <1>10 DEF GetStarted, Asking
    <2>2. Makes(q, C)
      BY AskedMakes DEF DaemonInv
    <2>3. \A x \in C : x \notin {Call("Start", d), Call("Stop", d), Call("DeleteDeviceConfiguration", d)}
      BY DEF Call, ReportCall
    <2>4. c = Call("GetStartedDevices", NoDevice)
      BY <2>1, CallInHand DEF DeviceCalls
    <2>5. Confirms(c, status, d) => \E x \in C : Confirms(x, status, d)
      <3>1. status = "started" => d \in started
        BY DEF DeviceStatus
      <3>2. Confirms(c, status, d) => status = "started"
        BY <2>4 DEF Confirms, Call
      <3>3. d \in started => Call("IsStarted", d) \in C
        OBVIOUS
      <3>4. status = "started" => Confirms(Call("IsStarted", d), status, d)
        BY DEF Confirms, Call
      <3> QED
        BY <3>1, <3>2, <3>3, <3>4
    <2> HIDE DEF q, C, c, T, status
    <2> QED
      BY <1>9, <2>1, <2>2, <2>3, <2>5 DEF Asks, status
  <1>11. CASE GetStopped(s)
    <2> DEFINE q == CallEach("IsStopped", stopped)
               C == {Call("IsStopped", x) : x \in stopped}
    <2>1. Doing(s, "GetStoppedDevices") /\ Local(s) /\ Then(s, q)
      BY <1>0, <1>11 DEF GetStopped, Asking
    <2>2. Makes(q, C)
      BY AskedMakes DEF DaemonInv
    <2>3. \A x \in C : x \notin {Call("Start", d), Call("Stop", d), Call("DeleteDeviceConfiguration", d)}
      BY DEF Call
    <2>4. c = Call("GetStoppedDevices", NoDevice)
      BY <2>1, CallInHand DEF DeviceCalls
    <2>5. Confirms(c, status, d) => \E x \in C : Confirms(x, status, d)
      <3>1. status = "stopped" => d \in stopped
        BY DEF DeviceStatus
      <3>2. Confirms(c, status, d) => status = "stopped"
        BY <2>4 DEF Confirms, Call
      <3>3. d \in stopped => Call("IsStopped", d) \in C
        OBVIOUS
      <3>4. status = "stopped" => Confirms(Call("IsStopped", d), status, d)
        BY DEF Confirms, Call
      <3> QED
        BY <3>1, <3>2, <3>3, <3>4
    <2> HIDE DEF q, C, c, T, status
    <2> QED
      BY <1>9, <2>1, <2>2, <2>3, <2>5 DEF Asks, status
  <1>12. Disjoint(s) /\ OneWay(s)
    BY DEF HandlersInv
  <1>13. CASE CheckStarted(s)
    <2>1. Doing(s, "IsStarted") /\ Local(s) /\ e \in Device
      BY <1>13, CallInHand DEF CheckStarted, DeviceCalls
    <2>2. Replied /\ StatusSaid(s, e) = DeviceStatus(e)
      BY <1>0, <1>13 DEF CheckStarted, Asking, StatusSaid
    <2>3. /\ Makes(<<Call("Start", e)>>, {Call("Start", e)})
          /\ Makes(Initialize(e, "Start"), InitializeCalls(e, "Start"))
      BY <2>1, MoveMakes, InitializeMakes DEF DeviceCalls
    <2>4. c = Call("IsStarted", e)
      BY <1>2, <2>1 DEF DeviceCalls
    <2>5. /\ Call("Start", d) \notin T /\ Call("Stop", d) \notin T /\ Call("DeleteDeviceConfiguration", d) \notin T
      BY <1>2, <2>1 DEF Asks
    <2>6. Confirms(c, status, d) <=> d = e /\ status = "started"
      BY <2>4 DEF Confirms, Call
    <2>7. CASE Then(s, <<>>) /\ (DeviceStatus(e) # "started" \/ e \in startedHere[s])
      <3>1. Confirms(c, status, d) => Heads({} \cup T, startedHere[s], stoppedHere[s], status, d)
        BY <1>12, <2>5, <2>6, <2>7 DEF Heads, Disjoint
      <3> HIDE DEF c, T, status, e
      <3> QED
        BY <1>3, <1>9, <2>1, <2>7, <3>1 DEF Asks, status
    <2>8. ASSUME NEW q, NEW C, Then(s, q), Makes(q, C), DeviceStatus(e) = "started",
                 C \in {{Call("Start", e)}, InitializeCalls(e, "Start")}
          PROVE  Knows(Left(s)', Unread(s)', startedHere'[s], stoppedHere'[s], status, d)
      <3>1. d = e => Heads(C \cup T, startedHere[s], stoppedHere[s], status, d)
        <4>1. Call("Start", e) \in C /\ Call("DeleteDeviceConfiguration", e) \notin C
          BY <2>8 DEF InitializeCalls, Call
        <4> QED
          BY <2>5, <2>8, <4>1 DEF Heads
      <3>2. d # e => \A x \in C : x \notin {Call("Start", d), Call("Stop", d), Call("DeleteDeviceConfiguration", d)}
        BY <2>8 DEF InitializeCalls, Call
      <3> HIDE DEF c, T, status, e
      <3> QED
        BY <1>9, <2>1, <2>6, <2>8, <3>1, <3>2 DEF Asks, status
    <2> QED
      BY <1>13, <2>2, <2>3, <2>7, <2>8 DEF CheckStarted
  <1>14. CASE CheckStopped(s)
    <2>1. Doing(s, "IsStopped") /\ Local(s) /\ e \in Device
      BY <1>14, CallInHand DEF CheckStopped, DeviceCalls
    <2>2. Replied /\ StatusSaid(s, e) = DeviceStatus(e)
      BY <1>0, <1>14 DEF CheckStopped, Asking, StatusSaid
    <2>3. /\ Makes(<<Call("Stop", e)>>, {Call("Stop", e)})
          /\ Makes(Initialize(e, "Stop"), InitializeCalls(e, "Stop"))
      BY <2>1, MoveMakes, InitializeMakes DEF DeviceCalls
    <2>4. c = Call("IsStopped", e)
      BY <1>2, <2>1 DEF DeviceCalls
    <2>5. /\ Call("Start", d) \notin T /\ Call("Stop", d) \notin T /\ Call("DeleteDeviceConfiguration", d) \notin T
      BY <1>2, <2>1 DEF Asks
    <2>6. Confirms(c, status, d) <=> d = e /\ status = "stopped"
      BY <2>4 DEF Confirms, Call
    <2>7. CASE Then(s, <<>>) /\ (DeviceStatus(e) # "stopped" \/ e \in stoppedHere[s])
      <3>1. Confirms(c, status, d) => Heads({} \cup T, startedHere[s], stoppedHere[s], status, d)
        BY <1>12, <2>5, <2>6, <2>7 DEF Heads, Disjoint
      <3> HIDE DEF c, T, status, e
      <3> QED
        BY <1>3, <1>9, <2>1, <2>7, <3>1 DEF Asks, status
    <2>8. ASSUME NEW q, NEW C, Then(s, q), Makes(q, C), DeviceStatus(e) = "stopped",
                 C \in {{Call("Stop", e)}, InitializeCalls(e, "Stop")}
          PROVE  Knows(Left(s)', Unread(s)', startedHere'[s], stoppedHere'[s], status, d)
      <3>1. d = e => Heads(C \cup T, startedHere[s], stoppedHere[s], status, d)
        <4>1. Call("Stop", e) \in C /\ Call("DeleteDeviceConfiguration", e) \notin C /\ Call("Start", e) \notin C
          BY <2>8 DEF InitializeCalls, Call
        <4> QED
          BY <2>5, <2>8, <4>1 DEF Heads
      <3>2. d # e => \A x \in C : x \notin {Call("Start", d), Call("Stop", d), Call("DeleteDeviceConfiguration", d)}
        BY <2>8 DEF InitializeCalls, Call
      <3> HIDE DEF c, T, status, e
      <3> QED
        BY <1>9, <2>1, <2>6, <2>8, <3>1, <3>2 DEF Asks, status
    <2> QED
      BY <1>14, <2>2, <2>3, <2>7, <2>8 DEF CheckStopped
  <1>15. CASE CheckUnplugged(s)
    <2> DEFINE forget == <<Call("GetDeviceProperties", e), Call("Stop", e), Call("DeleteDeviceConfiguration", e)>>
    <2>1. Doing(s, "IsUnplugged") /\ Local(s) /\ e \in Device
      BY <1>15, CallInHand DEF CheckUnplugged, DeviceCalls
    <2>2. Replied /\ StatusSaid(s, e) = DeviceStatus(e)
      BY <1>0, <1>15 DEF CheckUnplugged, Asking, StatusSaid
    <2>3. /\ Makes(<<Call("DeleteDeviceConfiguration", e)>>, {Call("DeleteDeviceConfiguration", e)})
          /\ Makes(forget, ForgetCalls(e))
      BY <2>1, MoveMakes, ForgetMakes DEF DeviceCalls
    <2>4. c = Call("IsUnplugged", e)
      BY <1>2, <2>1 DEF DeviceCalls
    <2>6. Confirms(c, status, d) <=> d = e /\ status = "unplugged"
      BY <2>4 DEF Confirms, Call
    <2>7. CASE Then(s, <<>>) /\ DeviceStatus(e) # "unplugged"
      <3>1. ~Confirms(c, status, d)
        BY <2>6, <2>7
      <3> HIDE DEF c, T, status, e
      <3> QED
        BY <1>3, <1>9, <2>1, <2>7, <3>1 DEF Asks, status
    <2>8. ASSUME NEW q, NEW C, Then(s, q), Makes(q, C), DeviceStatus(e) = "unplugged",
                 C \in {{Call("DeleteDeviceConfiguration", e)}, ForgetCalls(e)}
          PROVE  Knows(Left(s)', Unread(s)', startedHere'[s], stoppedHere'[s], status, d)
      <3>1. d = e => Heads(C \cup T, startedHere[s], stoppedHere[s], status, d)
        BY <2>8 DEF Heads, ForgetCalls
      <3>2. d # e => \A x \in C : x \notin {Call("Start", d), Call("Stop", d), Call("DeleteDeviceConfiguration", d)}
        BY <2>8 DEF ForgetCalls, Call
      <3> HIDE DEF c, T, status, e
      <3> QED
        BY <1>9, <2>1, <2>6, <2>8, <3>1, <3>2 DEF Asks, status
    <2> HIDE DEF forget
    <2> QED
      BY <1>15, <2>2, <2>3, <2>7, <2>8 DEF CheckUnplugged, forget
  (* The moves. *)
  <1>16. ASSUME NEW name \in Moves, Doing(s, name), Then(s, <<>>),
                Heads({c} \cup T, startedHere[s], stoppedHere[s], status, d)
                  => Heads({} \cup T, startedHere'[s], stoppedHere'[s], status, d)
         PROVE  Knows(Left(s)', Unread(s)', startedHere'[s], stoppedHere'[s], status, d)
    <2>1. /\ c.call = name /\ Left(s) = {c} \cup T /\ Left(s)' = {} \cup T
          /\ Unread(s) \subseteq Unread(s)'
      BY <1>1, <1>3, <1>16
    <2>2. ~Confirms(c, status, d)
      BY <2>1 DEF Confirms, Moves
    <2>4. Knows({c} \cup T, Unread(s), startedHere[s], stoppedHere[s], status, d)
      BY <2>1 DEF status
    <2> HIDE DEF c, T, status
    <2>3. Knows({} \cup T, Unread(s)', startedHere'[s], stoppedHere'[s], status, d)
      BY <1>16, <2>1, <2>2, <2>4, KnowsAfterCall
    <2> QED
      BY <2>1, <2>3
  <1>17. startedHere \in [Session -> SUBSET Device] /\ stoppedHere \in [Session -> SUBSET Device]
    BY DEF ServiceTypeOK
  <1>18. CASE MoveToStarted(s)
    <2>1. /\ Doing(s, "Start") /\ Then(s, <<>>)
          /\ startedHere' = [startedHere EXCEPT ![s] = @ \cup {e}]
          /\ stoppedHere' = [stoppedHere EXCEPT ![s] = @ \ {e}]
      BY <1>18 DEF MoveToStarted, Moving
    <2>2. c = Call("Start", e) /\ Left(s) = {c} \cup T
      BY <2>1, CallInHand DEF DeviceCalls
    <2>3. ~(Call("Start", d) \in {c} \cup T /\ Call("Stop", d) \in {c} \cup T)
      BY <1>12, <2>2 DEF OneWay
    <2>4. Call("Start", e) # Call("DeleteDeviceConfiguration", d) /\ Call("Start", e) # Call("Stop", d)
          /\ (Call("Start", e) = Call("Start", d) <=> d = e)
      BY DEF Call
    <2>5. startedHere'[s] = startedHere[s] \cup {e} /\ stoppedHere'[s] = stoppedHere[s] \ {e}
      BY <1>17, <2>1
    <2> HIDE DEF c, T, status, e
    <2>6. Heads({c} \cup T, startedHere[s], stoppedHere[s], status, d)
             => Heads({} \cup T, startedHere'[s], stoppedHere'[s], status, d)
      BY <2>2, <2>3, <2>4, <2>5 DEF Heads
    <2> QED
      BY <1>16, <2>1, <2>6 DEF Moves, status
  <1>19. CASE MoveToStopped(s)
    <2>1. /\ Doing(s, "Stop") /\ Then(s, <<>>)
          /\ stoppedHere' = [stoppedHere EXCEPT ![s] = @ \cup {e}]
          /\ startedHere' = [startedHere EXCEPT ![s] = @ \ {e}]
      BY <1>19 DEF MoveToStopped, Moving
    <2>2. c = Call("Stop", e) /\ Left(s) = {c} \cup T
      BY <2>1, CallInHand DEF DeviceCalls
    <2>3. ~(Call("Start", d) \in {c} \cup T /\ Call("Stop", d) \in {c} \cup T)
      BY <1>12, <2>2 DEF OneWay
    <2>4. Call("Stop", e) # Call("DeleteDeviceConfiguration", d) /\ Call("Stop", e) # Call("Start", d)
          /\ (Call("Stop", e) = Call("Stop", d) <=> d = e)
      BY DEF Call
    <2>5. stoppedHere'[s] = stoppedHere[s] \cup {e} /\ startedHere'[s] = startedHere[s] \ {e}
      BY <1>17, <2>1
    <2> HIDE DEF c, T, status, e
    <2>6. Heads({c} \cup T, startedHere[s], stoppedHere[s], status, d)
             => Heads({} \cup T, startedHere'[s], stoppedHere'[s], status, d)
      BY <2>2, <2>3, <2>4, <2>5 DEF Heads
    <2> QED
      BY <1>16, <2>1, <2>6 DEF Moves, status
  <1>20. CASE UnplugDevice(s)
    <2>1. /\ Doing(s, "DeleteDeviceConfiguration") /\ Then(s, <<>>)
          /\ startedHere' = [startedHere EXCEPT ![s] = @ \ {e}]
          /\ stoppedHere' = [stoppedHere EXCEPT ![s] = @ \ {e}]
      BY <1>20 DEF UnplugDevice
    <2>2. c = Call("DeleteDeviceConfiguration", e) /\ Left(s) = {c} \cup T
      BY <2>1, CallInHand DEF DeviceCalls
    <2>3. Call("Start", d) \notin T /\ Call("Stop", d) \notin T
      BY <1>2, <2>1
    <2>4. Call("DeleteDeviceConfiguration", e) # Call("Stop", d) /\ Call("DeleteDeviceConfiguration", e) # Call("Start", d)
          /\ (Call("DeleteDeviceConfiguration", e) = Call("DeleteDeviceConfiguration", d) <=> d = e)
      BY DEF Call
    <2>5. stoppedHere'[s] = stoppedHere[s] \ {e} /\ startedHere'[s] = startedHere[s] \ {e}
      BY <1>17, <2>1
    <2> HIDE DEF c, T, status, e
    <2>6. Heads({c} \cup T, startedHere[s], stoppedHere[s], status, d)
             => Heads({} \cup T, startedHere'[s], stoppedHere'[s], status, d)
      BY <2>2, <2>3, <2>4, <2>5 DEF Heads
    <2> QED
      BY <1>16, <2>1, <2>6 DEF Moves, status
  <1> QED
    BY <1>5, <1>6, <1>7, <1>8, <1>10, <1>11, <1>13, <1>14, <1>15, <1>18, <1>19, <1>20 DEF ServiceCall

(* What a call of a service that stays registered leaves to do and to hear. *)
CallLeft(s) ==
    /\ Left(s) = {Current(s)} \cup Range(Tail(todo[s]))
    /\ Range(Tail(todo[s])) \subseteq Left(s)'
    /\ Unread(s)' = Unread(s) \cup IF s \in listening THEN Range(out') ELSE {}

LEMMA CallLeaves ==
    ASSUME ServiceTypeOK, TypeOK, TypeOK', NEW s \in Session, ServiceCall(s), s \in registered'
    PROVE  CallLeft(s)
  <1> DEFINE d == Current(s).device
  <1>0. ASSUME NEW q, NEW C, Makes(q, C), Then(s, q), NEW name, Doing(s, name)
        PROVE  CallLeft(s)
    BY <1>0, CallInHand, ThenMakes, DeliveredType DEF Unread, CallLeft
  <1>1. ASSUME NEW name, Doing(s, name), Then(s, <<>>)
        PROVE  CallLeft(s)
    BY <1>0, <1>1, NothingMore
  <1>2. CASE ProcessEnds(s)
    BY <1>2 DEF ProcessEnds
  <1>3. CASE Register(s) \/ ReadSession(s) \/ Listen(s) \/ Unregister(s) \/ ExitService(s)
    BY <1>1, <1>2, <1>3 DEF Register, ReadSession, Listen, Unregister, ExitService
  <1>4. CASE Report(s) \/ ToggleReady(s) \/ Initializing(s) \/ SendConfiguration(s) \/ ChangeStatus(s)
    BY <1>1, <1>4 DEF Report, ToggleReady, Initializing, SendConfiguration, ChangeStatus
  <1>5. CASE MoveToStarted(s) \/ MoveToStopped(s) \/ UnplugDevice(s)
    BY <1>1, <1>5 DEF MoveToStarted, MoveToStopped, Moving, UnplugDevice
  <1>6. CASE GetStarted(s) \/ GetStopped(s)
    BY <1>0, <1>1, <1>6, AskedMakes DEF GetStarted, GetStopped
  <1>7. ASSUME NEW name \in DeviceCalls, Doing(s, name)
        PROVE  d \in Device
    BY <1>7, CallInHand
  <1>8. d \in Device => \A name \in DeviceCalls : Makes(<<Call(name, d)>>, {Call(name, d)})
    BY MoveMakes
  <1>9. CASE CheckStarted(s)
    <2>1. Doing(s, "IsStarted") /\ d \in Device
      BY <1>7, <1>9 DEF CheckStarted, DeviceCalls
    <2> QED
      BY <1>0, <1>1, <1>8, <1>9, <2>1, InitializeMakes DEF CheckStarted, DeviceCalls
  <1>10. CASE CheckStopped(s)
    <2>1. Doing(s, "IsStopped") /\ d \in Device
      BY <1>7, <1>10 DEF CheckStopped, DeviceCalls
    <2> QED
      BY <1>0, <1>1, <1>8, <1>10, <2>1, InitializeMakes DEF CheckStopped, DeviceCalls
  <1>11. CASE CheckUnplugged(s)
    <2>1. Doing(s, "IsUnplugged") /\ d \in Device
      BY <1>7, <1>11 DEF CheckUnplugged, DeviceCalls
    <2> QED
      BY <1>0, <1>1, <1>8, <1>11, <2>1, ForgetMakes DEF CheckUnplugged, DeviceCalls
  <1> QED
    BY <1>3, <1>4, <1>5, <1>6, <1>9, <1>10, <1>11 DEF ServiceCall

(* Only declaring them makes a service hear signals. *)
LEMMA WhoListens ==
    ASSUME ServiceTypeOK, NEW s \in Session, ServiceCall(s), s \in listening'
    PROVE  s \in listening \/ DaemonUntouched
  <1>1. CASE UNCHANGED listening \/ ProcessEnds(s)
    BY <1>1 DEF ProcessEnds
  <1>2. CASE Listen(s) \/ Register(s) \/ ReadSession(s) \/ Unregister(s) \/ ExitService(s)
    BY <1>1, <1>2 DEF Listen, ServiceOnly, Register, ReadSession, Unregister, ExitService
  <1>3. CASE Report(s) \/ ToggleReady(s) \/ Initializing(s) \/ SendConfiguration(s) \/ ChangeStatus(s)
    BY <1>1, <1>3 DEF Report, ToggleReady, Initializing, SendConfiguration, ChangeStatus, Local
  <1>4. CASE MoveToStarted(s) \/ MoveToStopped(s) \/ UnplugDevice(s)
    BY <1>1, <1>4 DEF MoveToStarted, MoveToStopped, Moving, UnplugDevice
  <1>5. CASE GetStarted(s) \/ GetStopped(s) \/ CheckStarted(s) \/ CheckStopped(s) \/ CheckUnplugged(s)
    BY <1>1, <1>5 DEF GetStarted, GetStopped, CheckStarted, CheckStopped, CheckUnplugged, Local
  <1> QED
    BY <1>2, <1>3, <1>4, <1>5 DEF ServiceCall

(* The call that unregisters the service is Unregister().                  *)
LEMMA OnlyUnregister ==
    ASSUME NEW s \in Session, ServiceCall(s), ~Unregister(s)
    PROVE  Current(s).call # "UnregisterClient"
  BY DEF ServiceCall, Doing, Register, ReadSession, Report, Listen, GetStarted, ToggleReady, GetStopped, CheckStarted,
         CheckStopped, CheckUnplugged, Initializing, SendConfiguration, MoveToStarted, MoveToStopped, Moving,
         UnplugDevice, ExitService, ChangeStatus

(* The service asks the daemon.                                            *)
LEMMA ViewCall ==
    ASSUME DaemonInv, DaemonInv', FewClients, ServiceTypeOK, AllHandlersInv, AllHandlersInv', SNext, ~Intrudes,
           NEW s \in Session, ViewInv(s), ServiceCall(s)
    PROVE  ViewInv(s)'
  <1> SUFFICES ASSUME Live(s)', ~IsLeft(s, "UnregisterClient")', NEW d \in Device
               PROVE  Knows(Left(s)', Unread(s)', startedHere'[s], stoppedHere'[s], DeviceStatus(d)', d)
    BY DEF ViewInv
  <1>0. /\ TypeOK /\ TypeOK' /\ HandlersInv(s) /\ s \in registered' /\ HandlersInv(s)'
    BY DEF DaemonInv, AllHandlersInv, Live
  <1>1. CallLeft(s)
    BY <1>0, CallLeaves
  <1>2. CASE Register(s)
    <2>1. /\ Doing(s, "RegisterClient") /\ Then(s, <<>>) /\ UNCHANGED <<startedHere, stoppedHere>>
      BY <1>0, <1>2 DEF Register, ProcessEnds
    <2>2. /\ Current(s).call = "RegisterClient" /\ Left(s)' = {} \cup Range(Tail(todo[s]))
          /\ IsLeft(s, "RegisterClient")
      BY <1>1, <2>1, CallInHand, ThenMakes, NothingMore DEF CallLeft, IsLeft
    <2>3. s \notin registered /\ AsksAll(s) /\ Handled(s) = {} /\ NoMoves(s)
      BY <1>0, <2>2 DEF HandlersInv, RegistersFirst, UnregisteredIsClear
    <2>4. AsksAll(s)' /\ NoMoves(s)'
      BY <1>1, <2>2, <2>3 DEF AsksAll, IsLeft, NoMoves, CallLeft
    <2> QED
      BY <2>1, <2>3, <2>4, AskingForAll DEF AsksAll, IsLeft, Handled, NoMoves
  <1>3. CASE ~Register(s)
    <2>1. s \in registered /\ id'[s] = id[s]
      BY <1>0, <1>3, CallConnects
    <2>2. Live(s)
      BY <2>1, LiveBefore
    <2>3. ~Unregister(s)
      BY <1>0, <2>2 DEF Unregister, Calling, Live, DaemonGoesOn, Replied, NoDaemon
    <2>4. ~IsLeft(s, "UnregisterClient")
      <3>1. Current(s).call # "UnregisterClient"
        BY <2>3, OnlyUnregister
      <3> QED
        BY <1>1, <3>1 DEF CallLeft, IsLeft
    <2>5. Knows(Left(s), Unread(s), startedHere[s], stoppedHere[s], DeviceStatus(d), d)
      BY <2>2, <2>4 DEF ViewInv
    <2>6. Knows(Left(s)', Unread(s)', startedHere'[s], stoppedHere'[s], DeviceStatus(d), d)
      BY <1>0, <2>2, <2>4, <2>5, CallKeepsView
    <2>7. CASE DeviceStatus(d)' = DeviceStatus(d)
      BY <2>6, <2>7
    <2>8. CASE ~DaemonUntouched /\ \E signal \in Range(out') : Announces(signal, DeviceStatus(d)', d)
      <3>1. CASE s \in listening
        BY <1>1, <2>8, <3>1 DEF CallLeft, Knows, WillAsk
      <3>2. CASE s \notin listening
        <4>1. s \notin listening'
          BY <2>8, <3>2, WhoListens
        <4> DEFINE status == DeviceStatus(d)'
        <4>2. AsksAll(s)' /\ Handled(s)' = {} /\ NoMoves(s)'
          BY <1>0, <4>1 DEF HandlersInv, StoppedServiceIsClear, ListensBeforeAsking
        <4> HIDE DEF status
        <4>3. Knows(Left(s)', Unread(s)', startedHere'[s], stoppedHere'[s], status, d)
          BY <4>2, AskingForAll DEF AsksAll, IsLeft, Handled, NoMoves
        <4> QED
          BY <4>3 DEF status
      <3> QED
        BY <3>1, <3>2
    <2> QED
      BY <2>2, <2>7, <2>8, StatusIsAnnounced
  <1> QED
    BY <1>2, <1>3

(* A signal is handled, a request is made, or the service is asked to end. *)
LEMMA ViewEvent ==
    ASSUME DaemonInv, ServiceTypeOK, AllHandlersInv, SNext, ~Intrudes,
           NEW s \in Session, ViewInv(s), OwnEvent(s)
    PROVE  ViewInv(s)'
  <1> SUFFICES ASSUME Live(s)', ~IsLeft(s, "UnregisterClient")', NEW d \in Device
               PROVE  Knows(Left(s)', Unread(s)', startedHere'[s], stoppedHere'[s], DeviceStatus(d)', d)
    BY DEF ViewInv
  <1> DEFINE status == DeviceStatus(d)
  <1>0. HandlersInv(s) /\ s \in registered'
    BY DEF AllHandlersInv, Live
  <1>1. ~Crash(s) /\ ~Launch(s)
    BY <1>0 DEF Crash, ProcessEnds, Launch, HandlersInv, StoppedServiceIsClear
  <1>2. /\ Idle(s) /\ DaemonUntouched
        /\ UNCHANGED <<registered, id, startedHere, stoppedHere>>
    BY <1>1 DEF OwnEvent, HandleSignal, AskRestart, GUIRequest, ReloadFile, Local, ServiceOnly
  <1>3. Left(s) = {}
    BY <1>0, <1>2, IdleListens
  <1>4. DeviceStatus(d)' = status
    BY <1>2 DEF DaemonUntouched, deviceVars, DeviceStatus
  <1>5. Knows({}, Unread(s), startedHere[s], stoppedHere[s], status, d)
    <2>1. Live(s)
      BY <1>0, <1>2, LiveBefore
    <2> QED
      BY <1>3, <2>1 DEF ViewInv, IsLeft
  <1>6. ASSUME NEW C, Left(s)' = C, \A x \in C : x.call \notin Moves,
               NEW V, V \subseteq Unread(s)',
               \A signal \in Unread(s) : Announces(signal, status, d)
                 => signal \in V \/ \E x \in C : Confirms(x, status, d)
        PROVE  Knows(Left(s)', Unread(s)', startedHere'[s], stoppedHere'[s], DeviceStatus(d)', d)
    <2>1. {Call("Start", d), Call("Stop", d), Call("DeleteDeviceConfiguration", d)} \cap C = {}
      BY <1>6 DEF Moves, Call
    <2>2. Knows(C, Unread(s)', startedHere[s], stoppedHere[s], status, d)
      <3> HIDE DEF status
      <3> QED
        BY <1>5, <1>6, <2>1 DEF Knows, WillAsk, Heads
    <2> QED
      BY <1>2, <1>4, <1>6, <2>2
  <1>7. CASE HandleSignal(s)
    <2> DEFINE signal == Head(inbox[s])
               C == SignalCalls(s, signal)
    <2>1. inbox[s] # <<>> /\ todo'[s] = HandlerOf(s, signal) /\ inbox'[s] = Tail(inbox[s])
      BY <1>7 DEF HandleSignal, ServiceTypeOK
    <2>2. signal \in Received /\ Unread(s) = {signal} \cup Unread(s)'
      BY <2>1, RangeOfTail DEF ServiceTypeOK, Unread
    <2>3. Left(s)' = C
      BY <2>1, <2>2, HandlerMakes DEF Makes, Left
    <2>4. signal.name \in {"DevicesStarted", "DevicesStopped", "DevicesUnplugged", "DaemonIsStarting",
                           "DaemonIsStopping", "ReportYourself", "PropertiesChanged"}
      BY <2>2 DEF Received, SignalNames
    <2>5. signal.name # "DaemonIsStopping"
      <3>1. s \in registered => Call("UnregisterClient", NoDevice) \in ClearCalls(s)
        BY DEF ClearCalls
      <3>2. Call("UnregisterClient", NoDevice).call = "UnregisterClient"
        BY DEF Call
      <3> QED
        BY <1>0, <1>2, <2>3, <3>1, <3>2 DEF SignalCalls, IsLeft
    <2>6. \A x \in C : x.call \notin Moves
      BY <1>0, <1>2, <2>4, <2>5 DEF SignalCalls, ReportCall, Call, Moves
    <2>7. Announces(signal, status, d) => \E x \in C : Confirms(x, status, d)
      <3>1. signal.name = "DevicesStarted" /\ d \in signal.devices => Call("IsStarted", d) \in C
        BY DEF SignalCalls
      <3>2. signal.name = "DevicesStopped" /\ d \in signal.devices => Call("IsStopped", d) \in C
        BY DEF SignalCalls
      <3>3. signal.name = "DevicesUnplugged" /\ d \in signal.devices => Call("IsUnplugged", d) \in C
        BY DEF SignalCalls
      <3>4. /\ status = "started" => Confirms(Call("IsStarted", d), status, d)
            /\ status = "stopped" => Confirms(Call("IsStopped", d), status, d)
            /\ status = "unplugged" => Confirms(Call("IsUnplugged", d), status, d)
        BY DEF Confirms, Call
      <3> HIDE DEF C, signal, status
      <3> QED
        BY <3>1, <3>2, <3>3, <3>4 DEF Announces
    <2> HIDE DEF C, signal, status
    <2> QED
      BY <1>6, <2>2, <2>3, <2>6, <2>7 DEF status
  <1>8. CASE AskRestart(s)
    <2>1. todo'[s] = ClearAndUnregister(s) \o InTurn(<<"exit">>)
      BY <1>8 DEF AskRestart, ServiceTypeOK
    <2>2. Left(s)' = ClearCalls(s) \cup {Call("exit", NoDevice)}
      BY <2>1, ClearMakes DEF Makes, Left
    <2>3. Call("UnregisterClient", NoDevice) \in ClearCalls(s)
      BY <1>0, <1>2 DEF ClearCalls
    <2> QED
      BY <2>2, <2>3 DEF IsLeft, Call
  <1>9. ASSUME NEW e \in Device, GUIRequest(s, e)
        PROVE  Knows(Left(s)', Unread(s)', startedHere'[s], stoppedHere'[s], DeviceStatus(d)', d)
    <2>1. PICK name \in {"StopDevice", "StartDevice", "RestartDevice"} : todo' = [todo EXCEPT ![s] = <<Call(name, e)>>]
      BY <1>9 DEF GUIRequest
    <2>2. Left(s)' = {Call(name, e)} /\ Unread(s)' = Unread(s)
      BY <1>9, <2>1, MoveMakes DEF GUIRequest, ServiceTypeOK, DeviceCalls, Makes, Left, Unread
    <2>3. \A x \in {Call(name, e)} : x.call \notin Moves
      BY DEF Call, Moves
    <2> QED
      BY <1>6, <2>2, <2>3
  <1>10. ASSUME NEW e \in Device, ReloadFile(s, e)
         PROVE  Knows(Left(s)', Unread(s)', startedHere'[s], stoppedHere'[s], DeviceStatus(d)', d)
    <2> DEFINE q == <<Call("SetDeviceBacklightColor", e)>> \o ReportIfActive(s)
               C == {Call("SetDeviceBacklightColor", e)} \cup IF sessionState[s] = "active" THEN {ReportCall} ELSE {}
    <2>1. todo'[s] = q /\ Unread(s)' = Unread(s)
      BY <1>10 DEF ReloadFile, ServiceTypeOK, Unread
    <2>2. Before(Call("SetDeviceBacklightColor", e), ReportCall)
      BY DEF Before, Turn, Requests, Rank, ReportCall, Call, Asks
    <2>3. Makes(q, C)
      BY <2>2, MoveMakes, ReportIfActiveMakes, MakesConcat DEF DeviceCalls
    <2>4. Left(s)' = C
      BY <2>1, <2>3 DEF Makes, Left
    <2>5. \A x \in C : x.call \notin Moves
      BY DEF ReportCall, Call, Moves
    <2> HIDE DEF C, q, status
    <2> QED
      BY <1>6, <2>1, <2>4, <2>5 DEF status
  <1> QED
    BY <1>1, <1>7, <1>8, <1>9, <1>10 DEF OwnEvent

(* Others act: what changes the status of a device is announced.           *)
LEMMA ViewApart ==
    ASSUME DaemonInv, FewClients, ServiceTypeOK, AllHandlersInv, AllHandlersInv', SNext, ~Intrudes,
           NEW s \in Session, ViewInv(s), Apart(s),
           \/ Hears(s)
           \/ inbox'[s] = inbox[s] /\ (DaemonUntouched \/ DaemonDies \/ StartDaemon)
           \/ inbox'[s] = Append(inbox[s], PropertiesChanged) /\ DaemonUntouched,
           DaemonInv'
    PROVE  ViewInv(s)'
  <1> SUFFICES ASSUME Live(s)', ~IsLeft(s, "UnregisterClient")', NEW d \in Device
               PROVE  Knows(Left(s)', Unread(s)', startedHere'[s], stoppedHere'[s], DeviceStatus(d)', d)
    BY DEF ViewInv
  <1>0. HandlersInv(s) /\ TypeOK' /\ inbox[s] \in Seq(Received)
    BY DEF AllHandlersInv, DaemonInv, ServiceTypeOK
  <1>1. /\ s \in registered /\ id'[s] = id[s] /\ Left(s)' = Left(s)
        /\ startedHere'[s] = startedHere[s] /\ stoppedHere'[s] = stoppedHere[s]
    BY DEF Apart, Live, Left
  <1>2. Live(s)
    BY <1>1, LiveBefore
  <1>3. Knows(Left(s), Unread(s), startedHere[s], stoppedHere[s], DeviceStatus(d), d)
    BY <1>1, <1>2 DEF ViewInv, IsLeft
  <1>4. out' \in Seq(Received)
    BY <1>0, DeliveredType
  <1>5. Hears(s) => Unread(s)' = Unread(s) \cup IF s \in listening THEN Range(out') ELSE {}
    BY <1>0, <1>4, RangeOfConcat DEF Hears, Unread
  <1>6. PropertiesChanged \in Received
    BY DEF PropertiesChanged, Received
  <1>7. Unread(s) \subseteq Unread(s)'
    <2>1. CASE Hears(s)
      BY <1>5, <2>1
    <2>2. CASE inbox'[s] = inbox[s]
      BY <2>2 DEF Unread
    <2>3. CASE inbox'[s] = Append(inbox[s], PropertiesChanged)
      <3>1. Range(Append(inbox[s], PropertiesChanged)) = Unread(s) \cup {PropertiesChanged}
        BY <1>0, <1>6, RangeOfAppend DEF Unread
      <3> QED
        BY <2>3, <3>1 DEF Unread
    <2> QED
      BY <2>1, <2>2, <2>3
  <1>8. ~DaemonDies /\ ~StartDaemon
    BY DEF DaemonDies, StartDaemon, Live, DaemonGoesOn
  <1>9. CASE DeviceStatus(d)' = DeviceStatus(d)
    BY <1>1, <1>3, <1>7, <1>9 DEF Knows, WillAsk
  <1>10. CASE ~DaemonUntouched /\ \E signal \in Range(out') : Announces(signal, DeviceStatus(d)', d)
    <2>1. CASE s \in listening
      BY <1>5, <1>8, <1>10, <2>1 DEF Knows, WillAsk
    <2>2. CASE s \notin listening
      <3> DEFINE status == DeviceStatus(d)'
      <3>1. AsksAll(s) /\ Handled(s) = {} /\ NoMoves(s)
        BY <1>0, <1>1, <2>2 DEF HandlersInv, StoppedServiceIsClear, ListensBeforeAsking
      <3> HIDE DEF status
      <3>2. Knows(Left(s), Unread(s)', startedHere[s], stoppedHere[s], status, d)
        BY <3>1, AskingForAll DEF AsksAll, IsLeft, Handled, NoMoves
      <3> QED
        BY <1>1, <3>2 DEF status
    <2> QED
      BY <2>1, <2>2
  <1> QED
    BY <1>2, <1>9, <1>10, StatusIsAnnounced

AllViewsInv == \A s \in Session : ViewInv(s)

LEMMA ViewsInit == SInit => AllViewsInv
  BY DEF SInit, AllViewsInv, ViewInv, Live

LEMMA ViewsStep ==
    ASSUME DaemonInv, DaemonInv', FewClients, ServiceTypeOK, AllHandlersInv, AllHandlersInv', AllViewsInv,
           [SNext]_allVars, [~Intrudes]_allVars
    PROVE  AllViewsInv'
  <1> SUFFICES ASSUME NEW s \in Session
               PROVE  ViewInv(s)'
    BY DEF AllViewsInv
  <1>1. ViewInv(s)
    BY DEF AllViewsInv
  <1>2. CASE UNCHANGED allVars
    BY <1>1, <1>2 DEF allVars, vars, environmentVars, controlVars, deviceVars, clientVars, sleepVars, serviceVars,
                      outsideVars, ViewInv, Live, DaemonGoesOn, KnownTo, IsLeft, Left, Unread, DeviceStatus
  <1>3. CASE SNext /\ ~Intrudes /\ ~UNCHANGED allVars
    BY <1>1, <1>3, OwnOrApart, ViewCall, ViewEvent, ViewApart
  <1> QED
    BY <1>2, <1>3

(* A service that has nothing left to do or to hear has the devices where  *)
(* the daemon has them.                                                    *)
LEMMA SettledViews ==
    ASSUME DaemonInv, ServiceTypeOK, AllHandlersInv, AllViewsInv
    PROVE  ContainersMatchDaemon
  <1> SUFFICES ASSUME NEW s \in Session, Settled(s)
               PROVE  startedHere[s] = started /\ stoppedHere[s] = stopped
    BY DEF ContainersMatchDaemon
  <1>1. Live(s) /\ Left(s) = {} /\ Unread(s) = {}
    BY NoCall, IdleListens DEF Settled, Live, AllHandlersInv, Unread, Range
  <1>2. /\ startedHere[s] \subseteq Device /\ stoppedHere[s] \subseteq Device
        /\ started \subseteq Device /\ stopped \subseteq Device /\ started \cap stopped = {}
    BY DEF ServiceTypeOK, DaemonInv, TypeOK, DevicesTypeOK, DeviceInv, StartedAreInitialized
  <1>3. ASSUME NEW d \in Device
        PROVE  (d \in startedHere[s] <=> d \in started) /\ (d \in stoppedHere[s] <=> d \in stopped)
    <2> DEFINE status == DeviceStatus(d)
    <2>1. Knows({}, {}, startedHere[s], stoppedHere[s], status, d)
      BY <1>1 DEF AllViewsInv, ViewInv, IsLeft
    <2>2. (status = "started" <=> d \in started) /\ (status = "stopped" <=> d \in stopped)
      BY <1>2 DEF DeviceStatus
    <2> HIDE DEF status
    <2> QED
      BY <2>1, <2>2 DEF Knows, WillAsk, Heads
  <1> QED
    BY <1>2, <1>3

(* Whatever happens while a service asks for its devices, once it has      *)
(* handled all it was told its containers are those of the daemon: unless  *)
(* the daemon has 256 clients, or another service takes its place.         *)
THEOREM ContainersAreTheDaemons ==
    SSpec /\ []FewClients /\ [][~Intrudes]_allVars => []ContainersMatchDaemon
  <1>1. /\ DaemonInv /\ DaemonInv' /\ FewClients /\ ServiceTypeOK /\ AllHandlersInv /\ AllHandlersInv'
        /\ AllViewsInv /\ [SNext]_allVars /\ [~Intrudes]_allVars
        => AllViewsInv'
    BY ViewsStep
  <1>2. DaemonInv /\ ServiceTypeOK /\ AllHandlersInv /\ AllViewsInv => ContainersMatchDaemon
    BY SettledViews
  <1> QED
    BY <1>1, <1>2, ViewsInit, ServiceTypeInvariant, HandlersAreOrderly, PTL DEF SSpec

(* With fewer than 255 sessions, no daemon has 256 clients.                *)
THEOREM ContainersOfFewSessions ==
    ASSUME IsFiniteSet(Session), Cardinality(Session) < 255
    PROVE  SSpec /\ [][~Intrudes]_allVars => []ContainersMatchDaemon
  <1>1. DaemonInv => FewClients
    BY FewSessions DEF DaemonInv
  <1> QED
    BY <1>1, ServiceTypeInvariant, ContainersAreTheDaemons, PTL

LEMMA LoneSession ==
    ASSUME \A s, t \in Session : s = t
    PROVE  IsFiniteSet(Session) /\ Cardinality(Session) < 255
  <1>1. CASE Session = {}
    BY <1>1, FS_EmptySet
  <1>2. ASSUME NEW s \in Session
        PROVE  IsFiniteSet(Session) /\ Cardinality(Session) < 255
    <2>1. Session = {s}
      BY <1>2
    <2>2. IsFiniteSet({s}) /\ Cardinality({s}) = 1
      BY FS_Singleton
    <2> QED
      BY <2>1, <2>2
  <1> QED
    BY <1>1, <1>2

(* With the service of a single user there is none to take its place: its  *)
(* containers are right without any condition.                             *)
THEOREM LoneContainers ==
    ASSUME \A s, t \in Session : s = t
    PROVE  SSpec => []ContainersMatchDaemon
  <1>1. ServiceTypeOK => [~Intrudes]_allVars
    BY DEF Intrudes, ServiceTypeOK
  <1> QED
    BY <1>1, LoneSession, ServiceTypeInvariant, ContainersOfFewSessions, PTL
-----------------------------------------------------------------------------
(* What devices show, for the service of a single user.                    *)

(* What a service learns of a started device, of its session or of a file  *)
(* is followed by a report; a request is about a device it has.            *)
ReportsFollow(s) ==
    /\ IsLeft(s, "RegisterClient") => RegistrationCalls \cup InitializeDevicesCalls \subseteq Left(s)
    /\ IsLeft(s, "Get") => ReportCall \in Left(s)
    /\ IsLeft(s, "IsStarted") /\ sessionState[s] = "active" => ReportCall \in Left(s)
    /\ \A c \in Left(s) : c.call \in Requests => c.device \in Handled(s)

(* The calls C that the one in hand leads to: questions about the started  *)
(* devices come with a report; a device is put in a container that the     *)
(* service has, or whose configuration it will send, or will delete.       *)
LeadsTo(s, C) ==
    /\ C = {} \/ Current(s).call \in Asks
    /\ \A x \in C : x.call \in Answers
    /\ (\E x \in C : x.call = "IsStarted") =>
          Current(s).call = "GetStartedDevices" /\ (sessionState[s] = "active" => ReportCall \in C)
    /\ \A d \in Device : Call("Start", d) \in C \/ Call("Stop", d) \in C =>
          \/ d \in Handled(s)
          \/ {Call("GetDeviceProperties", d), Call("SetDeviceBacklightColor", d)} \subseteq C
          \/ Call("DeleteDeviceConfiguration", d) \in C
    /\ Current(s).call = "GetStartedDevices" /\ DaemonAnswers /\ KnownTo(s) =>
          \A d \in started : Call("IsStarted", d) \in C

Comes(s, C) ==
    /\ LeadsTo(s, C)
    /\ Left(s) = {Current(s)} \cup Range(Tail(todo[s]))
    /\ Left(s)' = C \cup Range(Tail(todo[s]))
    /\ \A e \in Range(Tail(todo[s])) : Before(Current(s), e)
    /\ Unread(s) \subseteq Unread(s)'

LEMMA NothingComes ==
    ASSUME NEW s, Current(s).call # "GetStartedDevices"
    PROVE  LeadsTo(s, {})
  BY DEF LeadsTo

LEMMA CallComes ==
    ASSUME ServiceTypeOK, TypeOK, TypeOK', NEW s \in Session, HandlersInv(s), ServiceCall(s)
    PROVE  ProcessEnds(s) \/ \E C : Comes(s, C)
  <1> DEFINE d == Current(s).device
  <1>0. ASSUME NEW q, NEW C, Makes(q, C), Then(s, q), NEW name, Doing(s, name), LeadsTo(s, C)
        PROVE  \E D : Comes(s, D)
    <2>1. Left(s)' = C \cup Range(Tail(todo[s])) /\ inbox' = Delivered(out')
      BY <1>0, ThenMakes
    <2>2. Unread(s) \subseteq Unread(s)'
      BY <2>1, DeliveredType DEF Unread
    <2> QED
      BY <1>0, <2>1, <2>2, CallInHand, WhatFollows DEF Comes, HandlersInv
  <1>1. ASSUME NEW name, name # "GetStartedDevices", Doing(s, name), Then(s, <<>>)
        PROVE  \E D : Comes(s, D)
    <2>1. Current(s).call # "GetStartedDevices"
      BY <1>1 DEF Doing
    <2> QED
      BY <1>0, <1>1, <2>1, NothingComes, NothingMore
  <1>2. CASE Register(s) \/ ReadSession(s) \/ Listen(s) \/ Unregister(s) \/ ExitService(s)
    BY <1>1, <1>2 DEF Register, ReadSession, Listen, Unregister, ExitService
  <1>3. CASE Report(s) \/ ToggleReady(s) \/ Initializing(s) \/ SendConfiguration(s) \/ ChangeStatus(s)
    BY <1>1, <1>3 DEF Report, ToggleReady, Initializing, SendConfiguration, ChangeStatus
  <1>4. CASE MoveToStarted(s) \/ MoveToStopped(s) \/ UnplugDevice(s)
    BY <1>1, <1>4 DEF MoveToStarted, MoveToStopped, Moving, UnplugDevice
  <1>5. CASE GetStarted(s)
    <2> DEFINE C == {Call("IsStarted", e) : e \in started} \cup IF sessionState[s] = "active" THEN {ReportCall} ELSE {}
    <2>1. Doing(s, "GetStartedDevices") /\ Current(s).call = "GetStartedDevices"
      BY <1>5 DEF GetStarted, Doing
    <2>2. Makes(CallEach("IsStarted", started) \o ReportIfActive(s), C)
      BY AskedMakes
    <2>3. \A x \in C : x.call \in {"IsStarted", "UpdateClientState"}
      BY DEF Call, ReportCall
    <2>4. LeadsTo(s, C)
      <3>1. /\ sessionState[s] = "active" => ReportCall \in C
            /\ \A e \in started : Call("IsStarted", e) \in C
        OBVIOUS
      <3> HIDE DEF C
      <3>2. \A e : Call("Start", e) \notin C /\ Call("Stop", e) \notin C
        BY <2>3 DEF Call
      <3> QED
        BY <2>1, <2>3, <3>1, <3>2 DEF LeadsTo, Answers, Asks
    <2>5. ~(DaemonAnswers /\ KnownTo(s)) => LeadsTo(s, {})
      BY DEF LeadsTo
    <2> HIDE DEF C
    <2> QED
      BY <1>0, <1>5, <2>1, <2>2, <2>4, <2>5, NothingMore DEF GetStarted
  <1>6. CASE GetStopped(s)
    <2> DEFINE C == {Call("IsStopped", e) : e \in stopped}
    <2>1. Doing(s, "GetStoppedDevices") /\ Current(s).call = "GetStoppedDevices"
      BY <1>6 DEF GetStopped, Doing
    <2>2. Makes(CallEach("IsStopped", stopped), C)
      BY AskedMakes
    <2>3. \A x \in C : x.call = "IsStopped"
      BY DEF Call
    <2> HIDE DEF C
    <2>4. LeadsTo(s, C)
      BY <2>1, <2>3 DEF LeadsTo, Answers, Asks, Call
    <2> QED
      BY <1>0, <1>1, <1>6, <2>1, <2>2, <2>4 DEF GetStopped
  <1>7. ASSUME NEW name \in {"IsStarted", "IsStopped", "IsUnplugged"}, Doing(s, name)
        PROVE  /\ d \in Device /\ Current(s).call = name
               /\ \A then \in {"Start", "Stop"} : Makes(Initialize(d, then), InitializeCalls(d, then))
               /\ \A then \in {"Start", "Stop", "DeleteDeviceConfiguration"} :
                     Makes(<<Call(then, d)>>, {Call(then, d)})
    <2>1. d \in Device /\ Current(s).call = name
      BY <1>7, CallInHand DEF DeviceCalls
    <2> QED
      BY <2>1, InitializeMakes, MoveMakes DEF DeviceCalls
  <1>8. ASSUME NEW then \in {"Start", "Stop"}, Current(s).call \in {"IsStarted", "IsStopped"}, d \in Device
        PROVE  LeadsTo(s, InitializeCalls(d, then))
    <2>1. /\ \A x \in InitializeCalls(d, then) :
                x.call \in {"GetDeviceProperties", "SetDeviceBacklightColor", then}
          /\ \A e \in Device : Call("Start", e) \in InitializeCalls(d, then) \/ Call("Stop", e) \in InitializeCalls(d, then)
                => e = d
          /\ {Call("GetDeviceProperties", d), Call("SetDeviceBacklightColor", d)} \subseteq InitializeCalls(d, then)
      BY DEF InitializeCalls, Call
    <2> QED
      BY <1>8, <2>1 DEF LeadsTo, Answers, Asks
  <1>9. ASSUME NEW then \in {"Start", "Stop", "DeleteDeviceConfiguration"}, d \in Handled(s),
               Current(s).call \in {"IsStarted", "IsStopped", "IsUnplugged"}
        PROVE  LeadsTo(s, {Call(then, d)})
    <2>1. /\ \A x \in {Call(then, d)} : x.call = then
          /\ \A e : Call("Start", e) = Call(then, d) \/ Call("Stop", e) = Call(then, d) => e = d
      BY DEF Call
    <2> QED
      BY <1>9, <2>1 DEF LeadsTo, Answers, Asks
  <1>10. CASE CheckStarted(s)
    <2>1. Doing(s, "IsStarted")
      BY <1>10 DEF CheckStarted
    <2>2. d \in stoppedHere[s] => d \in Handled(s)
      BY DEF Handled
    <2>3. CASE Then(s, <<>>)
      BY <1>1, <2>1, <2>3
    <2>4. CASE d \in Handled(s) /\ Then(s, <<Call("Start", d)>>)
      BY <1>0, <1>7, <1>9, <2>1, <2>4
    <2>5. CASE Then(s, Initialize(d, "Start"))
      BY <1>0, <1>7, <1>8, <2>1, <2>5
    <2> QED
      BY <1>10, <2>2, <2>3, <2>4, <2>5 DEF CheckStarted
  <1>11. CASE CheckStopped(s)
    <2>1. Doing(s, "IsStopped")
      BY <1>11 DEF CheckStopped
    <2>2. d \in startedHere[s] => d \in Handled(s)
      BY DEF Handled
    <2>3. CASE Then(s, <<>>)
      BY <1>1, <2>1, <2>3
    <2>4. CASE d \in Handled(s) /\ Then(s, <<Call("Stop", d)>>)
      BY <1>0, <1>7, <1>9, <2>1, <2>4
    <2>5. CASE Then(s, Initialize(d, "Stop"))
      BY <1>0, <1>7, <1>8, <2>1, <2>5
    <2> QED
      BY <1>11, <2>2, <2>3, <2>4, <2>5 DEF CheckStopped
  <1>12. CASE CheckUnplugged(s)
    <2>1. Doing(s, "IsUnplugged")
      BY <1>12 DEF CheckUnplugged
    <2>2. Current(s).call = "IsUnplugged" /\ d \in Device
      BY <1>7, <2>1
    <2>3. CASE Then(s, <<>>)
      BY <1>1, <2>1, <2>3
    <2>4. CASE d \in Handled(s) /\ Then(s, <<Call("DeleteDeviceConfiguration", d)>>)
      BY <1>0, <1>7, <1>9, <2>1, <2>4
    <2>5. CASE Then(s, <<Call("GetDeviceProperties", d), Call("Stop", d), Call("DeleteDeviceConfiguration", d)>>)
      <3>1. /\ \A x \in ForgetCalls(d) : x.call \in {"GetDeviceProperties", "Stop", "DeleteDeviceConfiguration"}
            /\ \A e \in Device : Call("Start", e) \in ForgetCalls(d) \/ Call("Stop", e) \in ForgetCalls(d) => e = d
            /\ Call("DeleteDeviceConfiguration", d) \in ForgetCalls(d)
        BY DEF ForgetCalls, Call
      <3>2. LeadsTo(s, ForgetCalls(d))
        BY <2>2, <3>1 DEF LeadsTo, Answers, Asks
      <3> QED
        BY <1>0, <2>1, <2>2, <2>5, <3>2, ForgetMakes
    <2> QED
      BY <1>12, <2>3, <2>4, <2>5 DEF CheckUnplugged
  <1> QED
    BY <1>2, <1>3, <1>4, <1>5, <1>6, <1>10, <1>11, <1>12 DEF ServiceCall

(* Only the answer of logind changes what a service knows of its session,  *)
(* and requests leave its containers alone.                                *)
LEMMA CallSession ==
    ASSUME ServiceTypeOK, NEW s \in Session, ServiceCall(s)
    PROVE  \/ ProcessEnds(s)
           \/ Current(s).call = "Get"
           \/ sessionState'[s] = sessionState[s]
  <1>1. CASE UNCHANGED sessionState
    BY <1>1
  <1>2. CASE Register(s) \/ ReadSession(s) \/ Listen(s) \/ Unregister(s) \/ ExitService(s)
    BY <1>1, <1>2 DEF Register, ReadSession, Listen, Unregister, ExitService, Doing
  <1>3. CASE Report(s) \/ ToggleReady(s) \/ Initializing(s) \/ SendConfiguration(s) \/ ChangeStatus(s)
    BY <1>1, <1>3 DEF Report, ToggleReady, Initializing, SendConfiguration, ChangeStatus, Local
  <1>4. CASE MoveToStarted(s) \/ MoveToStopped(s) \/ UnplugDevice(s)
    BY <1>1, <1>4 DEF MoveToStarted, MoveToStopped, Moving, UnplugDevice
  <1>5. CASE GetStarted(s) \/ GetStopped(s) \/ CheckStarted(s) \/ CheckStopped(s) \/ CheckUnplugged(s)
    BY <1>1, <1>5 DEF GetStarted, GetStopped, CheckStarted, CheckStopped, CheckUnplugged, Local
  <1> QED
    BY <1>2, <1>3, <1>4, <1>5 DEF ServiceCall

LEMMA NothingFollows ==
    ASSUME ServiceTypeOK, NEW s \in Session, ProcessEnds(s)
    PROVE  ReportsFollow(s)'
  <1>1. todo'[s] = <<>>
    BY DEF ProcessEnds, ServiceTypeOK
  <1>2. Left(s)' = {}
    BY <1>1, NoCall DEF Left
  <1> QED
    BY <1>2 DEF ReportsFollow, IsLeft

LEMMA CallReports ==
    ASSUME ServiceTypeOK, TypeOK, TypeOK', NEW s \in Session, HandlersInv(s), ReportsFollow(s), ServiceCall(s)
    PROVE  ReportsFollow(s)'
  <1>1. CASE ProcessEnds(s)
    BY <1>1, NothingFollows
  <1>2. ASSUME NEW C, Comes(s, C), ~ProcessEnds(s)
        PROVE  ReportsFollow(s)'
    <2> DEFINE T == Range(Tail(todo[s]))
               c == Current(s)
    <2>1. Left(s) = {c} \cup T /\ Left(s)' = C \cup T /\ \A e \in T : Before(c, e) /\ Turn(c, e)
      BY <1>2 DEF Comes, Before
    <2>2. /\ \A x \in C : x.call \in Answers
          /\ (\E x \in C : x.call = "IsStarted") => c.call = "GetStartedDevices" /\ (sessionState[s] = "active" => ReportCall \in C)
      BY <1>2 DEF Comes, LeadsTo
    <2>3. c.call = "Get" \/ sessionState'[s] = sessionState[s]
      BY <1>2, CallSession
    <2>4. ReportCall.call = "UpdateClientState"
      BY DEF ReportCall, Call
    <2> HIDE DEF c, T
    <2>5. ~IsLeft(s, "RegisterClient")'
      BY <2>1, <2>2 DEF IsLeft, Before, Answers
    <2>6. IsLeft(s, "Get")' => ReportCall \in Left(s)'
      <3> SUFFICES ASSUME NEW e \in T, e.call = "Get"
                   PROVE  ReportCall \in T
        BY <2>1, <2>2 DEF IsLeft, Answers
      <3>1. c.call = "RegisterClient"
        BY <2>1 DEF Turn
      <3>2. ReportCall \in Left(s)
        BY <2>1, <3>1 DEF ReportsFollow, IsLeft
      <3> QED
        BY <2>1, <2>4, <3>1, <3>2
    <2>7. IsLeft(s, "IsStarted")' /\ sessionState'[s] = "active" => ReportCall \in Left(s)'
      <3> SUFFICES ASSUME NEW e \in C \cup T, e.call = "IsStarted", sessionState'[s] = "active"
                   PROVE  ReportCall \in C \cup T
        BY <2>1 DEF IsLeft
      <3>1. CASE e \in C
        BY <2>2, <2>3, <3>1
      <3>2. CASE e \in T
        <4>1. c.call # "UpdateClientState"
          BY <2>1, <3>2 DEF Turn
        <4>2. CASE c.call = "Get"
          BY <2>1, <2>4, <4>2 DEF ReportsFollow, IsLeft
        <4>3. CASE c.call # "Get"
          BY <2>1, <2>3, <2>4, <3>2, <4>1, <4>3 DEF ReportsFollow, IsLeft
        <4> QED
          BY <4>2, <4>3
      <3> QED
        BY <3>1, <3>2
    <2>8. \A e \in Left(s)' : e.call \notin Requests
      BY <2>1, <2>2 DEF Turn, Answers, Requests
    <2> QED
      BY <2>5, <2>6, <2>7, <2>8 DEF ReportsFollow
  <1> QED
    BY <1>1, <1>2, CallComes

LEMMA EventReports ==
    ASSUME ServiceTypeOK, NEW s \in Session, HandlersInv(s), OwnEvent(s)
    PROVE  ReportsFollow(s)'
  <1>0. ReportCall.call = "UpdateClientState" /\ \A name, d : Call(name, d).call = name /\ Call(name, d).device = d
    BY DEF ReportCall, Call
  <1>1. CASE HandleSignal(s)
    <2> DEFINE signal == Head(inbox[s])
               C == SignalCalls(s, signal)
    <2>1. inbox[s] # <<>> /\ todo'[s] = HandlerOf(s, signal) /\ UNCHANGED <<registered, sessionState>>
      BY <1>1 DEF HandleSignal, ServiceTypeOK
    <2>2. signal \in Received
      BY <2>1, RangeOfTail DEF ServiceTypeOK
    <2>3. Left(s)' = C
      BY <2>1, <2>2, HandlerMakes DEF Makes, Left
    <2>4. signal.name \in {"DevicesStarted", "DevicesStopped", "DevicesUnplugged", "DaemonIsStarting",
                           "DaemonIsStopping", "ReportYourself", "PropertiesChanged"}
      BY <2>2 DEF Received, SignalNames
    <2>5. CASE signal.name = "DaemonIsStarting"
      <3>1. C = IF s \in registered THEN {} ELSE RegistrationCalls \cup InitializeDevicesCalls
        BY <2>5 DEF SignalCalls
      <3>2. /\ \A x \in RegistrationCalls \cup InitializeDevicesCalls : x.call \notin Requests
            /\ ReportCall \in RegistrationCalls
        BY <1>0 DEF RegistrationCalls, InitializeDevicesCalls, Requests
      <3> HIDE DEF C
      <3> QED
        BY <2>3, <3>1, <3>2 DEF ReportsFollow, IsLeft
    <2>6. CASE signal.name = "DevicesStarted"
      <3>1. C = {Call("IsStarted", d) : d \in signal.devices} \cup IF sessionState[s] = "active" THEN {ReportCall} ELSE {}
        BY <2>6 DEF SignalCalls
      <3>2. /\ \A x \in C : x.call \in {"IsStarted", "UpdateClientState"}
            /\ sessionState[s] = "active" => ReportCall \in C
        BY <1>0, <3>1
      <3> HIDE DEF C
      <3> QED
        BY <2>1, <2>3, <3>2 DEF ReportsFollow, IsLeft, Requests
    <2>7. CASE signal.name \notin {"DaemonIsStarting", "DevicesStarted"}
      <3>1. /\ \A x \in C : x.call \in {"IsStopped", "IsUnplugged", "DeleteDeviceConfiguration", "UnregisterClient",
                                        "UpdateClientState", "Get"}
            /\ (\E x \in C : x.call = "Get") => ReportCall \in C
        BY <1>0, <2>4, <2>7 DEF SignalCalls, ClearCalls
      <3> HIDE DEF C
      <3> QED
        BY <2>3, <3>1 DEF ReportsFollow, IsLeft, Requests
    <2> QED
      BY <2>5, <2>6, <2>7
  <1>2. CASE Launch(s)
    <2> DEFINE C == RegistrationCalls \cup {Call("AddMatch", NoDevice)} \cup InitializeDevicesCalls
               q == Registration(s) \o InTurn(<<"AddMatch">>) \o InitializeDevices
    <2>1. todo'[s] = q
      BY <1>2 DEF Launch, ServiceTypeOK
    <2>2. Left(s)' = C
      BY <2>1, RegistrationMakes DEF Makes, Left
    <2>3. \A x \in C : x.call \notin Requests
      BY <1>0 DEF RegistrationCalls, InitializeDevicesCalls, Requests
    <2>4. ReportCall \in C /\ RegistrationCalls \cup InitializeDevicesCalls \subseteq C
      BY DEF RegistrationCalls
    <2> HIDE DEF C, q
    <2> QED
      BY <2>2, <2>3, <2>4 DEF ReportsFollow, IsLeft
  <1>3. CASE AskRestart(s)
    <2> DEFINE C == ClearCalls(s) \cup {Call("exit", NoDevice)}
               q == ClearAndUnregister(s) \o InTurn(<<"exit">>)
    <2>1. todo'[s] = q
      BY <1>3 DEF AskRestart, ServiceTypeOK
    <2>2. Left(s)' = C
      BY <2>1, ClearMakes DEF Makes, Left
    <2>3. \A x \in C : x.call \in {"DeleteDeviceConfiguration", "UnregisterClient", "exit"}
      BY <1>0 DEF ClearCalls
    <2> HIDE DEF C, q
    <2> QED
      BY <2>2, <2>3 DEF ReportsFollow, IsLeft, Requests
  <1>4. CASE Crash(s)
    BY <1>4, NothingFollows DEF Crash
  <1>5. ASSUME NEW d \in Device, GUIRequest(s, d)
        PROVE  ReportsFollow(s)'
    <2>1. PICK name \in {"StopDevice", "StartDevice", "RestartDevice"} : todo' = [todo EXCEPT ![s] = <<Call(name, d)>>]
      BY <1>5 DEF GUIRequest
    <2>2. todo'[s] = <<Call(name, d)>> /\ Handled(s)' = Handled(s) /\ d \in Handled(s)
      BY <1>5, <2>1 DEF GUIRequest, Local, ServiceTypeOK, Handled
    <2>3. Left(s)' = {Call(name, d)}
      BY <2>2, MoveMakes DEF DeviceCalls, Makes, Left
    <2> QED
      BY <1>0, <2>2, <2>3 DEF ReportsFollow, IsLeft
  <1>6. ASSUME NEW d \in Device, ReloadFile(s, d)
        PROVE  ReportsFollow(s)'
    <2> DEFINE q == <<Call("SetDeviceBacklightColor", d)>> \o ReportIfActive(s)
               C == {Call("SetDeviceBacklightColor", d)} \cup IF sessionState[s] = "active" THEN {ReportCall} ELSE {}
    <2>1. todo'[s] = q
      BY <1>6 DEF ReloadFile, ServiceTypeOK
    <2>2. Before(Call("SetDeviceBacklightColor", d), ReportCall)
      BY DEF Before, Turn, Requests, Rank, ReportCall, Call, Asks
    <2>3. Makes(q, C)
      BY <2>2, MoveMakes, ReportIfActiveMakes, MakesConcat DEF DeviceCalls
    <2>4. Left(s)' = C
      BY <2>1, <2>3 DEF Makes, Left
    <2>5. \A x \in C : x.call \in {"SetDeviceBacklightColor", "UpdateClientState"}
      BY <1>0
    <2> HIDE DEF C, q
    <2> QED
      BY <2>4, <2>5 DEF ReportsFollow, IsLeft, Requests
  <1> QED
    BY <1>1, <1>2, <1>3, <1>4, <1>5, <1>6 DEF OwnEvent

AllReportsFollow == \A s \in Session : ReportsFollow(s)

LEMMA ReportsInit == SInit => AllReportsFollow
  BY NoCall DEF SInit, AllReportsFollow, ReportsFollow, IsLeft, Left

LEMMA ReportsStep ==
    ASSUME ServiceTypeOK, TypeOK, TypeOK', AllHandlersInv, AllReportsFollow, [SNext]_allVars
    PROVE  AllReportsFollow'
  <1> SUFFICES ASSUME NEW s \in Session
               PROVE  ReportsFollow(s)'
    BY DEF AllReportsFollow
  <1>1. HandlersInv(s) /\ ReportsFollow(s)
    BY DEF AllHandlersInv, AllReportsFollow
  <1>2. CASE Apart(s)
    BY <1>1, <1>2 DEF Apart, ReportsFollow, IsLeft, Left, Handled
  <1> QED
    BY <1>1, <1>2, OwnOrApart, CallReports, EventReports

(* The daemon has an entry for each device that the service has, with the  *)
(* configuration of its file, or will be sent it.                          *)
Concerns(s, d) == d \in Handled(s) \/ Call("Start", d) \in Left(s) \/ Call("Stop", d) \in Left(s)

EntryOf(s, d) == client[id[s]].devices[d]

EntryInv(s, d) ==
    Concerns(s, d) /\ Call("DeleteDeviceConfiguration", d) \notin Left(s) =>
        \/ EntryOf(s, d) = conf[s][d]
        \/ /\ Call("SetDeviceBacklightColor", d) \in Left(s)
           /\ EntryOf(s, d) # NoConfig \/ Call("GetDeviceProperties", d) \in Left(s)

(* The client is ready and in the state of the session, or the calls that  *)
(* make it so are left.                                                    *)
ClientInv(s) ==
    /\ client[id[s]].check
    /\ client[id[s]].ready <=> ~IsLeft(s, "ToggleClientReadyPropertie")
    /\ client[id[s]].state = sessionState[s] \/ ReportCall \in Left(s)

(* A started device shows what is in its file, or the service has still to *)
(* ask about it, to report, or to say that it is ready.                    *)
ShownInv(s, d) ==
    d \in started /\ sessionState[s] = "active" =>
        \/ WillAsk(Left(s), Unread(s), "started", d)
        \/ ReportCall \in Left(s)
        \/ IsLeft(s, "ToggleClientReadyPropertie")
        \/ config[d] = conf[s][d]

ConfigInv(s) ==
    Live(s) /\ ~IsLeft(s, "UnregisterClient") =>
        ClientInv(s) /\ \A d \in Device : EntryInv(s, d) /\ ShownInv(s, d)

(* What a call of a client changes at the daemon.                          *)
StandingAfter(s) ==
    LET c == Current(s).call
        old == client[id[s]]
        new == client'[id[s]] IN
    /\ new.check <=> old.check \/ c = "UpdateClientState"
    /\ new.ready <=> IF c = "ToggleClientReadyPropertie" THEN ~old.ready ELSE old.ready
    /\ new.state = IF c = "UpdateClientState" THEN sessionState[s] ELSE old.state

EntryAfter(s, d) ==
    LET c == Current(s)
        old == EntryOf(s, d)
        new == client'[id[s]].devices[d] IN
    \/ c = Call("GetDeviceProperties", d) /\ new # NoConfig /\ (old # NoConfig => new = old)
    \/ c = Call("SetDeviceBacklightColor", d) /\ (old # NoConfig => new = conf[s][d])
    \/ c = Call("DeleteDeviceConfiguration", d)
    \/ /\ c \notin {Call("GetDeviceProperties", d), Call("SetDeviceBacklightColor", d), Call("DeleteDeviceConfiguration", d)}
       /\ new = old

(* The entry is pushed to the device.                                      *)
Pushes(s, d) == EntryOf(s, d) # NoConfig => config'[d] = EntryOf(s, d)

ShownAfter(s, d) ==
    LET c == Current(s).call
        old == client[id[s]] IN
    \/ c \notin {"UpdateClientState", "ToggleClientReadyPropertie"} /\ d \in started /\ config'[d] = config[d]
    \/ c \in Requests /\ d = Current(s).device /\ Pushes(s, d)
    \/ c = "UpdateClientState" /\ d \in started /\ (sessionState[s] = "active" /\ old.ready => Pushes(s, d))
    \/ c = "ToggleClientReadyPropertie" /\ d \in started /\ (old.state = "active" /\ ~old.ready => Pushes(s, d))

LEMMA KnownClient ==
    ASSUME TypeOK, ServiceTypeOK, NEW s \in Session, KnownTo(s)
    PROVE  /\ id[s] \in ClientID /\ client[id[s]] \in Client
           /\ \A d \in Device : conf[s][d] \in Config /\ conf[s][d] # NoConfig /\ DefaultConfig # NoConfig
           /\ config \in [Device -> Config] /\ started \subseteq Device
  <1>1. id[s] \in ClientID /\ client[id[s]] \in Client
    BY DEF TypeOK, ClientsTypeOK, KnownTo
  <1>2. config \in [Device -> Config] /\ started \subseteq Device
    BY DEF TypeOK, DevicesTypeOK
  <1>3. \A d \in Device : conf[s][d] \in Config
    BY DEF ServiceTypeOK
  <1> QED
    BY <1>1, <1>2, <1>3, NoConfigAssumption, ConfigAssumption

(* A call that leaves the client and what devices show.                    *)
LEMMA NothingAfter ==
    ASSUME NEW s, DaemonUntouched,
           Current(s).call \notin {"UpdateClientState", "ToggleClientReadyPropertie", "GetDeviceProperties",
                                   "SetDeviceBacklightColor", "DeleteDeviceConfiguration"}
    PROVE  StandingAfter(s) /\ (\A d \in Device : EntryAfter(s, d)) /\ \A d \in started' : ShownAfter(s, d)
  <1>1. client' = client /\ config' = config /\ started' = started
    BY DEF DaemonUntouched, clientVars, deviceVars
  <1>2. \A name, d : Call(name, d).call = name
    BY DEF Call
  <1>3. StandingAfter(s)
    BY <1>1 DEF StandingAfter
  <1>4. \A d \in Device : EntryAfter(s, d)
    BY <1>1, <1>2 DEF EntryAfter, EntryOf
  <1>5. \A d \in started' : ShownAfter(s, d)
    BY <1>1 DEF ShownAfter
  <1> QED
    BY <1>3, <1>4, <1>5

LEMMA CallAfter ==
    ASSUME ServiceTypeOK, TypeOK, NEW s \in Session, Live(s), ClientInv(s), ServiceCall(s), ~Register(s), ~Unregister(s)
    PROVE  StandingAfter(s) /\ (\A d \in Device : EntryAfter(s, d)) /\ \A d \in started' : ShownAfter(s, d)
  <1> DEFINE e == Current(s).device
             cl == client[id[s]]
  <1>1. /\ KnownTo(s) /\ s \in registered
        /\ cl.check /\ cl \in Client /\ id[s] \in ClientID /\ config \in [Device -> Config] /\ started \subseteq Device
        /\ client \in [ClientID -> Client] /\ conf[s] \in [Device -> Config]
    BY KnownClient DEF Live, ClientInv, TypeOK, ClientsTypeOK, ServiceTypeOK
  <1>2. DefaultConfig # NoConfig /\ \A d \in Device : conf[s][d] # NoConfig
    BY NoConfigAssumption, ConfigAssumption DEF ServiceTypeOK
  <1>3. Replied => DaemonAnswers
    BY DEF Live, DaemonGoesOn, Replied, NoDaemon
  <1>4. CASE ReadSession(s) \/ Listen(s) \/ ExitService(s) \/ MoveToStarted(s) \/ MoveToStopped(s)
    BY <1>4, NothingAfter DEF ReadSession, Listen, ExitService, MoveToStarted, MoveToStopped, Moving, Doing, ServiceOnly
  <1>5. CASE GetStarted(s) \/ GetStopped(s) \/ CheckStarted(s) \/ CheckStopped(s) \/ CheckUnplugged(s)
    BY <1>5, NothingAfter DEF GetStarted, GetStopped, CheckStarted, CheckStopped, CheckUnplugged, Asking, Doing, ServiceOnly
  <1>6. CASE Report(s)
    <2>1. /\ Current(s).call = "UpdateClientState"
          /\ UpdateClientState(id[s], sessionState[s])
      BY <1>1, <1>3, <1>6 DEF Report, Doing, Calling
    <2>2. /\ client'[id[s]] = [cl EXCEPT !.state = sessionState[s], !.check = TRUE]
          /\ started' = started
          /\ sessionState[s] = "active" /\ cl.ready =>
                \A d \in started : cl.devices[d] # NoConfig => config'[d] = cl.devices[d]
      BY <1>1, <2>1 DEF UpdateClientState, OnlyConfig, Pushed, Client
    <2>3. \A name, d : Call(name, d).call = name
      BY DEF Call
    <2> QED
      BY <1>1, <2>1, <2>2, <2>3 DEF StandingAfter, EntryAfter, EntryOf, ShownAfter, Pushes, Client
  <1>7. CASE ToggleReady(s)
    <2>1. /\ Current(s).call = "ToggleClientReadyPropertie"
          /\ ToggleClientReadyPropertie(id[s])
      BY <1>1, <1>3, <1>7 DEF ToggleReady, Doing, Calling
    <2>2. /\ client'[id[s]] = [cl EXCEPT !.ready = ~@]
          /\ started' = started
          /\ cl.state = "active" /\ ~cl.ready =>
                \A d \in started : cl.devices[d] # NoConfig => config'[d] = cl.devices[d]
      BY <1>1, <2>1 DEF ToggleClientReadyPropertie, OnlyConfig, Pushed, Client
    <2>3. \A name, d : Call(name, d).call = name
      BY DEF Call
    <2>4. StandingAfter(s)
      BY <1>1, <2>1, <2>2 DEF StandingAfter, Client
    <2>5. \A d \in Device : EntryAfter(s, d)
      BY <1>1, <2>1, <2>2, <2>3 DEF EntryAfter, EntryOf, Client
    <2>6. \A d \in started' : ShownAfter(s, d)
      BY <2>1, <2>2 DEF ShownAfter, EntryOf, Pushes
    <2> QED
      BY <2>4, <2>5, <2>6
  <1>8. ASSUME NEW name \in {"GetDeviceProperties", "SetDeviceBacklightColor", "DeleteDeviceConfiguration"}, Doing(s, name)
        PROVE  /\ e \in Device /\ Current(s) = Call(name, e) /\ Current(s).call = name
               /\ \A other, d : Call(name, e) = Call(other, d) <=> name = other /\ d = e
    BY <1>8, CallInHand DEF DeviceCalls, Call
  <1> DEFINE new == client'[id[s]]
             Same == /\ new.check = cl.check /\ new.ready = cl.ready /\ new.state = cl.state
                     /\ \A d \in Device \ {e} : new.devices[d] = cl.devices[d]
                     /\ UNCHANGED <<started, config>>
  <1>9. ASSUME NEW v, e \in Device, UNCHANGED <<started, config>>,
                client'[id[s]] = [cl EXCEPT !.devices = [cl.devices EXCEPT ![e] = v]]
         PROVE  Same /\ new.devices[e] = v
    <2> HIDE DEF e
    <2>1. cl.devices \in [Device -> Config \cup {NoConfig}]
      BY <1>1 DEF Client
    <2>2. /\ new.check = cl.check /\ new.ready = cl.ready /\ new.state = cl.state
          /\ new.devices = [cl.devices EXCEPT ![e] = v]
      BY <1>1, <1>9 DEF Client
    <2> QED
      BY <1>9, <2>1, <2>2
  <1>10. ASSUME NEW name \in {"GetDeviceProperties", "SetDeviceBacklightColor", "DeleteDeviceConfiguration"}, Doing(s, name),
               Same,
               name = "GetDeviceProperties" => new.devices[e] # NoConfig
                                               /\ (cl.devices[e] # NoConfig => new.devices[e] = cl.devices[e]),
               name = "SetDeviceBacklightColor" /\ cl.devices[e] # NoConfig => new.devices[e] = conf[s][e]
        PROVE  StandingAfter(s) /\ (\A d \in Device : EntryAfter(s, d)) /\ \A d \in started' : ShownAfter(s, d)
    <2>1. \A d \in Device \ {e} : new.devices[d] = cl.devices[d]
      BY <1>10
    <2>2. StandingAfter(s)
      BY <1>8, <1>10 DEF StandingAfter
    <2>3. \A d \in started' : ShownAfter(s, d)
      BY <1>8, <1>10 DEF ShownAfter
    <2>4. ASSUME NEW d \in Device
          PROVE  EntryAfter(s, d)
      <3>1. CASE d = e
        BY <1>8, <1>10, <2>1, <3>1 DEF EntryAfter, EntryOf
      <3>2. CASE d # e
        BY <1>8, <1>10, <2>1, <3>2 DEF EntryAfter, EntryOf
      <3> QED
        BY <3>1, <3>2
    <2> QED
      BY <2>2, <2>3, <2>4
  <1>11. CASE Initializing(s)
    <2>1. Doing(s, "GetDeviceProperties")
      BY <1>11 DEF Initializing
    <2>2. CASE GetDeviceProperties(id[s], e)
      <3>1. /\ client'[id[s]] = [cl EXCEPT !.devices = [cl.devices EXCEPT ![e] = DefaultConfig]]
            /\ UNCHANGED <<started, config>> /\ cl.devices[e] = NoConfig
        BY <1>1, <2>2 DEF GetDeviceProperties, ClientDevices, LeavesDevices, deviceVars, Client
      <3>2. Same /\ new.devices[e] = DefaultConfig
        BY <1>8, <1>9, <2>1, <3>1
      <3> HIDE DEF cl, e, new, Same
      <3> QED
        BY <1>2, <1>10, <2>1, <3>1, <3>2
    <2>3. CASE cl.devices[e] # NoConfig /\ DaemonUntouched
      <3>1. Same /\ new = cl
        BY <2>3 DEF DaemonUntouched, clientVars, deviceVars
      <3> HIDE DEF cl, e, new, Same
      <3> QED
        BY <1>10, <2>1, <2>3, <3>1
    <2>4. KnownTo(s) /\ cl.check
      BY <1>1
    <2> QED
      BY <1>3, <1>11, <2>2, <2>3, <2>4 DEF Initializing, Calling
  <1>12. CASE SendConfiguration(s)
    <2>1. Doing(s, "SetDeviceBacklightColor")
      BY <1>12 DEF SendConfiguration
    <2>2. CASE SetDeviceConfig(id[s], e, conf[s][e])
      <3>1. /\ client'[id[s]] = [cl EXCEPT !.devices = [cl.devices EXCEPT ![e] = conf[s][e]]]
            /\ UNCHANGED <<started, config>>
        BY <1>1, <2>2 DEF SetDeviceConfig, ClientDevices, LeavesDevices, deviceVars, Client
      <3>2. Same /\ new.devices[e] = conf[s][e]
        BY <1>8, <1>9, <2>1, <3>1
      <3> HIDE DEF cl, e, new, Same
      <3> QED
        BY <1>10, <2>1, <3>2
    <2>3. CASE cl.devices[e] = NoConfig /\ DaemonUntouched
      <3>1. Same /\ new = cl
        BY <2>3 DEF DaemonUntouched, clientVars, deviceVars
      <3> HIDE DEF cl, e, new, Same
      <3> QED
        BY <1>10, <2>1, <2>3, <3>1
    <2>4. KnownTo(s)
      BY <1>1
    <2> QED
      BY <1>3, <1>12, <2>2, <2>3, <2>4 DEF SendConfiguration, Calling
  <1>13. CASE UnplugDevice(s)
    <2>1. Doing(s, "DeleteDeviceConfiguration")
      BY <1>13 DEF UnplugDevice
    <2>2. CASE DeleteDeviceConfiguration(id[s], e)
      <3>1. /\ client'[id[s]] = [cl EXCEPT !.devices = [cl.devices EXCEPT ![e] = NoConfig]]
            /\ UNCHANGED <<started, config>>
        BY <1>1, <2>2 DEF DeleteDeviceConfiguration, ClientDevices, LeavesDevices, deviceVars, Client
      <3>2. Same /\ new.devices[e] = NoConfig
        BY <1>8, <1>9, <2>1, <3>1
      <3> HIDE DEF cl, e, new, Same
      <3> QED
        BY <1>10, <2>1, <3>2
    <2>3. CASE DaemonUntouched
      <3>1. Same
        BY <2>3 DEF DaemonUntouched, clientVars, deviceVars
      <3> HIDE DEF cl, e, new, Same
      <3> QED
        BY <1>10, <2>1, <3>1
    <2> QED
      BY <1>13, <2>2, <2>3 DEF UnplugDevice, Calling
  <1>14. CASE ChangeStatus(s)
    <2>1. Current(s).call \in Requests /\ e \in Device
      <3>1. PICK name \in Requests : Doing(s, name)
        BY <1>14 DEF ChangeStatus, Requests
      <3> QED
        BY <3>1, CallInHand DEF DeviceCalls, Requests, Doing
    <2>2. CASE DaemonUntouched
      BY <2>1, <2>2, NothingAfter DEF Requests
    <2>3. CASE client' = client /\ \A d \in started' : (d \in started /\ config'[d] = config[d]) \/ (d = e /\ Pushes(s, d))
      <3>1. \A name, d : Call(name, d).call = name
        BY DEF Call
      <3> QED
        BY <2>1, <2>3, <3>1 DEF StandingAfter, EntryAfter, EntryOf, ShownAfter, Requests
    <2>4. ASSUME StopDevice(id[s], e)
          PROVE  client' = client /\ \A d \in started' : d \in started /\ config'[d] = config[d]
      BY <1>1, <2>4 DEF StopDevice, StopDevices, CloseDevices, ResetConfig, clientVars
    <2>5. ASSUME NEW opened \in SUBSET {e}, NEW kept, StartDevice(id[s], e, opened, kept)
          PROVE  client' = client
                 /\ \A d \in started' : (d \in started /\ config'[d] = config[d]) \/ (d = e /\ Pushes(s, d))
      BY <1>1, <2>1, <2>5 DEF StartDevice, StartDevices, OpenDevices, Pushed, Pushes, EntryOf, clientVars
    <2>6. ASSUME NEW opened \in SUBSET {e}, NEW kept, RestartDevice(id[s], e, opened, kept)
          PROVE  client' = client
                 /\ \A d \in started' : (d \in started /\ config'[d] = config[d]) \/ (d = e /\ Pushes(s, d))
      BY <1>1, <2>1, <2>6 DEF RestartDevice, OpenDevices, Pushes, EntryOf, clientVars
    <2>7. ASSUME client' = client,
                 \A d \in started' : (d \in started /\ config'[d] = config[d]) \/ (d = e /\ Pushes(s, d))
          PROVE  StandingAfter(s) /\ (\A d \in Device : EntryAfter(s, d)) /\ \A d \in started' : ShownAfter(s, d)
      BY <2>3, <2>7
    <2> DEFINE Goal == StandingAfter(s) /\ (\A d \in Device : EntryAfter(s, d)) /\ \A d \in started' : ShownAfter(s, d)
    <2>9. StopDevice(id[s], e) => Goal
      BY <2>4, <2>7
    <2>10. (\E opened, kept \in SUBSET {e} : StartDevice(id[s], e, opened, kept)) => Goal
      BY <2>5, <2>7
    <2>11. (\E opened, kept \in SUBSET {e} : RestartDevice(id[s], e, opened, kept)) => Goal
      BY <2>6, <2>7
    <2>12. DaemonUntouched => Goal
      BY <2>2
    <2>13. \/ DaemonUntouched \/ StopDevice(id[s], e)
           \/ \E opened, kept \in SUBSET {e} : StartDevice(id[s], e, opened, kept)
           \/ \E opened, kept \in SUBSET {e} : RestartDevice(id[s], e, opened, kept)
      BY <1>14 DEF ChangeStatus, Calling
    <2> HIDE DEF Goal
    <2>14. Goal
      BY <2>9, <2>10, <2>11, <2>12, <2>13
    <2> QED
      BY <2>14 DEF Goal
  <1> QED
    BY <1>4, <1>5, <1>6, <1>7, <1>11, <1>12, <1>13, <1>14 DEF ServiceCall

(* The files are changed by their users only, and a device comes into the  *)
(* containers by the calls that move it.                                   *)
LEMMA CallMoves ==
    ASSUME ServiceTypeOK, NEW s \in Session, ServiceCall(s)
    PROVE  /\ conf' = conf
           /\ \A d \in Device :
                 /\ d \in Handled(s)' => d \in Handled(s) \/ Current(s) \in {Call("Start", d), Call("Stop", d)}
                 /\ Current(s) = Call("DeleteDeviceConfiguration", d) => d \notin Handled(s)'
  <1> USE DEF ServiceOnly, outsideVars
  <1>1. ASSUME UNCHANGED <<startedHere, stoppedHere>> \/ ProcessEnds(s), Current(s).call # "DeleteDeviceConfiguration"
        PROVE  \A d \in Device :
                 /\ d \in Handled(s)' => d \in Handled(s) \/ Current(s) \in {Call("Start", d), Call("Stop", d)}
                 /\ Current(s) = Call("DeleteDeviceConfiguration", d) => d \notin Handled(s)'
    BY <1>1 DEF ProcessEnds, ServiceTypeOK, Handled, Call
  <1>2. CASE Register(s) \/ ReadSession(s) \/ Listen(s) \/ Unregister(s) \/ ExitService(s)
    BY <1>1, <1>2 DEF Register, ReadSession, Listen, Unregister, ExitService, Calling, Doing
  <1>3. CASE Report(s) \/ ToggleReady(s) \/ Initializing(s) \/ SendConfiguration(s) \/ ChangeStatus(s)
    BY <1>1, <1>3 DEF Report, ToggleReady, Initializing, SendConfiguration, ChangeStatus, Calling, Doing, Local
  <1>4. CASE GetStarted(s) \/ GetStopped(s) \/ CheckStarted(s) \/ CheckStopped(s) \/ CheckUnplugged(s)
    BY <1>1, <1>4 DEF GetStarted, GetStopped, CheckStarted, CheckStopped, CheckUnplugged, Asking, Doing, Local
  <1>5. CASE MoveToStarted(s) \/ MoveToStopped(s)
    <2> DEFINE e == Current(s).device
    <2>1. PICK name \in {"Start", "Stop"} : Doing(s, name)
      BY <1>5 DEF MoveToStarted, MoveToStopped, Moving
    <2>2. Current(s) = Call(name, e) /\ Current(s).call = name
      BY <2>1, CallInHand DEF Call, DeviceCalls
    <2>3. Handled(s)' \subseteq Handled(s) \cup {e} /\ conf' = conf
      BY <1>5 DEF MoveToStarted, MoveToStopped, Moving, Handled, ServiceTypeOK
    <2> QED
      BY <2>1, <2>2, <2>3 DEF Call
  <1>6. CASE UnplugDevice(s)
    <2> DEFINE e == Current(s).device
    <2>1. Handled(s)' = Handled(s) \ {e} /\ conf' = conf
      BY <1>6 DEF UnplugDevice, Calling, Handled, ServiceTypeOK
    <2> QED
      BY <2>1 DEF Call
  <1> QED
    BY <1>2, <1>3, <1>4, <1>5, <1>6 DEF ServiceCall

(* The service of a client has the device that is started, and will not be *)
(* told, with its configuration at the daemon.                             *)
LEMMA StartedHasEntry ==
    ASSUME NEW s \in Session, NEW d \in Device, Live(s), ~IsLeft(s, "UnregisterClient"), ViewInv(s), EntryInv(s, d),
           d \in started, ~WillAsk(Left(s), Unread(s), "started", d), Call("SetDeviceBacklightColor", d) \notin Left(s)
    PROVE  EntryOf(s, d) = conf[s][d]
  <1>1. Heads(Left(s), startedHere[s], stoppedHere[s], "started", d)
    BY DEF ViewInv, Knows, DeviceStatus
  <1> QED
    BY <1>1 DEF Heads, EntryInv, Concerns, Handled

(* A call of a client that stays one. *)
InTouch(s, C) ==
    /\ ServiceTypeOK /\ HandlersInv(s) /\ ReportsFollow(s) /\ ViewInv(s)
    /\ Live(s) /\ ~IsLeft(s, "UnregisterClient") /\ ClientInv(s) /\ \A d \in Device : EntryInv(s, d) /\ ShownInv(s, d)
    /\ Comes(s, C)
    /\ id'[s] = id[s] /\ conf' = conf
    /\ Current(s).call = "Get" \/ sessionState'[s] = sessionState[s]
    /\ Current(s).call = "GetStartedDevices" => DaemonAnswers

LEMMA CallKeepsClient ==
    ASSUME NEW s \in Session, NEW C, InTouch(s, C), StandingAfter(s)
    PROVE  ClientInv(s)'
  <1> DEFINE T == Range(Tail(todo[s]))
             c == Current(s)
             old == client[id[s]]
             new == client'[id[s]]
  <1>1. /\ Left(s) = {c} \cup T /\ Left(s)' = C \cup T
        /\ \A e \in T : e.call = "ToggleClientReadyPropertie" => c.call # "ToggleClientReadyPropertie"
        /\ \A x \in C : x.call # "ToggleClientReadyPropertie"
    BY DEF InTouch, Comes, LeadsTo, Before, Turn, Answers
  <1>2. ReportCall.call = "UpdateClientState"
    BY DEF ReportCall, Call
  <1>3. /\ old.check /\ (old.ready <=> ~IsLeft(s, "ToggleClientReadyPropertie"))
        /\ old.state = sessionState[s] \/ ReportCall \in Left(s)
        /\ IsLeft(s, "Get") => ReportCall \in Left(s)
        /\ client'[id'[s]] = new
        /\ c.call = "Get" \/ sessionState'[s] = sessionState[s]
    BY DEF InTouch, ClientInv, ReportsFollow
  <1>4. /\ new.check <=> old.check \/ c.call = "UpdateClientState"
        /\ new.ready <=> IF c.call = "ToggleClientReadyPropertie" THEN ~old.ready ELSE old.ready
        /\ new.state = IF c.call = "UpdateClientState" THEN sessionState[s] ELSE old.state
    BY DEF StandingAfter
  <1> HIDE DEF T, c, old, new
  <1>5. new.ready <=> ~IsLeft(s, "ToggleClientReadyPropertie")'
    BY <1>1, <1>3, <1>4 DEF IsLeft
  <1>6. new.state = sessionState'[s] \/ ReportCall \in Left(s)'
    BY <1>1, <1>2, <1>3, <1>4 DEF IsLeft
  <1> QED
    BY <1>3, <1>4, <1>5, <1>6 DEF ClientInv

LEMMA CallKeepsEntry ==
    ASSUME NEW s \in Session, NEW C, InTouch(s, C), NEW d \in Device, EntryAfter(s, d),
           d \in Handled(s)' => d \in Handled(s) \/ Current(s) \in {Call("Start", d), Call("Stop", d)},
           Current(s) = Call("DeleteDeviceConfiguration", d) => d \notin Handled(s)'
    PROVE  EntryInv(s, d)'
  <1> DEFINE T == Range(Tail(todo[s]))
             c == Current(s)
             old == EntryOf(s, d)
             new == client'[id[s]].devices[d]
             get == Call("GetDeviceProperties", d)
             set == Call("SetDeviceBacklightColor", d)
             delete == Call("DeleteDeviceConfiguration", d)
             moves == {Call("Start", d), Call("Stop", d)}
             value == conf[s][d]
  <1>1. /\ Left(s) = {c} \cup T /\ Left(s)' = C \cup T
        /\ \A e \in T : Before(c, e)
        /\ C = {} \/ c.call \in Asks
        /\ moves \cap C # {} => d \in Handled(s) \/ {get, set} \subseteq C \/ delete \in C
    BY DEF InTouch, Comes, LeadsTo
  <1>2. value # NoConfig /\ conf'[s][d] = value /\ EntryOf(s, d)' = new
    BY NoConfigAssumption DEF InTouch, ServiceTypeOK, EntryOf
  <1>3. (d \in Handled(s) \/ moves \cap Left(s) # {}) /\ delete \notin Left(s) =>
           old = value \/ (set \in Left(s) /\ (old # NoConfig \/ get \in Left(s)))
    BY DEF InTouch, EntryInv, Concerns
  <1>4. /\ get \notin T
        /\ set \in T => c.call = "GetDeviceProperties"
        /\ c = delete => moves \cap T = {} /\ C = {}
    <2>1. \A e \in T : Turn(c, e) /\ (Rank(c) = 0 \/ Rank(e) = 0 \/ Rank(c) <= Rank(e))
      BY <1>1 DEF Before
    <2>2. /\ get.call = "GetDeviceProperties" /\ set.call = "SetDeviceBacklightColor"
          /\ \A e \in moves : e.call \in {"Start", "Stop"}
          /\ delete.call = "DeleteDeviceConfiguration"
      BY DEF Call
    <2> HIDE DEF T, c, get, set, delete, moves
    <2>4. Rank(delete) = 2
      BY <2>2 DEF Rank, Asks
    <2>5. ASSUME NEW e \in moves
          PROVE  Rank(e) = 1
      BY <2>2 DEF Rank, Asks
    <2>3. ~(2 <= 1)
      OBVIOUS
    <2> QED
      BY <1>1, <2>1, <2>2, <2>3, <2>4, <2>5 DEF Turn, Asks
  <1>5. \/ c = get /\ new # NoConfig /\ (old # NoConfig => new = old)
        \/ c = set /\ (old # NoConfig => new = value)
        \/ c = delete
        \/ c \notin {get, set, delete} /\ new = old
    BY DEF EntryAfter
  <1>6. get # set /\ set # delete /\ get # delete /\ delete \notin moves
    BY DEF Call
  <1> SUFFICES ASSUME d \in Handled(s)' \/ moves \cap Left(s)' # {}, delete \notin Left(s)'
               PROVE  new = value \/ (set \in Left(s)' /\ (new # NoConfig \/ get \in Left(s)'))
    BY <1>2 DEF EntryInv, Concerns
  <1>7. d \in Handled(s)' => d \in Handled(s) \/ c \in moves
    OBVIOUS
  <1>8. c = delete => d \notin Handled(s)'
    OBVIOUS
  <1> HIDE DEF T, c, old, new, get, set, delete, moves, value
  <1>9. CASE {get, set} \subseteq C
    BY <1>1, <1>9
  <1>10. CASE ~({get, set} \subseteq C)
    <2>1. c # delete
      BY <1>1, <1>4, <1>8
    <2>2. delete \notin Left(s) /\ (d \in Handled(s) \/ moves \cap Left(s) # {})
      BY <1>1, <1>7, <1>10, <2>1
    <2>3. old = value \/ (set \in Left(s) /\ (old # NoConfig \/ get \in Left(s)))
      BY <1>3, <2>2
    <2> QED
      BY <1>1, <1>2, <1>4, <1>5, <1>6, <2>1, <2>3
  <1> QED
    BY <1>9, <1>10

LEMMA CallKeepsShown ==
    ASSUME NEW s \in Session, NEW C, InTouch(s, C), NEW d \in Device, d \in started' => ShownAfter(s, d)
    PROVE  ShownInv(s, d)'
  <1> DEFINE T == Range(Tail(todo[s]))
             c == Current(s)
             old == client[id[s]]
             set == Call("SetDeviceBacklightColor", d)
             value == conf[s][d]
  <1> SUFFICES ASSUME d \in started', sessionState'[s] = "active", ReportCall \notin Left(s)',
                      ~WillAsk(Left(s)', Unread(s)', "started", d), ~IsLeft(s, "ToggleClientReadyPropertie")'
               PROVE  config'[d] = value
    BY DEF ShownInv, InTouch
  <1>1. /\ Left(s) = {c} \cup T /\ Left(s)' = C \cup T /\ Unread(s) \subseteq Unread(s)'
        /\ \A e \in T : Turn(c, e)
        /\ C = {} \/ c.call \in Asks
        /\ c.call = "GetStartedDevices" /\ d \in started => Call("IsStarted", d) \in C
    BY DEF InTouch, Comes, LeadsTo, Before, Live
  <1>2. /\ ReportCall.call = "UpdateClientState" /\ set.call = "SetDeviceBacklightColor"
        /\ Confirms(Call("IsStarted", d), "started", d)
    BY DEF ReportCall, Call, Confirms
  <1>3. /\ IsLeft(s, "Get") => ReportCall \in Left(s)
        /\ IsLeft(s, "IsStarted") /\ sessionState[s] = "active" => ReportCall \in Left(s)
        /\ \A x \in Left(s) : x.call \in Requests => x.device \in Handled(s)
        /\ c.call = "Get" \/ sessionState'[s] = sessionState[s]
        /\ old.ready <=> ~IsLeft(s, "ToggleClientReadyPropertie")
        /\ old.state = sessionState[s] \/ ReportCall \in Left(s)
    BY DEF InTouch, ReportsFollow, ClientInv
  <1>4. ShownAfter(s, d) /\ EntryInv(s, d) /\ ShownInv(s, d) /\ value # NoConfig
    BY NoConfigAssumption DEF InTouch, ServiceTypeOK
  <1>5. d \in started /\ ~WillAsk(Left(s), Unread(s), "started", d) /\ set \notin Left(s) => EntryOf(s, d) = value
    BY StartedHasEntry DEF InTouch
  <1> HIDE DEF T, c, set
  <1>6. sessionState[s] = "active" /\ (ReportCall \in Left(s) => c = ReportCall)
    BY <1>1, <1>2, <1>3 DEF IsLeft
  <1>7. IsLeft(s, "ToggleClientReadyPropertie") => c.call = "ToggleClientReadyPropertie"
    BY <1>1 DEF IsLeft
  <1>8. ASSUME d \in started
        PROVE  ~WillAsk(Left(s), Unread(s), "started", d)
    <2>1. ~Confirms(c, "started", d)
      <3>1. c.call # "IsStarted"
        BY <1>1, <1>2, <1>3, <1>6 DEF IsLeft
      <3>2. c.call # "GetStartedDevices"
        BY <1>1, <1>2, <1>8 DEF WillAsk
      <3> QED
        BY <3>1, <3>2 DEF Confirms
    <2> QED
      BY <1>1, <2>1 DEF WillAsk
  <1>9. CASE c.call \notin {"UpdateClientState", "ToggleClientReadyPropertie"} /\ d \in started /\ config'[d] = config[d]
    BY <1>2, <1>4, <1>6, <1>7, <1>8, <1>9 DEF ShownInv
  <1>10. CASE c.call \in Requests /\ d = c.device /\ Pushes(s, d)
    <2>1. d \in Handled(s) /\ Left(s) = {c}
      BY <1>1, <1>3, <1>10 DEF Turn
    <2>2. set \notin Left(s) /\ Call("DeleteDeviceConfiguration", d) \notin Left(s)
      BY <1>2, <1>10, <2>1 DEF Requests, Call
    <2>3. EntryOf(s, d) = value
      BY <1>4, <2>1, <2>2 DEF EntryInv, Concerns, set
    <2> QED
      BY <1>4, <1>10, <2>3 DEF Pushes
  <1>11. CASE c.call = "UpdateClientState" /\ d \in started /\ (old.ready => Pushes(s, d))
    <2>1. old.ready /\ set \notin Left(s)
      BY <1>1, <1>2, <1>3, <1>7, <1>11 DEF Turn
    <2> QED
      BY <1>4, <1>5, <1>8, <1>11, <2>1 DEF Pushes
  <1>12. CASE c.call = "ToggleClientReadyPropertie" /\ d \in started /\ (old.state = "active" /\ ~old.ready => Pushes(s, d))
    <2>1. ~old.ready /\ set \notin Left(s) /\ old.state = "active"
      BY <1>1, <1>2, <1>3, <1>6, <1>12 DEF Turn, IsLeft
    <2> QED
      BY <1>4, <1>5, <1>8, <1>12, <2>1 DEF Pushes
  <1>13. \/ c.call \notin {"UpdateClientState", "ToggleClientReadyPropertie"} /\ d \in started /\ config'[d] = config[d]
         \/ c.call \in Requests /\ d = c.device /\ Pushes(s, d)
         \/ c.call = "UpdateClientState" /\ d \in started /\ (old.ready => Pushes(s, d))
         \/ c.call = "ToggleClientReadyPropertie" /\ d \in started /\ (old.state = "active" /\ ~old.ready => Pushes(s, d))
    BY <1>4, <1>6 DEF ShownAfter, c
  <1> QED
    BY <1>9, <1>10, <1>11, <1>12, <1>13

LEMMA AnswerToClient ==
    ASSUME NEW s \in Session, ServiceCall(s), Live(s), Current(s).call = "GetStartedDevices"
    PROVE  DaemonAnswers
  <1>1. GetStarted(s)
    BY DEF ServiceCall, Doing, Register, ReadSession, Report, Listen, GetStarted, ToggleReady, GetStopped, CheckStarted,
           CheckStopped, CheckUnplugged, Initializing, SendConfiguration, MoveToStarted, MoveToStopped, Moving,
           UnplugDevice, Unregister, ExitService, ChangeStatus
  <1> QED
    BY <1>1 DEF GetStarted, Asking, Replied, NoDaemon, Live, DaemonGoesOn

(* The service asks the daemon.                                            *)
LEMMA ConfigCall ==
    ASSUME DaemonInv, DaemonInv', ServiceTypeOK, AllHandlersInv, AllHandlersInv', AllReportsFollow, SNext, ~Intrudes,
           NEW s \in Session, ViewInv(s), ConfigInv(s), ServiceCall(s)
    PROVE  ConfigInv(s)'
  <1> SUFFICES ASSUME Live(s)', ~IsLeft(s, "UnregisterClient")'
               PROVE  ClientInv(s)' /\ \A d \in Device : EntryInv(s, d)' /\ ShownInv(s, d)'
    BY DEF ConfigInv
  <1>0. /\ TypeOK /\ TypeOK' /\ HandlersInv(s) /\ ReportsFollow(s) /\ s \in registered'
    BY DEF DaemonInv, AllHandlersInv, AllReportsFollow, Live
  <1>1. CallLeft(s)
    BY <1>0, CallLeaves
  <1>2. ReportCall.call = "UpdateClientState" /\ Call("ToggleClientReadyPropertie", NoDevice).call = "ToggleClientReadyPropertie"
    BY DEF ReportCall, Call
  <1>3. CASE Register(s)
    <2>1. /\ Doing(s, "RegisterClient") /\ Then(s, <<>>) /\ UNCHANGED <<startedHere, stoppedHere>>
          /\ \E c \in ClientID : RegisterClient(s, c) /\ id' = [id EXCEPT ![s] = c]
      BY <1>0, <1>3 DEF Register, ProcessEnds, Calling
    <2>2. /\ Current(s).call = "RegisterClient" /\ Left(s)' = {} \cup Range(Tail(todo[s]))
          /\ IsLeft(s, "RegisterClient")
      BY <1>1, <2>1, CallInHand, ThenMakes, NothingMore DEF CallLeft, IsLeft
    <2>3. Handled(s)' = {} /\ \A e \in Left(s)' : e.call \notin Moves
      BY <1>0, <1>1, <2>1, <2>2 DEF HandlersInv, RegistersFirst, UnregisteredIsClear, NoMoves, CallLeft, Handled
    <2>4. ReportCall \in Left(s)' /\ IsLeft(s, "ToggleClientReadyPropertie")'
      BY <1>0, <1>1, <1>2, <2>2 DEF ReportsFollow, CallLeft, RegistrationCalls, InitializeDevicesCalls, IsLeft
    <2>5. client'[id'[s]] = NewClient(s)
      BY <1>0, <2>1 DEF RegisterClient, ServiceTypeOK, TypeOK, ClientsTypeOK, Unregistered
    <2>6. ClientInv(s)'
      BY <2>4, <2>5 DEF ClientInv, NewClient
    <2>7. \A d \in Device : EntryInv(s, d)' /\ ShownInv(s, d)'
      BY <2>3, <2>4 DEF EntryInv, Concerns, ShownInv, Call, Moves
    <2> QED
      BY <2>6, <2>7
  <1>4. CASE ~Register(s)
    <2>1. s \in registered /\ id'[s] = id[s]
      BY <1>0, <1>4, CallConnects
    <2>2. Live(s)
      BY <2>1, LiveBefore
    <2>3. ~Unregister(s)
      BY <1>0, <2>2 DEF Unregister, Calling, Live, DaemonGoesOn, Replied, NoDaemon
    <2>4. ~IsLeft(s, "UnregisterClient")
      <3>1. Current(s).call # "UnregisterClient"
        BY <2>3, OnlyUnregister
      <3> QED
        BY <1>1, <3>1 DEF CallLeft, IsLeft
    <2>5. ClientInv(s) /\ \A d \in Device : EntryInv(s, d) /\ ShownInv(s, d)
      BY <2>2, <2>4 DEF ConfigInv
    <2>6. ~ProcessEnds(s)
      BY <1>0 DEF ProcessEnds
    <2>7. PICK C : Comes(s, C)
      BY <1>0, <2>6, CallComes
    <2>8. InTouch(s, C)
      BY <1>0, <2>1, <2>2, <2>4, <2>5, <2>6, <2>7, CallMoves, CallSession, AnswerToClient DEF InTouch
    <2>9. StandingAfter(s) /\ (\A d \in Device : EntryAfter(s, d)) /\ \A d \in started' : ShownAfter(s, d)
      BY <1>0, <1>4, <2>2, <2>3, <2>5, CallAfter
    <2>10. ClientInv(s)'
      BY <2>8, <2>9, CallKeepsClient
    <2>11. \A d \in Device : EntryInv(s, d)'
      BY <2>8, <2>9, CallMoves, CallKeepsEntry
    <2>12. \A d \in Device : ShownInv(s, d)'
      BY <2>8, <2>9, CallKeepsShown
    <2> QED
      BY <2>10, <2>11, <2>12
  <1> QED
    BY <1>3, <1>4

(* A signal is handled, a request is made, or a file is changed.           *)
LEMMA ConfigEvent ==
    ASSUME DaemonInv, ServiceTypeOK, AllHandlersInv, SNext, ~Intrudes,
           NEW s \in Session, ConfigInv(s), OwnEvent(s)
    PROVE  ConfigInv(s)'
  <1> SUFFICES ASSUME Live(s)', ~IsLeft(s, "UnregisterClient")'
               PROVE  ClientInv(s)' /\ \A d \in Device : EntryInv(s, d)' /\ ShownInv(s, d)'
    BY DEF ConfigInv
  <1>0. HandlersInv(s) /\ s \in registered'
    BY DEF AllHandlersInv, Live
  <1>1. ~Crash(s) /\ ~Launch(s)
    BY <1>0 DEF Crash, ProcessEnds, Launch, HandlersInv, StoppedServiceIsClear
  <1>2. /\ Idle(s) /\ DaemonUntouched
        /\ UNCHANGED <<registered, id, sessionState, startedHere, stoppedHere>>
    BY <1>1 DEF OwnEvent, HandleSignal, AskRestart, GUIRequest, ReloadFile, Local, ServiceOnly
  <1>3. Left(s) = {} /\ Live(s)
    BY <1>0, <1>2, IdleListens, LiveBefore
  <1>4. UNCHANGED <<client, config, started>>
    BY <1>2 DEF DaemonUntouched, clientVars, deviceVars
  <1>5. /\ client[id[s]].check /\ client[id[s]].ready /\ client[id[s]].state = sessionState[s]
        /\ \A d \in Device : /\ d \in Handled(s) => EntryOf(s, d) = conf[s][d]
                             /\ d \in started /\ sessionState[s] = "active" =>
                                   WillAsk({}, Unread(s), "started", d) \/ config[d] = conf[s][d]
    BY <1>3 DEF ConfigInv, ClientInv, EntryInv, Concerns, ShownInv, IsLeft
  <1>6. ASSUME NEW C, Left(s)' = C, \A x \in C : x.call \notin Moves \cup {"ToggleClientReadyPropertie"},
               \A d \in Device : \/ conf'[s][d] = conf[s][d]
                                 \/ /\ Call("SetDeviceBacklightColor", d) \in C /\ d \in Handled(s)
                                    /\ sessionState[s] = "active" => ReportCall \in C,
               \A d \in Device : WillAsk({}, Unread(s), "started", d) => WillAsk(C, Unread(s)', "started", d)
        PROVE  ClientInv(s)' /\ \A d \in Device : EntryInv(s, d)' /\ ShownInv(s, d)'
    <2>1. ClientInv(s)'
      BY <1>2, <1>4, <1>5, <1>6 DEF ClientInv, IsLeft
    <2>2. ASSUME NEW d \in Device
          PROVE  EntryInv(s, d)'
      <3>1. Concerns(s, d)' => d \in Handled(s)
        BY <1>2, <1>6 DEF Concerns, Handled, Call, Moves
      <3>2. EntryOf(s, d)' = EntryOf(s, d) /\ conf[s][d] # NoConfig
        BY <1>2, <1>4, NoConfigAssumption DEF EntryOf, ServiceTypeOK
      <3> QED
        BY <1>5, <1>6, <3>1, <3>2 DEF EntryInv
    <2>3. ASSUME NEW d \in Device
          PROVE  ShownInv(s, d)'
      BY <1>2, <1>4, <1>5, <1>6 DEF ShownInv
    <2> QED
      BY <2>1, <2>2, <2>3
  <1>7. CASE HandleSignal(s)
    <2> DEFINE signal == Head(inbox[s])
               C == SignalCalls(s, signal)
    <2>1. inbox[s] # <<>> /\ todo'[s] = HandlerOf(s, signal) /\ inbox'[s] = Tail(inbox[s]) /\ conf' = conf
      BY <1>7 DEF HandleSignal, ServiceTypeOK, outsideVars
    <2>2. signal \in Received /\ Unread(s) = {signal} \cup Unread(s)'
      BY <2>1, RangeOfTail DEF ServiceTypeOK, Unread
    <2>3. Left(s)' = C
      BY <2>1, <2>2, HandlerMakes DEF Makes, Left
    <2>4. signal.name \in {"DevicesStarted", "DevicesStopped", "DevicesUnplugged", "DaemonIsStarting",
                           "DaemonIsStopping", "ReportYourself", "PropertiesChanged"}
      BY <2>2 DEF Received, SignalNames
    <2>5. signal.name # "DaemonIsStopping"
      <3>1. s \in registered => Call("UnregisterClient", NoDevice) \in ClearCalls(s)
        BY DEF ClearCalls
      <3>2. Call("UnregisterClient", NoDevice).call = "UnregisterClient"
        BY DEF Call
      <3> QED
        BY <1>0, <1>2, <2>3, <3>1, <3>2 DEF SignalCalls, IsLeft
    <2>6. \A x \in C : x.call \notin Moves \cup {"ToggleClientReadyPropertie"}
      BY <1>0, <1>2, <2>4, <2>5 DEF SignalCalls, ReportCall, Call, Moves
    <2>7. ASSUME NEW d \in Device, Announces(signal, "started", d)
          PROVE  \E x \in C : Confirms(x, "started", d)
      <3>1. signal.name = "DevicesStarted" /\ d \in signal.devices
        BY <2>7 DEF Announces
      <3>2. Call("IsStarted", d) \in C
        BY <3>1 DEF SignalCalls
      <3>3. Confirms(Call("IsStarted", d), "started", d)
        BY DEF Confirms, Call
      <3> QED
        BY <3>2, <3>3
    <2> HIDE DEF C, signal
    <2>8. \A d \in Device : WillAsk({}, Unread(s), "started", d) => WillAsk(C, Unread(s)', "started", d)
      BY <2>2, <2>7 DEF WillAsk
    <2> QED
      BY <1>6, <2>1, <2>3, <2>6, <2>8
  <1>8. CASE AskRestart(s)
    <2>1. todo'[s] = ClearAndUnregister(s) \o InTurn(<<"exit">>)
      BY <1>8 DEF AskRestart, ServiceTypeOK
    <2>2. Left(s)' = ClearCalls(s) \cup {Call("exit", NoDevice)}
      BY <2>1, ClearMakes DEF Makes, Left
    <2>3. Call("UnregisterClient", NoDevice) \in ClearCalls(s)
      BY <1>0, <1>2 DEF ClearCalls
    <2> QED
      BY <2>2, <2>3 DEF IsLeft, Call
  <1>9. ASSUME NEW e \in Device, GUIRequest(s, e)
        PROVE  ClientInv(s)' /\ \A d \in Device : EntryInv(s, d)' /\ ShownInv(s, d)'
    <2>1. PICK name \in {"StopDevice", "StartDevice", "RestartDevice"} : todo' = [todo EXCEPT ![s] = <<Call(name, e)>>]
      BY <1>9 DEF GUIRequest
    <2>2. Left(s)' = {Call(name, e)} /\ Unread(s)' = Unread(s) /\ conf' = conf
      BY <1>9, <2>1, MoveMakes DEF GUIRequest, ServiceOnly, outsideVars, ServiceTypeOK, DeviceCalls, Makes, Left, Unread
    <2>3. \A x \in {Call(name, e)} : x.call \notin Moves \cup {"ToggleClientReadyPropertie"}
      BY DEF Call, Moves
    <2>4. \A d \in Device : WillAsk({}, Unread(s), "started", d) => WillAsk({Call(name, e)}, Unread(s)', "started", d)
      BY <2>2 DEF WillAsk
    <2> QED
      BY <1>6, <2>2, <2>3, <2>4
  <1>10. ASSUME NEW e \in Device, ReloadFile(s, e)
         PROVE  ClientInv(s)' /\ \A d \in Device : EntryInv(s, d)' /\ ShownInv(s, d)'
    <2> DEFINE q == <<Call("SetDeviceBacklightColor", e)>> \o ReportIfActive(s)
               C == {Call("SetDeviceBacklightColor", e)} \cup IF sessionState[s] = "active" THEN {ReportCall} ELSE {}
    <2>1. todo'[s] = q /\ Unread(s)' = Unread(s) /\ e \in Handled(s)
      BY <1>10 DEF ReloadFile, ServiceTypeOK, Unread
    <2>2. Before(Call("SetDeviceBacklightColor", e), ReportCall)
      BY DEF Before, Turn, Requests, Rank, ReportCall, Call, Asks
    <2>3. Makes(q, C)
      BY <2>2, MoveMakes, ReportIfActiveMakes, MakesConcat DEF DeviceCalls
    <2>4. Left(s)' = C
      BY <2>1, <2>3 DEF Makes, Left
    <2>5. \A x \in C : x.call \notin Moves \cup {"ToggleClientReadyPropertie"}
      BY DEF ReportCall, Call, Moves
    <2>6. \A d \in Device \ {e} : conf'[s][d] = conf[s][d]
      <3>1. PICK v \in Config : conf' = [conf EXCEPT ![s][e] = v]
        BY <1>10 DEF ReloadFile
      <3> QED
        BY <3>1 DEF ServiceTypeOK
    <2>7. Call("SetDeviceBacklightColor", e) \in C /\ (sessionState[s] = "active" => ReportCall \in C)
      OBVIOUS
    <2> HIDE DEF C, q
    <2>8. \A d \in Device : WillAsk({}, Unread(s), "started", d) => WillAsk(C, Unread(s)', "started", d)
      BY <2>1 DEF WillAsk
    <2> QED
      BY <1>6, <2>1, <2>4, <2>5, <2>6, <2>7, <2>8
  <1> QED
    BY <1>1, <1>7, <1>8, <1>9, <1>10 DEF OwnEvent

(* What the daemon does by itself while it goes on: it leaves its clients, *)
(* and a device that is started shows what it showed.                      *)
LEMMA DaemonLeaves ==
    ASSUME TypeOK, DaemonStep, DaemonGoesOn, DaemonGoesOn'
    PROVE  client' = client /\ \A d \in started' : d \in started /\ config'[d] = config[d]
  <1>1. ~Start /\ ~LeaveLoop /\ ~Wait /\ ~Exit
    BY DEF Start, StartMonitoring, LeaveLoop, Wait, Exit, DaemonGoesOn
  <1>0. started \subseteq Device
    BY DEF TypeOK, DevicesTypeOK
  <1>2. CASE UEvent
    BY <1>0, <1>2 DEF UEvent, HotplugAdd, HotplugRemove, CloseDevices, ResetConfig, LeavesClients, clientVars
  <1>3. CASE ThreadsCheck
    BY <1>0, <1>3 DEF ThreadsCheck, CheckThreads, StopDevices, CloseDevices, ResetConfig, LeavesClients, clientVars
  <1>4. CASE Environment
    BY <1>4 DEF Environment, LeavesClients, clientVars, SigTerm, PrepareForSleep, Suspend, Resume, OnlySleep
  <1> QED
    BY <1>1, <1>2, <1>3, <1>4 DEF DaemonStep

(* The daemon acts, or logind tells of the session.                        *)
LEMMA ConfigApart ==
    ASSUME DaemonInv, ServiceTypeOK, AllHandlersInv, SNext, ~Intrudes,
           NEW s \in Session, ConfigInv(s), Apart(s), conf' = conf, Unread(s) \subseteq Unread(s)',
           DaemonStep \/ DaemonUntouched \/ DaemonDies \/ StartDaemon
    PROVE  ConfigInv(s)'
  <1> SUFFICES ASSUME Live(s)', ~IsLeft(s, "UnregisterClient")'
               PROVE  ClientInv(s)' /\ \A d \in Device : EntryInv(s, d)' /\ ShownInv(s, d)'
    BY DEF ConfigInv
  <1>1. /\ s \in registered /\ id'[s] = id[s] /\ Left(s)' = Left(s) /\ Handled(s)' = Handled(s)
        /\ sessionState'[s] = sessionState[s]
    BY DEF Apart, Live, Left, Handled
  <1>2. Live(s) /\ ~IsLeft(s, "UnregisterClient")
    BY <1>1, LiveBefore DEF IsLeft
  <1>3. client' = client /\ \A d \in started' : d \in started /\ config'[d] = config[d]
    <2>1. CASE DaemonStep
      BY <1>2, <2>1, DaemonLeaves DEF DaemonInv, Live
    <2>2. CASE DaemonUntouched
      BY <2>2 DEF DaemonUntouched, clientVars, deviceVars
    <2>3. ~DaemonDies /\ ~StartDaemon
      BY DEF DaemonDies, StartDaemon, Live, DaemonGoesOn
    <2> QED
      BY <2>1, <2>2, <2>3
  <1>4. ClientInv(s) /\ \A d \in Device : EntryInv(s, d) /\ ShownInv(s, d)
    BY <1>2 DEF ConfigInv
  <1>5. ClientInv(s)'
    BY <1>1, <1>3, <1>4 DEF ClientInv, IsLeft
  <1>6. \A d \in Device : EntryInv(s, d)'
    BY <1>1, <1>3, <1>4 DEF EntryInv, Concerns, EntryOf
  <1>7. \A d \in Device : ShownInv(s, d)'
    BY <1>1, <1>3, <1>4 DEF ShownInv, WillAsk, IsLeft
  <1> QED
    BY <1>5, <1>6, <1>7

AllConfigsInv == \A s \in Session : ConfigInv(s)

LEMMA ConfigsInit == SInit => AllConfigsInv
  BY DEF SInit, AllConfigsInv, ConfigInv, Live

(* Of a single session, all steps are known: nobody resets its devices.    *)
LEMMA ConfigsStep ==
    ASSUME \A s, t \in Session : s = t,
           DaemonInv, DaemonInv', ServiceTypeOK, ServiceTypeOK', AllHandlersInv, AllHandlersInv', AllReportsFollow, AllViewsInv,
           AllConfigsInv, [SNext]_allVars, [~Intrudes]_allVars
    PROVE  AllConfigsInv'
  <1> SUFFICES ASSUME NEW s \in Session
               PROVE  ConfigInv(s)'
    BY DEF AllConfigsInv
  <1>0. ConfigInv(s) /\ ViewInv(s) /\ TypeOK' /\ inbox[s] \in Seq(Received)
    BY DEF AllConfigsInv, AllViewsInv, DaemonInv, ServiceTypeOK
  <1>1. CASE UNCHANGED allVars
    BY <1>0, <1>1 DEF allVars, vars, environmentVars, controlVars, deviceVars, clientVars, sleepVars, serviceVars, outsideVars,
                      ConfigInv, ClientInv, EntryInv, EntryOf, Concerns, Handled, ShownInv, Live, DaemonGoesOn, KnownTo,
                      IsLeft, Left, Unread
  <1>2. ASSUME SNext, ~Intrudes
        PROVE  ConfigInv(s)'
    <2>1. CASE ServiceCall(s)
      BY <1>0, <1>2, <2>1, ConfigCall
    <2>2. CASE OwnEvent(s)
      BY <1>0, <1>2, <2>2, ConfigEvent
    <2>3. CASE SwitchSession(s)
      <3>1. Apart(s) /\ conf' = conf /\ DaemonUntouched
        BY <2>3 DEF SwitchSession, Apart, serviceVars
      <3>2. inbox'[s] = inbox[s] \/ inbox'[s] = Append(inbox[s], PropertiesChanged)
        BY <2>3 DEF SwitchSession, PropertiesChanged
      <3>3. PropertiesChanged \in Received
        BY DEF PropertiesChanged, Received
      <3>4. Range(Append(inbox[s], PropertiesChanged)) = Unread(s) \cup {PropertiesChanged}
        BY <1>0, <3>3, RangeOfAppend DEF Unread
      <3>5. Unread(s) \subseteq Unread(s)'
        BY <3>2, <3>4 DEF Unread
      <3> QED
        BY <1>0, <1>2, <3>1, <3>5, ConfigApart
    <2>4. CASE DaemonStep
      <3>1. Apart(s) /\ conf' = conf /\ inbox' = Delivered(out')
        BY <2>4 DEF DaemonStep, Apart, serviceVars
      <3>2. Unread(s) \subseteq Unread(s)'
        BY <1>0, <3>1, DeliveredType DEF Unread
      <3> QED
        BY <1>0, <1>2, <2>4, <3>1, <3>2, ConfigApart
    <2>5. CASE DaemonDies \/ StartDaemon
      <3>1. Apart(s) /\ conf' = conf /\ Unread(s)' = Unread(s)
        BY <2>5 DEF DaemonDies, StartDaemon, Apart, serviceVars, Unread
      <3> QED
        BY <1>0, <1>2, <2>5, <3>1, ConfigApart
    <2>6. SNext => ServiceCall(s) \/ OwnEvent(s) \/ SwitchSession(s) \/ DaemonStep \/ DaemonDies \/ StartDaemon
      BY DEF SNext, OwnEvent
    <2> QED
      BY <1>2, <2>1, <2>2, <2>3, <2>4, <2>5, <2>6
  <1> QED
    BY <1>1, <1>2

(* The active service has said that it is ready and has reported since its *)
(* last file was changed; its devices show what their files say.           *)
LEMMA SettledConfigs ==
    ASSUME DaemonInv, ServiceTypeOK, AllHandlersInv, AllConfigsInv
    PROVE  ActiveConfigShown
  <1> SUFFICES ASSUME NEW s \in Session, Settled(s), sessionState[s] = "active", NEW d \in started
               PROVE  config[d] = conf[s][d]
    BY DEF ActiveConfigShown
  <1>1. Live(s) /\ Left(s) = {} /\ Unread(s) = {}
    BY NoCall, IdleListens DEF Settled, Live, AllHandlersInv, Unread, Range
  <1>2. d \in Device
    BY DEF DaemonInv, TypeOK, DevicesTypeOK
  <1> QED
    BY <1>1, <1>2 DEF AllConfigsInv, ConfigInv, ShownInv, IsLeft, WillAsk

(* Once the service of a single user has handled all it was told, what its *)
(* devices show is what it has read from its files: whatever was plugged,  *)
(* started, stopped, changed in a file, asked for by the GUI or restarted  *)
(* meanwhile.                                                              *)
THEOREM LoneConfigShown ==
    ASSUME \A s, t \in Session : s = t
    PROVE  SSpec => []ActiveConfigShown
  <1>1. ServiceTypeOK => [~Intrudes]_allVars
    BY DEF Intrudes, ServiceTypeOK
  <1>2. DaemonInv => FewClients
    BY LoneSession, FewSessions DEF DaemonInv
  <1>3. /\ DaemonInv /\ DaemonInv' /\ FewClients /\ ServiceTypeOK /\ AllHandlersInv /\ AllHandlersInv'
        /\ AllViewsInv /\ [SNext]_allVars /\ [~Intrudes]_allVars
        => AllViewsInv'
    BY ViewsStep
  <1>4. /\ DaemonInv /\ DaemonInv' /\ ServiceTypeOK /\ AllHandlersInv /\ AllReportsFollow /\ [SNext]_allVars
        => AllReportsFollow'
    BY ReportsStep DEF DaemonInv
  <1>5. /\ DaemonInv /\ DaemonInv' /\ ServiceTypeOK /\ ServiceTypeOK' /\ AllHandlersInv /\ AllHandlersInv'
        /\ AllReportsFollow /\ AllViewsInv /\ AllConfigsInv /\ [SNext]_allVars /\ [~Intrudes]_allVars
        => AllConfigsInv'
    BY ConfigsStep
  <1>6. DaemonInv /\ ServiceTypeOK /\ AllHandlersInv /\ AllConfigsInv => ActiveConfigShown
    BY SettledConfigs
  <1> QED
    BY <1>1, <1>2, <1>3, <1>4, <1>5, <1>6, ViewsInit, ReportsInit, ConfigsInit, ServiceTypeInvariant, HandlersAreOrderly,
       PTL DEF SSpec
=============================================================================
