------------------------------- MODULE Daemon -------------------------------
(***************************************************************************)
(* The daemon: devices manager, clients manager and sleep inhibition       *)
(* (src/src/bin/daemon/{devicesManager,clientsManager,sleepInhibition,     *)
(* daemon}.cpp) composed as GLogiKDaemon::run() does.  One thread runs     *)
(* them all, so a step of the daemon is one handler: a udev event, a D-Bus *)
(* message, a check of the listening threads, or a step of the exit        *)
(* sequence.  The environment plugs and unplugs devices, makes listening   *)
(* threads fail, sends SIGTERM and suspends the machine.                   *)
(***************************************************************************)
EXTENDS ClientsManager

CONSTANTS
    MaxWaits,       \* turns of the loop in waitForClientsDisconnections(): 40 in the code
    MaxSleepMsgs,   \* bound: signals of logind waiting when a suspend is announced
    InhibitFails,   \* can a call of Inhibit() fail?
    DelayExpires    \* can logind suspend without waiting for the delay lock any longer?

ASSUME MaxWaitsAssumption == MaxWaits \in Nat
ASSUME MaxSleepMsgsAssumption == MaxSleepMsgs \in Nat
ASSUME LogindAssumption == InhibitFails \in BOOLEAN /\ DelayExpires \in BOOLEAN

VARIABLES
    waits,          \* turns made so far in waitForClientsDisconnections()
    delayLock,      \* is the delay lock of logind held? (_delayLockPID # -1)
    subscribed,     \* does the daemon receive PrepareForSleep?
    power,          \* environment: the state of the machine
    sleepMsgs       \* PrepareForSleep signals not yet received

sleepVars == <<delayLock, subscribed, power, sleepMsgs>>
vars == <<plugged, uevents, daemonRunning, phase, started, stopped, unplugged, sleeping,
          initialized, dead, config, numClients, out, connected, client, numActive,
          waits, delayLock, subscribed, power, sleepMsgs>>

(* What inhibitSleepState() makes of the lock: a descriptor is only stored *)
(* when logind answers.                                                    *)
Inhibited(lock) == IF InhibitFails THEN {lock, TRUE} ELSE {TRUE}

(* startSleepInhibition(): without a reply of logind to the first Inhibit  *)
(* call, the daemon does not listen to PrepareForSleep at all.             *)
Init ==
    /\ DevicesManagerInit
    /\ ClientsManagerInit
    /\ waits = 0
    /\ delayLock \in Inhibited(FALSE)
    /\ subscribed = delayLock
    /\ power = "awake"
    /\ sleepMsgs = <<>>

-----------------------------------------------------------------------------
(* The exit sequence of GLogiKDaemon::run().                               *)

SigTerm ==
    /\ phase # "exited"
    /\ daemonRunning
    /\ daemonRunning' = FALSE
    /\ out' = <<>>
    /\ UNCHANGED <<environmentVars, deviceVars, phase, numClients, clientVars, waits, sleepVars>>

(* The monitoring ends, and waitForClientsDisconnections() starts.         *)
StartWaiting ==
    /\ phase' = "draining"
    /\ waits' = 0
    /\ out' = SignalToClients(NumClients(connected), "DaemonIsStopping", FALSE)
    /\ UNCHANGED <<environmentVars, deviceVars, daemonRunning, numClients, clientVars, sleepVars>>

LeaveLoop == phase = "monitoring" /\ ~daemonRunning /\ StartWaiting

(* A udev function failed: startMonitoring() throws. *)
MonitoringFails == phase \in {"starting", "monitoring"} /\ StartWaiting

Wait ==
    /\ phase = "draining"
    /\ waits < MaxWaits
    /\ connected # {}
    /\ waits' = waits + 1
    /\ out' = <<>>
    /\ UNCHANGED <<environmentVars, controlVars, deviceVars, numClients, clientVars, sleepVars>>

(* The end of waitForClientsDisconnections(); mutant: it waits for the     *)
(* clients however long they take.                                         *)
WaitForAll == connected = {}
WaitIsOver == waits = MaxWaits \/ connected = {}

(* stopSleepInhibition(), then the destructors of the clients manager and  *)
(* of the devices manager.                                                 *)
Exit ==
    /\ phase = "draining"
    /\ WaitIsOver
    /\ phase' = "exited"
    /\ delayLock' = FALSE
    /\ connected' = {}
    /\ client' = [c \in ClientID |-> NoClient]
    /\ numActive' = 0
    /\ CloseDevices(started)
    /\ started' = {}
    /\ stopped' = {}
    /\ sleeping' = {}
    /\ out' = <<>>
    /\ UNCHANGED <<environmentVars, daemonRunning, unplugged, numClients, waits, subscribed,
                   power, sleepMsgs>>

-----------------------------------------------------------------------------
(* Suspend and resume.                                                     *)

OnlySleep ==
    /\ out' = <<>>
    /\ UNCHANGED <<environmentVars, controlVars, deviceVars, numClients, clientVars, waits,
                   delayLock, subscribed>>

(* logind announces the suspend, waits for the delay lock to be released   *)
(* (but not for ever), suspends the machine, and announces the resume.     *)
PrepareForSleep ==
    /\ power = "awake"
    /\ Len(sleepMsgs) < MaxSleepMsgs
    /\ power' = "preparing"
    /\ sleepMsgs' = IF subscribed THEN Append(sleepMsgs, TRUE) ELSE sleepMsgs
    /\ OnlySleep

Suspend ==
    /\ power = "preparing"
    /\ ~delayLock \/ DelayExpires
    /\ power' = "asleep"
    /\ OnlySleep
    /\ UNCHANGED sleepMsgs

Resume ==
    /\ power = "asleep"
    /\ power' = "awake"
    /\ sleepMsgs' = IF subscribed THEN Append(sleepMsgs, FALSE) ELSE sleepMsgs
    /\ OnlySleep

(* handleSleepEvent() *)
HandleSleepEvent(mode) ==
    /\ Listening
    /\ sleepMsgs # <<>>
    /\ Head(sleepMsgs) = mode
    /\ sleepMsgs' = Tail(sleepMsgs)
    /\ out' = <<>>
    /\ UNCHANGED <<environmentVars, controlVars, numClients, clientVars, waits, subscribed, power>>

GoToSleep ==
    /\ HandleSleepEvent(TRUE)
    /\ StopInitializedDevices
    /\ delayLock' = FALSE

WakeUp(opened, kept) ==
    /\ HandleSleepEvent(FALSE)
    /\ StartSleepingDevices(opened, kept)
    /\ delayLock' \in Inhibited(delayLock)

-----------------------------------------------------------------------------
(* The steps of the main thread: none while the machine is asleep.         *)

LeavesClients == UNCHANGED <<clientVars, waits, sleepVars>>

Start ==
    /\ \E opened \in SUBSET plugged : \E kept \in SUBSET (plugged \ opened) :
          StartMonitoring(opened, kept)
    /\ LeavesClients

UEvent == (HotplugAdd \/ HotplugRemove) /\ LeavesClients

ThreadsCheck == CheckThreads /\ LeavesClients

ClientCall ==
    /\ \/ \E s \in Session :
            \/ RegisterRefused(s)
            \/ RegisterFailed(s)
            \/ \E c \in ClientID : RegisterClient(s, c)
       \/ \E c \in ClientID :
            \/ UnregisterClient(c)
            \/ \E state \in {"active", "online"} : UpdateClientState(c, state)
            \/ ToggleClientReadyPropertie(c)
            \/ \E d \in Device :
                 \/ StopDevice(c, d)
                 \/ \E opened, kept \in SUBSET {d} :
                      StartDevice(c, d, opened, kept) \/ RestartDevice(c, d, opened, kept)
                 \/ GetDeviceProperties(c, d)
                 \/ DeleteDeviceConfiguration(c, d)
                 \/ \E v \in Config : SetDeviceConfig(c, d, v)
    /\ UNCHANGED <<waits, sleepVars>>

SleepEvent ==
    \/ GoToSleep
    \/ \E opened, kept \in SUBSET sleeping : WakeUp(opened, kept)

MainThread ==
    /\ power # "asleep"
    /\ \/ Start
       \/ UEvent
       \/ ThreadsCheck
       \/ ClientCall
       \/ SleepEvent
       \/ LeaveLoop
       \/ MonitoringFails
       \/ Wait
       \/ Exit

(* What happens around it touches none of its containers. *)
Environment ==
    /\ \/ /\ \/ \E d \in Device : Plug(d) \/ Unplug(d)
             \/ \E d \in Device : power # "asleep" /\ ThreadsGiveUp(d)
          /\ LeavesClients
       \/ power # "asleep" /\ SigTerm
       \/ PrepareForSleep
       \/ Suspend
       \/ Resume
    /\ UNCHANGED <<started, stopped, unplugged, sleeping, initialized, config>>

(* A daemon that has exited stays so. *)
Exited == phase = "exited" /\ UNCHANGED vars

Next == MainThread \/ Environment \/ Exited

Spec == Init /\ [][Next]_vars

(* The main loop turns as long as it is not told to leave: each turn       *)
(* receives one udev event if there is one, every tenth checks the         *)
(* threads, and the exit sequence does not depend on any other process.    *)
(* Nothing obliges a client to call.                                       *)
Awake(A) == power # "asleep" /\ A

Fairness ==
    /\ WF_vars(Awake(Start))
    /\ WF_vars(Awake(UEvent))
    /\ WF_vars(Awake(ThreadsCheck))
    /\ WF_vars(Awake(LeaveLoop))
    /\ WF_vars(Awake(Wait \/ Exit))

FairSpec == Spec /\ Fairness
=============================================================================
