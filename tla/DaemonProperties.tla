-------------------------- MODULE DaemonProperties --------------------------
(***************************************************************************)
(* What the daemon has to get right, whatever its clients, its devices and *)
(* logind do.  Properties about what clients and users have seen need      *)
(* history variables and are in module DaemonHistory.                      *)
(***************************************************************************)
EXTENDS Daemon

(* The members of the devices manager and of the driver. *)
DevicesTypeOK ==
    /\ plugged \subseteq Device
    /\ uevents \in Seq({"add", "remove"})
    /\ daemonRunning \in BOOLEAN
    /\ phase \in Phases
    /\ started \subseteq Device
    /\ stopped \subseteq Device
    /\ unplugged \subseteq Device
    /\ sleeping \subseteq Device
    /\ initialized \subseteq Device
    /\ dead \subseteq Device
    /\ config \in [Device -> Config]
    /\ numClients \in 0..255
    /\ out \in Seq(Signal)

(* The members of the clients manager. *)
ClientsTypeOK ==
    /\ connected \subseteq ClientID
    /\ client \in [ClientID -> Client]
    /\ numActive \in Nat

(* The sleep inhibition and the exit sequence. *)
SleepTypeOK ==
    /\ waits \in 0..MaxWaits
    /\ delayLock \in BOOLEAN
    /\ subscribed \in BOOLEAN
    /\ power \in {"awake", "preparing", "asleep"}
    /\ sleepMsgs \in Seq(BOOLEAN)

(* Every variable has its type: what devices show is a configuration, and  *)
(* the unsigned counters are natural numbers.                              *)
TypeOK == DevicesTypeOK /\ ClientsTypeOK /\ SleepTypeOK

-----------------------------------------------------------------------------
(* Safety.                                                                 *)

(* Two connected clients never belong to the same session, although a      *)
(* session may register again after a crash that the daemon did not see:   *)
(* registerClient() refuses the session of a live client and unregisters   *)
(* all unresponsive ones before it accepts another.                        *)
SessionsDistinct ==
    \A c1, c2 \in connected : client[c1].session = client[c2].session => c1 = c2

(* _numActive is the number of active clients, through updates,            *)
(* unregistrations and evictions: the unsigned counter never wraps, and it *)
(* is 0 when nobody is active.                                             *)
NumActiveExact == numActive = Cardinality(Active)

(* While no user is active, no started device shows what a user configured, *)
(* whichever way the last active client left and whichever way the device  *)
(* was started.                                                            *)
IdleDevicesReset == numActive = 0 => \A d \in started : config[d] = DefaultConfig

(* The maps agree: a started device is not stopped as well, and the driver *)
(* has an entry for it, without which it could neither be configured nor   *)
(* closed.                                                                 *)
StartedAreInitialized == started \subseteq initialized /\ started \cap stopped = {}

(* A suspend is announced only when the devices of the one before have     *)
(* been dealt with, so that stopInitializedDevices() forgets none of them; *)
(* and a resume only when the delay lock was released, so that             *)
(* inhibitSleepState() overwrites no open descriptor.                      *)
SleepProtocol ==
    sleepMsgs # <<>> => IF Head(sleepMsgs) THEN sleeping = {} ELSE ~delayLock

(* What the invariants above need to be inductive: no device is known      *)
(* before the first enumeration; a device that is not started shows the    *)
(* default configuration; and the signals of logind alternate, so that the *)
(* state of the machine tells which one comes after those that wait.       *)
NothingBeforeStart == phase = "starting" => started = {} /\ stopped = {} /\ unplugged = {}

ClosedDevicesReset == \A d \in Device \ started : config[d] = DefaultConfig

NextIsSuspend == IF sleepMsgs = <<>> THEN power = "awake" ELSE Head(sleepMsgs)

SleepMsgsAlternate ==
    IF subscribed
    THEN /\ \A i \in 1..(Len(sleepMsgs) - 1) : sleepMsgs[i + 1] = ~sleepMsgs[i]
         /\ sleepMsgs # <<>> => sleepMsgs[Len(sleepMsgs)] = (power # "awake")
         /\ IF NextIsSuspend THEN sleeping = {} ELSE ~delayLock
    ELSE sleepMsgs = <<>>

(* The invariant that the proofs are about. *)
IndInv ==
    /\ TypeOK
    /\ SessionsDistinct
    /\ NumActiveExact
    /\ IdleDevicesReset
    /\ StartedAreInitialized
    /\ NothingBeforeStart
    /\ ClosedDevicesReset
    /\ SleepMsgsAlternate

(* The statuses that getDeviceStatus() gives. *)
Status == [d \in Device |-> DeviceStatus(d)]

(* The status of a device that each signal tells. *)
NewStatus == [DevicesStarted |-> "started", DevicesStopped |-> "stopped",
              DevicesUnplugged |-> "unplugged"]

Lifecycle == INSTANCE DeviceLifecycle
    WITH status <- Status,
         mode <- IF phase \in {"starting", "exited"} THEN phase ELSE "running"

(* Whoever starts, stops, plugs in or loses a device, the statuses that    *)
(* getDeviceStatus() reports follow one another as DeviceLifecycle says.   *)
LifecycleSpec == Lifecycle!Spec

-----------------------------------------------------------------------------
(* Liveness, when the machine does not suspend.                            *)

(* Told to exit, the daemon does, even if its clients go on calling it and *)
(* never unregister.                                                       *)
Exits == ~daemonRunning ~> phase = "exited"

(* A started device that is gone from the bus does not stay started, nor   *)
(* does one whose threads gave up, although it may still be there.         *)
LostIsNotStarted ==
    \A d \in Device :
        /\ d \in started \ plugged ~> d \notin started \ plugged
        /\ d \in started \cap dead ~> d \notin started \cap dead
=============================================================================
