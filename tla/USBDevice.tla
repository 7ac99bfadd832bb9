------------------------------ MODULE USBDevice ------------------------------
(***************************************************************************)
(* How the daemon takes a keyboard over from the kernel and gives it back: *)
(* KeyboardDriver::openDevice() and closeDevice() (keyboardDriver.cpp),    *)
(* the sequence of libusb calls behind them (libusb.cpp, usbinit.cpp), and *)
(* the two threads that read the keys and refresh the LCD screen in        *)
(* between.  One device; the main thread makes one libusb call per step,   *)
(* any of which may fail, all of which fail once the device is gone.       *)
(*                                                                         *)
(* A thread that still runs when its USBDevice is erased (it was not found *)
(* by joinDeviceThreads()) reads freed memory: it is not followed any      *)
(* further, see ThreadsEndFirst for when this cannot happen.             *)
(***************************************************************************)
EXTENDS Naturals, FiniteSets

CONSTANTS
    InterfacesOf,   \* external: the interfaces of each configuration of the device
    Configuration,  \* the bConfigurationValue the driver wants
    Interface,      \* the bInterfaceNumber it wants
    Settings,       \* external: what the descriptors of that interface may say
    MaxErrors,      \* DEVICE_LISTENING_THREAD_MAX_ERRORS, 3 in the code
    MaxOpens,       \* bound: how often the device is started
    MaxFailures     \* bound: calls that fail although the device is there

ASSUME InterfaceAssumption ==
    Configuration \in DOMAIN InterfacesOf /\ Interface \in InterfacesOf[Configuration]
ASSUME BoundsAssumption ==
    MaxErrors \in Nat /\ MaxOpens \in Nat \ {0} /\ MaxFailures \in Nat

Interfaces == UNION {InterfacesOf[c] : c \in DOMAIN InterfacesOf}

Kinds == {"listening", "LCD"}
Thread == Kinds \X (1 .. MaxOpens)
None == <<"none", 0>>

VARIABLES
    \* external: the device as the kernel sees it
    plugged, active, bound, claimed, setting, failures,
    \* the main thread
    pc,             \* the call it makes next
    todo,           \* interfaces setUSBDeviceActiveConfiguration() has yet to detach
    after,          \* what follows a close: the entry is kept or erased
    started,        \* DevicesManager::_startedDevices has the device
    opens, daemonRunning,
    \* the entry in _initializedDevices, 0 if there is none, and its members
    entry, handle, toRelease, toAttach, endpoints, requests, threadsStatus,
    fatalErrors, threadID,
    \* the threads: their state, and the entry they hold a reference to
    state, ref,
    \* history: what was found at libusb_open(), whether the way back is lost,
    \* and whether a close has overtaken the start of a thread
    found, spoiled, overtaken

kernelVars == <<plugged, active, bound, claimed, setting, failures>>
mainVars == <<pc, todo, after, started, opens, daemonRunning>>
interfaceVars == <<handle, toRelease, toAttach, endpoints>>
threadVars == <<requests, threadsStatus, fatalErrors, threadID, state, ref>>
history == <<found, spoiled, overtaken>>
vars == <<kernelVars, mainVars, entry, interfaceVars, threadVars, history>>

Init ==
    /\ plugged = TRUE
    /\ active \in DOMAIN InterfacesOf
    /\ bound \in SUBSET InterfacesOf[active]
    /\ claimed = {}
    /\ setting \in Settings
    /\ failures = 0
    /\ pc = "idle" /\ todo = {} /\ after = "keep"
    /\ started = FALSE /\ opens = 0 /\ daemonRunning = TRUE
    /\ entry = 0 /\ handle = FALSE
    /\ toRelease = {} /\ toAttach = {} /\ endpoints = {}
    /\ requests = TRUE /\ threadsStatus = TRUE /\ fatalErrors = 0
    /\ threadID = [k \in Kinds |-> None]
    /\ state = [t \in Thread |-> "none"]
    /\ ref = [t \in Thread |-> 0]
    /\ found = bound
    /\ spoiled = FALSE
    /\ overtaken = FALSE

-----------------------------------------------------------------------------
(* One libusb call of the main thread: it succeeds, or it fails. *)

CallSucceeds == plugged /\ UNCHANGED failures
CallFails ==
    /\ ~plugged \/ failures < MaxFailures
    /\ failures' = IF plugged THEN failures + 1 ELSE failures

Goto(place) == pc' = place

(* Mutant: the kernel drivers are attached without a release. *)
CloseWithoutRelease(then) == after' = then /\ Goto(IF requests THEN "attach" ELSE "close")

(* closeUSBDevice(): the interfaces are released, unless requests are skipped. *)
CloseUSBDevice(then) ==
    /\ after' = then
    /\ Goto(IF requests THEN "release" ELSE "close")

(* An exception on the way: the handle is closed, the entry is kept. *)
Abandon == CloseUSBDevice("keep")

(* DevicesManager::startDevice(): an entry a failed start left is used     *)
(* again, endpoints included.                                              *)
StartDevice ==
    /\ pc = "idle" /\ ~started /\ daemonRunning /\ opens < MaxOpens
    /\ opens' = opens + 1
    /\ Goto("open")
    /\ entry' = IF entry # 0 THEN entry ELSE opens + 1
    /\ UNCHANGED <<kernelVars, todo, after, started, daemonRunning, interfaceVars,
                   threadVars, history>>

(* seekUSBDevice() and libusb_open() *)
Open ==
    /\ pc = "open"
    /\ \/ /\ CallSucceeds
          /\ handle' = TRUE
          /\ found' = bound
          /\ spoiled' = FALSE
          /\ Goto("configuration")
       \/ /\ CallFails
          /\ Goto("idle")
          /\ UNCHANGED <<handle, found, spoiled>>
    /\ UNCHANGED <<overtaken, plugged, active, bound, claimed, setting, todo, after, started, opens,
                   daemonRunning, entry, toRelease, toAttach, endpoints, threadVars>>

(* setUSBDeviceActiveConfiguration(): nothing to do if the configuration   *)
(* is the wanted one; else every interface of every configuration whose    *)
(* descriptor can be read is to be detached.                               *)
GetConfiguration ==
    /\ pc = "configuration"
    /\ \/ /\ CallSucceeds
          /\ IF active = Configuration
             THEN Goto("find") /\ UNCHANGED todo
             ELSE /\ Goto("detach")
                  /\ todo' \in {Interfaces} \cup {InterfacesOf[c] : c \in DOMAIN InterfacesOf}
          /\ UNCHANGED after
       \/ CallFails /\ Abandon /\ UNCHANGED todo
    /\ UNCHANGED <<plugged, active, bound, claimed, setting, started, opens, daemonRunning,
                   entry, interfaceVars, threadVars, history>>

(* detachKernelDriverFromUSBDeviceInterface(): only what had to be         *)
(* detached is attached again.                                             *)
DetachKernelDriver(i) ==
    /\ bound' = bound \ {i}
    /\ toAttach' = IF i \in bound THEN toAttach \cup {i} ELSE toAttach

Detach ==
    /\ pc = "detach"
    /\ \E i \in todo :
          /\ todo' = todo \ {i}
          /\ \/ CallSucceeds /\ DetachKernelDriver(i) /\ UNCHANGED <<pc, after>>
             \/ CallFails /\ Abandon /\ UNCHANGED <<bound, toAttach>>
    /\ UNCHANGED <<plugged, active, claimed, setting, started, opens, daemonRunning,
                   entry, handle, toRelease, endpoints, threadVars, history>>

(* libusb_set_configuration() fails while a driver has an interface; when  *)
(* it succeeds the kernel binds its drivers to the new interfaces.         *)
SetConfiguration ==
    /\ pc = "detach" /\ todo = {}
    /\ \/ /\ CallSucceeds /\ bound = {}
          /\ active' = Configuration
          /\ bound' = InterfacesOf[Configuration]
          /\ found' = InterfacesOf[Configuration]
          /\ Goto("reattach")
          /\ UNCHANGED after
       \/ /\ CallFails \/ (bound # {} /\ UNCHANGED failures)
          /\ Abandon
          /\ UNCHANGED <<active, bound, found>>
    /\ UNCHANGED <<plugged, claimed, setting, todo, started, opens, daemonRunning,
                   entry, interfaceVars, threadVars, spoiled, overtaken>>

(* attachUSBDeviceInterfacesToKernelDrivers(): a failure is logged, and    *)
(* the interface is not tried again.                                       *)
AttachOne(i) ==
    /\ toAttach' = toAttach \ {i}
    /\ \/ /\ CallSucceeds /\ i \notin bound \cup claimed
          /\ bound' = bound \cup ({i} \cap InterfacesOf[active])
          /\ UNCHANGED spoiled
       \/ CallFails /\ spoiled' = TRUE /\ UNCHANGED bound
       \/ plugged /\ i \in bound \cup claimed /\ UNCHANGED <<failures, bound, spoiled>>

AttachKernelDrivers(next) ==
    /\ \/ \E i \in toAttach : AttachOne(i) /\ UNCHANGED pc
       \/ toAttach = {} /\ Goto(next) /\ UNCHANGED <<failures, bound, toAttach, spoiled>>
    /\ UNCHANGED <<plugged, active, claimed, setting, todo, after, started, opens,
                   daemonRunning, entry, handle, toRelease, endpoints, threadVars, found, overtaken>>

Reattach == pc = "reattach" /\ AttachKernelDrivers("find")

-----------------------------------------------------------------------------
(* findUSBDeviceInterface().  A configuration descriptor that cannot be    *)
(* read is skipped: the function returns without having claimed anything,  *)
(* and so it does if the interface is not for a HID device.                *)
FindInterface ==
    /\ pc = "find"
    /\ \/ CallSucceeds /\ setting = "expected" /\ Goto("detachOne") /\ UNCHANGED after
       \/ CallSucceeds /\ setting = "oneEndpoint" /\ Goto("detachOne") /\ UNCHANGED after
       \/ CallSucceeds /\ setting = "notHID" /\ Goto("initialize") /\ UNCHANGED after
       \/ CallSucceeds /\ setting = "otherNumber" /\ Abandon
       \/ CallFails /\ Goto("initialize") /\ UNCHANGED after
       \/ CallFails /\ Abandon
    /\ UNCHANGED <<plugged, active, bound, claimed, setting, todo, started, opens,
                   daemonRunning, entry, interfaceVars, threadVars, history>>

DetachOne ==
    /\ pc = "detachOne"
    /\ \/ CallSucceeds /\ DetachKernelDriver(Interface) /\ Goto("claim") /\ UNCHANGED after
       \/ CallFails /\ Abandon /\ UNCHANGED <<bound, toAttach>>
    /\ UNCHANGED <<plugged, active, claimed, setting, todo, started, opens, daemonRunning,
                   entry, handle, toRelease, endpoints, threadVars, history>>

ClaimInterface ==
    /\ pc = "claim"
    /\ \/ /\ CallSucceeds
          /\ claimed' = claimed \cup {Interface}
          /\ toRelease' = toRelease \cup {Interface}
          /\ Goto("check")
          /\ UNCHANGED after
       \/ CallFails /\ Abandon /\ UNCHANGED <<claimed, toRelease>>
    /\ UNCHANGED <<plugged, active, bound, setting, todo, started, opens, daemonRunning,
                   entry, handle, toAttach, endpoints, threadVars, history>>

(* The configuration is read again; then the endpoints are looked for. *)
EndpointsOf(s) == IF s = "expected" THEN {"keys", "LCD"} ELSE {"keys"}

(* Mutant: the device is opened whatever endpoints were found. *)
AnyEndpoint ==
    /\ pc = "check"
    /\ \/ CallSucceeds /\ endpoints' = endpoints \cup EndpointsOf(setting)
          /\ Goto("initialize") /\ UNCHANGED after
       \/ CallFails /\ Abandon /\ UNCHANGED endpoints
    /\ UNCHANGED <<plugged, active, bound, claimed, setting, todo, started, opens,
                   daemonRunning, entry, handle, toRelease, toAttach, threadVars, history>>

FindEndpoints ==
    /\ pc = "check"
    /\ \/ /\ CallSucceeds
          /\ IF active # Configuration
             THEN Abandon /\ UNCHANGED endpoints
             ELSE /\ endpoints' = endpoints \cup EndpointsOf(setting)
                  /\ IF endpoints' = {"keys", "LCD"}
                     THEN Goto("initialize") /\ UNCHANGED after
                     ELSE Abandon
       \/ CallFails /\ Abandon /\ UNCHANGED endpoints
    /\ UNCHANGED <<plugged, active, bound, claimed, setting, todo, started, opens,
                   daemonRunning, entry, handle, toRelease, toAttach, threadVars, history>>

(* The rest of openDevice(): the reports that initialize and reset the     *)
(* device are sent (their failure is logged), the threads are spawned.     *)
Spawn(k, next) ==
    \/ state' = [state EXCEPT ![<<k, opens>>] = "spawned"] /\ Goto(next) /\ UNCHANGED failures
    \/ failures < MaxFailures /\ failures' = failures + 1 /\ Goto("join") /\ UNCHANGED state

SpawnThreads ==
    /\ \/ pc = "initialize" /\ Spawn("LCD", "listen") /\ UNCHANGED started
       \/ pc = "listen" /\ Spawn("listening", "idle") /\ started' = (pc' = "idle")
    /\ threadsStatus' = (threadsStatus /\ pc' # "join")
    /\ UNCHANGED <<plugged, active, bound, claimed, setting, todo, after, opens, daemonRunning,
                   entry, interfaceVars, requests, fatalErrors, threadID, ref, history>>

-----------------------------------------------------------------------------
(* closeDevice() *)
CloseDevice(skipUSBRequests) ==
    /\ pc = "idle" /\ started
    /\ requests' = (requests /\ ~skipUSBRequests)
    /\ spoiled' = (spoiled \/ ~requests')
    /\ threadsStatus' = FALSE
    /\ Goto("join")
    /\ UNCHANGED <<kernelVars, todo, after, started, opens, daemonRunning, entry,
                   interfaceVars, fatalErrors, threadID, state, ref, found, overtaken>>

(* A client asks for it, or the computer goes to sleep; the daemon exits;  *)
(* the threads gave up; udev reports the device gone.                      *)
StopDevice == CloseDevice(FALSE)
StopAtExit == ~daemonRunning /\ CloseDevice(FALSE)
StopDead == ~threadsStatus /\ CloseDevice(TRUE)
StopUnplugged == ~plugged /\ CloseDevice(TRUE)

(* joinDeviceThreads(): the main thread waits for the thread whose ID is   *)
(* recorded; one that has not recorded it yet is not found.                *)
Ended(t) == t # None => state[t] = "none"

(* Mutant: the LCD screen thread is not waited for. *)
JoinListening ==
    /\ pc = "join"
    /\ Ended(threadID["listening"])
    /\ CloseUSBDevice("erase")
    /\ overtaken' = (overtaken \/ \E t \in Thread : state[t] = "spawned")
    /\ UNCHANGED <<kernelVars, todo, started, opens, daemonRunning, entry, interfaceVars,
                   threadVars, found, spoiled>>

JoinThreads ==
    /\ pc = "join"
    /\ \A k \in Kinds : Ended(threadID[k])
    /\ CloseUSBDevice("erase")
    /\ overtaken' = (overtaken \/ \E t \in Thread : state[t] = "spawned")
    /\ UNCHANGED <<kernelVars, todo, started, opens, daemonRunning, entry, interfaceVars,
                   threadVars, found, spoiled>>

(* releaseUSBDeviceInterfaces(): the same, a failure is only logged. *)
Release ==
    /\ pc = "release"
    /\ \/ \E i \in toRelease :
             /\ toRelease' = toRelease \ {i}
             /\ \/ CallSucceeds /\ claimed' = claimed \ {i} /\ UNCHANGED spoiled
                \/ CallFails /\ spoiled' = TRUE /\ UNCHANGED claimed
             /\ UNCHANGED pc
       \/ toRelease = {} /\ Goto("attach") /\ UNCHANGED <<failures, claimed, toRelease, spoiled>>
    /\ UNCHANGED <<plugged, active, bound, setting, todo, after, started, opens,
                   daemonRunning, entry, handle, toAttach, endpoints, threadVars, found, overtaken>>

Attach == pc = "attach" /\ AttachKernelDrivers("close")

(* libusb_close() gives up what is still claimed.  The members of an entry *)
(* that is erased take the values the next USBDevice is constructed with.  *)
NewMembers ==
    /\ toRelease' = {} /\ toAttach' = {} /\ endpoints' = {}
    /\ requests' = TRUE /\ threadsStatus' = TRUE /\ fatalErrors' = 0
    /\ threadID' = [k \in Kinds |-> None]

Close ==
    /\ pc = "close"
    /\ handle' = FALSE
    /\ claimed' = {}
    /\ todo' = {}
    /\ IF after = "erase"
       THEN entry' = 0 /\ NewMembers
       ELSE UNCHANGED <<entry, toRelease, toAttach, endpoints, requests, threadsStatus,
                        fatalErrors, threadID>>
    /\ after' = "keep"
    /\ started' = FALSE
    /\ Goto("idle")
    /\ UNCHANGED <<plugged, active, bound, setting, failures, opens, daemonRunning,
                   state, ref, history>>

-----------------------------------------------------------------------------
(* The threads.  A new one looks for the entry and records its ID there. *)
EnterLoop(t) ==
    /\ state[t] = "spawned"
    /\ IF entry = 0
       THEN state' = [state EXCEPT ![t] = "none"] /\ UNCHANGED <<ref, threadID>>
       ELSE /\ state' = [state EXCEPT ![t] = "running"]
            /\ ref' = [ref EXCEPT ![t] = entry]
            /\ threadID' = [threadID EXCEPT ![t[1]] = t]
    /\ UNCHANGED <<kernelVars, mainVars, entry, interfaceVars, requests, threadsStatus,
                   fatalErrors, history>>

InLoop(t) == state[t] = "running" /\ ref[t] = entry

(* checkDeviceFatalErrors() *)
GiveUp(t) ==
    /\ InLoop(t) /\ daemonRunning
    /\ fatalErrors > MaxErrors /\ threadsStatus
    /\ threadsStatus' = FALSE
    /\ UNCHANGED <<kernelVars, mainVars, entry, interfaceVars, requests, fatalErrors,
                   threadID, state, ref, history>>

(* listenLoop() and LCDScreenLoop() end. *)
LeaveLoop(t) ==
    /\ InLoop(t)
    /\ ~threadsStatus \/ ~daemonRunning
    /\ state' = [state EXCEPT ![t] = "none"]
    /\ ref' = [ref EXCEPT ![t] = 0]
    /\ UNCHANGED <<kernelVars, mainVars, entry, interfaceVars, requests, threadsStatus,
                   fatalErrors, threadID, history>>

(* Mutant: the errors are compared with the limit one transfer too late. *)
FailsOnceMore(t) ==
    /\ InLoop(t) /\ t[1] = "listening"
    /\ threadsStatus /\ daemonRunning /\ requests /\ fatalErrors <= MaxErrors + 1
    /\ ~plugged \/ failures < MaxFailures
    /\ failures' = IF plugged THEN failures + 1 ELSE failures
    /\ fatalErrors' = fatalErrors + 1
    /\ UNCHANGED <<plugged, active, bound, claimed, setting, mainVars, entry, interfaceVars,
                   requests, threadsStatus, threadID, state, ref, history>>

(* Mutant: a transfer on a device that is gone is not an error. *)
FailsUncounted(t) ==
    /\ InLoop(t) /\ t[1] = "listening"
    /\ threadsStatus /\ daemonRunning /\ requests /\ fatalErrors <= MaxErrors
    /\ ~plugged \/ failures < MaxFailures
    /\ failures' = IF plugged THEN failures + 1 ELSE failures
    /\ fatalErrors' = IF plugged THEN fatalErrors + 1 ELSE fatalErrors
    /\ UNCHANGED <<plugged, active, bound, claimed, setting, mainVars, entry, interfaceVars,
                   requests, threadsStatus, threadID, state, ref, history>>

(* getPressedKeys(): a transfer that fails counts, for the listening       *)
(* thread only; the others change nothing here.                            *)
TransferFails(t) ==
    /\ InLoop(t) /\ t[1] = "listening"
    /\ threadsStatus /\ daemonRunning /\ requests /\ fatalErrors <= MaxErrors
    /\ ~plugged \/ failures < MaxFailures
    /\ failures' = IF plugged THEN failures + 1 ELSE failures
    /\ fatalErrors' = fatalErrors + 1
    /\ UNCHANGED <<plugged, active, bound, claimed, setting, mainVars, entry, interfaceVars,
                   requests, threadsStatus, threadID, state, ref, history>>

(* The user unplugs the device; the daemon is told to exit. *)
Unplug ==
    /\ plugged
    /\ plugged' = FALSE
    /\ bound' = {} /\ claimed' = {}
    /\ UNCHANGED <<active, setting, failures, mainVars, entry, interfaceVars, threadVars, history>>

ExitDaemon ==
    /\ daemonRunning
    /\ daemonRunning' = FALSE
    /\ UNCHANGED <<kernelVars, pc, todo, after, started, opens, entry, interfaceVars,
                   threadVars, history>>

Call == \/ Open \/ GetConfiguration \/ Detach \/ SetConfiguration \/ Reattach
        \/ FindInterface \/ DetachOne \/ ClaimInterface \/ FindEndpoints
        \/ SpawnThreads \/ JoinThreads \/ Release \/ Attach \/ Close

Loop(t) == EnterLoop(t) \/ GiveUp(t) \/ LeaveLoop(t) \/ TransferFails(t)

Next == \/ StartDevice \/ Call \/ StopDevice \/ StopAtExit \/ StopDead \/ StopUnplugged
        \/ \E t \in Thread : Loop(t)
        \/ Unplug \/ ExitDaemon

Spec == Init /\ [][Next]_vars

(* libusb calls return and threads are scheduled; the main thread looks at *)
(* the threads' status at every turn of its loop and closes the devices    *)
(* when it leaves it.  That udev reports the unplugging is not assumed.    *)
FairSpec ==
        /\ Spec
        /\ WF_vars(Call) /\ WF_vars(StopDead) /\ WF_vars(StopAtExit)
        /\ \A t \in Thread : WF_vars(Loop(t))

-----------------------------------------------------------------------------
TypeOK ==
    /\ active \in DOMAIN InterfacesOf
    /\ bound \subseteq InterfacesOf[active] /\ claimed \subseteq {Interface}
    /\ toRelease \subseteq {Interface} /\ toAttach \subseteq Interfaces
    /\ todo \subseteq Interfaces /\ endpoints \subseteq {"keys", "LCD"}
    /\ fatalErrors \in 0 .. MaxErrors + 1
    /\ entry \in 0 .. opens /\ opens \in 0 .. MaxOpens
    /\ \A k \in Kinds : threadID[k] \in {None} \cup ({k} \X (1 .. MaxOpens))
    /\ \A t \in Thread : state[t] \in {"none", "spawned", "running"}

(* Once the device is closed, after a start that failed or after a stop,   *)
(* its interfaces have the kernel drivers they had when it was opened,     *)
(* unless a call that gives them back failed or had to be skipped          *)
(* (closeUSBDevice(): "set them back to the same state in which we found   *)
(* them").                                                                 *)
FoundAgain == pc = "idle" /\ ~handle /\ plugged /\ ~spoiled /\ opens > 0 => bound = found

(* A start that succeeds has taken the keyboard whole or not at all:       *)
(* either its interface is claimed, without a kernel driver, under the     *)
(* wanted configuration and with both endpoints known, or nothing is       *)
(* claimed or to be given back and the drivers are those that were found   *)
(* (findUSBDeviceInterface() returned empty-handed, libusb.cpp:392-397 and *)
(* 474-480).  The comments promise the first case only: "throws on any     *)
(* failure" (keyboardDriver.cpp:973 and 983).                              *)
TakenWhole ==
    /\ claimed = {Interface} /\ toRelease = {Interface} /\ Interface \notin bound
    /\ active = Configuration /\ endpoints = {"keys", "LCD"}

LeftAlone ==
    /\ claimed = {} /\ toRelease = {} /\ toAttach = {}
    /\ bound = found \/ spoiled

WholeOrNothing == started /\ pc = "idle" /\ plugged => TakenWhole \/ LeftAlone

(* As long as no close has overtaken the start of a thread, the handle is  *)
(* closed and the entry erased only once every thread of the device has    *)
(* ended, and none is left for the next start to meet.  closeDevice()      *)
(* finds the threads by the IDs they record themselves: it does not wait   *)
(* for one that has not recorded its own yet, and that thread may outlive  *)
(* the device.                                                             *)
ThreadsEndFirst ==
    ~overtaken =>
        /\ pc \in {"release", "attach", "close"} \/ (pc = "idle" /\ ~handle) =>
              \A t \in Thread : state[t] \notin {"spawned", "running"}
        /\ \A t \in Thread : state[t] = "running" => ref[t] = entry

(* A device that is unplugged is closed in the end even if udev never says *)
(* so: the transfers fail, the listening thread gives up, the main thread  *)
(* closes the device (checkInitializedDevicesThreadsStatus()).             *)
UnpluggedIsClosed == ~plugged ~> []~started
=============================================================================
