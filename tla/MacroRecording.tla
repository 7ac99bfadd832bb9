--------------------------- MODULE MacroRecording ---------------------------
(***************************************************************************)
(* The M1, M2, M3 and MR keys of a device and the recording of macros:     *)
(* the listening thread (KeyboardDriver::listenLoop) and the main thread   *)
(* of the daemon, which resets the device, gives it the configuration of   *)
(* the active user and closes it.  They share atomic members of USBDevice  *)
(* and no lock, so that a step here is one access to a shared member.      *)
(***************************************************************************)
EXTENDS Naturals, FiniteSets

CONSTANTS
    Bank,           \* the M keys, each with its LED
    NoBank,         \* M0: no M key is enabled
    Reports         \* the sets of M, MR and G keys that are pressed at once

ASSUME BankAssumption == IsFiniteSet(Bank) /\ NoBank \notin Bank /\ {"MR", "G"} \cap Bank = {}

ASSUME ReportsAssumption == Reports \subseteq SUBSET (Bank \cup {"MR", "G"})

VARIABLES
    daemonRunning,  \* DaemonControl::isDaemonRunning()
    threadsStatus,  \* USBDevice::_threadsStatus
    exitRecord,     \* _exitMacroRecordMode
    ledsMask,       \* _MxKeysLedsMask
    requests,       \* getUSBRequestsStatus(): FALSE once they are to be skipped
    leds,           \* hardware: the LEDs that are lit
    pressed,        \* the M, MR and G keys in _pressedRKeysMask
    pc,             \* where the listening thread is
    mrOn,           \* its local MR_ON
    disable,        \* its argument disableMR
    toSend,         \* the LEDs it is about to send
    toldBank,       \* the bank of the last DeviceMBankSwitch
    untold,         \* history: the switch after it was abandoned
    lost,           \* history: the last report for the LEDs was not delivered
    mainPc,         \* where the main thread is
    mainToSend      \* the LEDs the main thread is about to send

usb == <<requests, leds, lost>>
told == <<toldBank, untold>>
shared == <<daemonRunning, threadsStatus, exitRecord, ledsMask, usb>>
listener == <<pressed, pc, mrOn, disable, toSend, told>>
main == <<mainPc, mainToSend>>
vars == <<shared, listener, main>>

Led == Bank \cup {"MR"}
Key == Led \cup {"G"}

(* openDevice() has reset the device and spawned the thread. *)
Init ==
    /\ daemonRunning = TRUE
    /\ threadsStatus = TRUE
    /\ exitRecord = TRUE
    /\ ledsMask = {}
    /\ requests = TRUE /\ leds = {} /\ lost = FALSE
    /\ pressed = {}
    /\ pc = "spawned"
    /\ mrOn = FALSE
    /\ disable = FALSE
    /\ toSend = {}
    /\ toldBank = NoBank /\ untold = FALSE
    /\ mainPc = "idle"
    /\ mainToSend = {}

-----------------------------------------------------------------------------
(* The listening thread.  Its locals end with the function they are of.    *)

Looping == daemonRunning /\ threadsStatus

Goto(from, to) == pc = from /\ pc' = to /\ UNCHANGED main

(* The thread stores its ID, without which it cannot be joined. *)
Register ==
    /\ Goto("spawned", "listen")
    /\ UNCHANGED <<shared, pressed, mrOn, disable, toSend, told>>

Leave ==
    /\ Goto("listen", "ended")
    /\ ~Looping
    /\ UNCHANGED <<shared, pressed, mrOn, disable, toSend, told>>

(* Too many transfers have failed: checkDeviceFatalErrors() in any loop of *)
(* this thread or of the LCD thread.                                       *)
GiveUp ==
    /\ threadsStatus
    /\ threadsStatus' = FALSE
    /\ UNCHANGED <<daemonRunning, exitRecord, ledsMask, usb, listener, main>>

(* getPressedKeys() waits for an event in either loop.  At the timeout, or *)
(* if the transfer fails, nothing has changed.                             *)
Poll ==
    /\ Goto("listen", "poll")
    /\ Looping /\ requests
    /\ UNCHANGED <<shared, pressed, mrOn, disable, toSend, told>>

Timeout ==
    /\ Goto("poll", "listen") \/ Goto("transfer", "record")
    /\ UNCHANGED <<shared, pressed, mrOn, disable, toSend, told>>

(* A transfer that is skipped leaves an empty buffer, in which no key is   *)
(* pressed, with the length of the previous event.                         *)
SkipTransfer ==
    /\ Looping /\ ~requests
    /\ Goto("listen", "listen") \/ (~exitRecord /\ Goto("record", "record"))
    /\ pressed' \in {pressed, {}}
    /\ UNCHANGED <<shared, mrOn, disable, toSend, told>>

(* It is an event of 8 bytes (a standard key, which may be recorded) or    *)
(* one in which no key is pressed.                                         *)
OtherEvent ==
    /\ Goto("poll", "listen") \/ Goto("transfer", "record")
    /\ pressed' = {}
    /\ UNCHANGED <<shared, mrOn, disable, toSend, told>>

(* It is an event of 5 bytes; {} stands for the keys of the LCD alone. *)
ListenKeys(keys) ==
    /\ Goto("poll", "update")
    /\ pressed' = keys
    /\ UNCHANGED <<shared, mrOn, disable, toSend, told>>

(* updateDeviceMxKeysLedsMask(), one access to the mask after the other    *)
PressedBank == pressed \cap Bank

ReadMR ==
    /\ Goto("update", IF PressedBank = {} THEN "mr" ELSE "bank")
    /\ mrOn' = ("MR" \in ledsMask)
    /\ UNCHANGED <<shared, pressed, disable, toSend, told>>

(* One M key is taken: the first in the order of the keys.  toSend holds   *)
(* it if it was not enabled yet.                                           *)
ReadBank ==
    /\ Goto("bank", "clear")
    /\ \E m \in PressedBank : toSend' = {m} \ ledsMask
    /\ UNCHANGED <<shared, pressed, mrOn, disable, told>>

ClearMask ==
    /\ Goto("clear", "enable")
    /\ ledsMask' = {}
    /\ UNCHANGED <<daemonRunning, threadsStatus, exitRecord, usb, pressed, mrOn, disable,
                   toSend, told>>

(* DeviceMBankSwitch is broadcast.  If the main thread is building a       *)
(* signal meanwhile, this one is abandoned; the mask is left as it is.     *)
TellBank(banks) ==
    \/ toldBank' \in banks /\ untold' = FALSE
    \/ UNCHANGED toldBank /\ untold' = TRUE

(* The M key is enabled, then told.  Mutant: any M key that is pressed is  *)
(* told, although another was taken, or it has been disabled.              *)
EnableBankTellsPressed ==
    /\ Goto("enable", "mr")
    /\ ledsMask' = ledsMask \cup toSend
    /\ TellBank(PressedBank)
    /\ toSend' = {}
    /\ UNCHANGED <<daemonRunning, threadsStatus, exitRecord, usb, pressed, mrOn, disable>>
EnableBank ==
    /\ Goto("enable", "mr")
    /\ ledsMask' = ledsMask \cup toSend
    /\ TellBank(IF toSend = {} THEN {NoBank} ELSE toSend)
    /\ toSend' = {}
    /\ UNCHANGED <<daemonRunning, threadsStatus, exitRecord, usb, pressed, mrOn, disable>>

(* Mutant of the next definition: the bits of the keys are taken for those *)
(* of the LEDs.                                                            *)
SwitchMRTakesKeys ==
    /\ Goto("mr", IF PressedBank # {} \/ "MR" \in pressed \/ disable THEN "read" ELSE "decide")
    /\ ledsMask' = IF "MR" \in pressed /\ ~mrOn THEN ledsMask \cup pressed
                   ELSE IF "MR" \in pressed \/ disable THEN ledsMask \ {"MR"}
                   ELSE ledsMask
    /\ mrOn' = FALSE
    /\ UNCHANGED <<daemonRunning, threadsStatus, exitRecord, usb, pressed, disable, toSend, told>>
SwitchMR ==
    /\ Goto("mr", IF PressedBank # {} \/ "MR" \in pressed \/ disable THEN "read" ELSE "decide")
    /\ ledsMask' = IF "MR" \in pressed /\ ~mrOn THEN ledsMask \cup {"MR"}
                   ELSE IF "MR" \in pressed \/ disable THEN ledsMask \ {"MR"}
                   ELSE ledsMask
    /\ mrOn' = FALSE
    /\ UNCHANGED <<daemonRunning, threadsStatus, exitRecord, usb, pressed, disable, toSend, told>>

(* setDeviceMxKeysLeds(): the mask is read (its bits together), then sent. *)
(* The report is skipped if requests are; a failure is only logged.        *)
SendReport(mask) ==
    \/ requests /\ leds' = mask /\ lost' = FALSE
    \/ UNCHANGED leds /\ lost' = TRUE

ReadLeds ==
    /\ Goto("read", "send")
    /\ toSend' = ledsMask
    /\ UNCHANGED <<shared, pressed, mrOn, disable, told>>

SendLeds ==
    /\ Goto("send", IF disable THEN "listen" ELSE "decide")
    /\ SendReport(toSend)
    /\ toSend' = {} /\ disable' = FALSE
    /\ UNCHANGED <<daemonRunning, threadsStatus, exitRecord, ledsMask, requests>>
    /\ UNCHANGED <<pressed, mrOn, told>>

(* Is MR enabled?  Otherwise a G key runs a macro, which changes nothing.  *)
Decide ==
    /\ Goto("decide", IF "MR" \in ledsMask THEN "enter" ELSE "listen")
    /\ UNCHANGED <<shared, pressed, mrOn, disable, toSend, told>>

(* enterMacroRecordMode() *)
EnterRecord ==
    /\ Goto("enter", "record")
    /\ exitRecord' = FALSE
    /\ UNCHANGED <<daemonRunning, threadsStatus, ledsMask, usb>>
    /\ UNCHANGED <<pressed, mrOn, disable, toSend, told>>

PollRecord ==
    /\ Goto("record", "transfer")
    /\ Looping /\ requests /\ ~exitRecord
    /\ UNCHANGED <<shared, pressed, mrOn, disable, toSend, told>>

(* An M key or MR ends the recording; a G key sends what was recorded and  *)
(* ends it, also if the signal is abandoned; the keys of the LCD are not   *)
(* looked at.                                                              *)
RecordKeys(keys) ==
    /\ Goto("transfer", "record")
    /\ pressed' = keys
    /\ exitRecord' = (exitRecord \/ keys # {})
    /\ UNCHANGED <<daemonRunning, threadsStatus, ledsMask, usb, mrOn, disable, toSend, told>>

(* The end of the recording, and of MR.  Mutant of the condition of its    *)
(* loop: only a key ends it.                                               *)
RecordIsOverByKeys == exitRecord
RecordIsOver == exitRecord \/ ~Looping

LeaveRecord ==
    /\ Goto("record", "left")
    /\ RecordIsOver
    /\ UNCHANGED <<shared, pressed, mrOn, disable, toSend, told>>

DisableMR ==
    /\ Goto("left", IF ledsMask = {} THEN "listen" ELSE "update")
    /\ disable' = TRUE
    /\ UNCHANGED <<shared, pressed, mrOn, toSend, told>>

KeyEvent == \E keys \in Reports : ListenKeys(keys) \/ RecordKeys(keys)

ListenerStep ==
    \/ Register \/ Poll \/ Timeout \/ SkipTransfer \/ Leave
    \/ ReadMR \/ ReadBank \/ ClearMask \/ EnableBank \/ SwitchMR \/ ReadLeds \/ SendLeds
    \/ Decide \/ EnterRecord \/ PollRecord \/ LeaveRecord \/ DisableMR

-----------------------------------------------------------------------------
(* The main thread.                                                        *)

MainGoto(from, to) == mainPc = from /\ mainPc' = to /\ UNCHANGED listener

(* setDeviceActiveConfiguration() *)
SetActiveConfiguration ==
    /\ MainGoto("idle", "idle")
    /\ exitRecord' = TRUE
    /\ UNCHANGED <<daemonRunning, threadsStatus, ledsMask, usb, mainToSend>>

(* resetDeviceState(), called by resetDevicesStates() or by closeDevice(). *)
StartReset(from, to) ==
    /\ MainGoto(from, to)
    /\ exitRecord' = TRUE
    /\ UNCHANGED <<daemonRunning, threadsStatus, ledsMask, usb, mainToSend>>

(* Mutant: the LEDs are only switched off at the hardware. *)
ResetMaskNot(from, to) ==
    /\ MainGoto(from, to)
    /\ UNCHANGED <<shared, mainToSend>>
ResetMask(from, to) ==
    /\ MainGoto(from, to)
    /\ ledsMask' = {}
    /\ UNCHANGED <<daemonRunning, threadsStatus, exitRecord, usb, mainToSend>>

ReadMask(from, to) ==
    /\ MainGoto(from, to)
    /\ mainToSend' = ledsMask
    /\ UNCHANGED shared

SendMask(from, to) ==
    /\ MainGoto(from, to)
    /\ SendReport(mainToSend)
    /\ mainToSend' = {}
    /\ UNCHANGED <<daemonRunning, threadsStatus, exitRecord, ledsMask, requests>>

Reset ==
    \/ StartReset("idle", "mask")
    \/ ResetMask("mask", "read")
    \/ ReadMask("read", "send")
    \/ SendMask("send", "idle")

(* closeDevice(), which skips the USB requests of a device that is gone or *)
(* whose threads gave up, joins the thread, if it finds it, and resets the *)
(* device.                                                                 *)
CloseDevice(skipUSBRequests) ==
    /\ MainGoto("idle", "stop")
    /\ requests' = ~skipUSBRequests
    /\ UNCHANGED <<daemonRunning, threadsStatus, exitRecord, ledsMask, leds, lost, mainToSend>>

StopThreads ==
    /\ MainGoto("stop", "join")
    /\ threadsStatus' = FALSE
    /\ UNCHANGED <<daemonRunning, exitRecord, ledsMask, usb, mainToSend>>

Join == pc \in {"spawned", "ended"} /\ StartReset("join", "lastMask")

Close ==
    \/ StopThreads \/ Join
    \/ ResetMask("lastMask", "lastRead")
    \/ ReadMask("lastRead", "lastSend")
    \/ SendMask("lastSend", "closed")

(* SIGTERM *)
Terminate ==
    /\ daemonRunning
    /\ daemonRunning' = FALSE
    /\ UNCHANGED <<threadsStatus, exitRecord, ledsMask, usb, listener, main>>

MainStep ==
    \/ SetActiveConfiguration \/ Reset \/ Close
    \/ \E skip \in BOOLEAN : CloseDevice(skip)

Done == mainPc = "closed" /\ pc = "ended" /\ UNCHANGED vars

Next ==
    \/ ListenerStep \/ KeyEvent \/ OtherEvent \/ GiveUp
    \/ MainStep
    \/ Terminate
    \/ Done

Spec == Init /\ [][Next]_vars

(* Both threads run; nobody has to press a key or close the device. *)
FairSpec == Spec /\ WF_vars(ListenerStep) /\ WF_vars(Close)

-----------------------------------------------------------------------------
ListenerPcs == {"spawned", "listen", "poll", "update", "bank", "clear", "enable", "mr", "read",
                "send", "decide", "enter", "record", "transfer", "left", "ended"}

MainPcs == {"idle", "mask", "read", "send", "stop", "join", "lastMask", "lastRead",
            "lastSend", "closed"}

(* Every variable has its type. *)
TypeOK ==
    /\ {daemonRunning, threadsStatus, exitRecord, requests, mrOn, disable} \subseteq BOOLEAN
    /\ {lost, untold} \subseteq BOOLEAN
    /\ ledsMask \subseteq Led /\ leds \subseteq Led
    /\ toSend \subseteq Led /\ mainToSend \subseteq Led
    /\ pressed \subseteq Key
    /\ pc \in ListenerPcs
    /\ mainPc \in MainPcs
    /\ toldBank \in Bank \cup {NoBank}

(* Between two events at most one M key is enabled, and it is the one that *)
(* the last DeviceMBankSwitch told, whatever the main thread has reset     *)
(* meanwhile: macros are stored in, and run from, the bank whose key is    *)
(* enabled.  After a switch whose signal was abandoned (the code does not  *)
(* undo it) this is restored by the next one.                              *)
BankTold ==
    pc = "listen" =>
        \E m \in Bank \cup {NoBank} : ledsMask \cap Bank \subseteq {m} /\ (m = toldBank \/ untold)

(* closeDevice() leaves the device with no key enabled and its LEDs off,   *)
(* for the firmware or for whoever opens it next, and the listening thread *)
(* does not undo it: a lit LED means that the last report, of either       *)
(* thread, was skipped or failed.                                          *)
ClosedIsDark == mainPc = "closed" => ledsMask = {} /\ (leds = {} \/ lost)

(* closeDevice() ends, wherever the listening thread was when it began:    *)
(* in a recording that nobody ends with a key, above all.                  *)
CloseEnds == mainPc = "stop" ~> mainPc = "closed"
=============================================================================
