------------------------ MODULE MacroRecordingProofs ------------------------
(***************************************************************************)
(* Proofs, for any finite set of M keys, of the safety properties of the   *)
(* listening thread and of the main thread of one device.  The two share   *)
(* no lock: each part of the invariant says what every single access of    *)
(* either of them keeps.                                                   *)
(***************************************************************************)
EXTENDS MacroRecording, TLAPS

(* No more than one M key is about to be enabled, after all were disabled; *)
(* the main thread only ever disables them.  A switch that is abandoned    *)
(* says nothing of the key, and the next one that is sent makes it up.     *)
BankInv ==
    /\ \E m \in Bank \cup {NoBank} : ledsMask \cap Bank \subseteq {m}
    /\ ~untold => ledsMask \cap Bank \subseteq {toldBank}
    /\ pc = "enable" => ledsMask \cap Bank = {}
    /\ pc \in {"clear", "enable"} => \E m \in Bank : toSend \subseteq {m}

(* A close that has joined the thread meets it again only before its loop, *)
(* which it leaves at once.                                                *)
Closing == {"lastMask", "lastRead", "lastSend", "closed"}

CloseInv ==
    /\ mainPc \in Closing \cup {"join"} => ~threadsStatus
    /\ mainPc \in Closing => pc \in {"spawned", "listen", "ended"}
    /\ mainPc \in Closing \ {"lastMask"} => ledsMask = {}
    /\ mainPc = "lastSend" => mainToSend = {}
    /\ mainPc = "closed" => leds = {} \/ lost

LEMMA LedsAreNotBanks == "MR" \notin Bank
  BY BankAssumption

LEMMA TypeOKInit == Init => TypeOK
  BY DEF Init, TypeOK, ListenerPcs, MainPcs

(* One access of the listening thread. *)
LEMMA ListenerTypes ==
    ASSUME TypeOK, BankInv, ListenerStep \/ KeyEvent \/ OtherEvent
    PROVE  TypeOK'
  <1> USE DEF TypeOK, Goto, ListenerPcs, MainPcs, shared, usb, told, main, Led, Key
  <1>1. CASE Register \/ Poll \/ Timeout \/ SkipTransfer \/ Leave
    BY <1>1 DEF Register, Poll, Timeout, SkipTransfer, Leave
  <1>2. CASE ReadMR
    <2>1. mrOn' \in BOOLEAN
      BY <1>2 DEF ReadMR
    <2> QED
      BY <1>2, <2>1 DEF ReadMR
  <1>3. CASE ReadBank
    <2>1. toSend' \subseteq Led
      BY <1>3 DEF ReadBank, PressedBank
    <2> QED
      BY <1>3, <2>1 DEF ReadBank
  <1>4. CASE ClearMask
    BY <1>4 DEF ClearMask
  <1>5. CASE EnableBank
    <2>1. ledsMask' \subseteq Led /\ toldBank' \in Bank \cup {NoBank}
      BY <1>5 DEF EnableBank, TellBank, BankInv
    <2>2. untold' \in BOOLEAN
      BY <1>5 DEF EnableBank, TellBank
    <2> QED
      BY <1>5, <2>1, <2>2 DEF EnableBank
  <1>6. CASE SwitchMR
    BY <1>6 DEF SwitchMR
  <1>7. CASE ReadLeds
    BY <1>7 DEF ReadLeds
  <1>8. CASE SendLeds
    BY <1>8 DEF SendLeds, SendReport
  <1>9. CASE Decide
    BY <1>9 DEF Decide
  <1>10. CASE EnterRecord \/ PollRecord \/ LeaveRecord \/ DisableMR
    BY <1>10 DEF EnterRecord, PollRecord, LeaveRecord, DisableMR
  <1>11. ASSUME NEW keys \in Reports, ListenKeys(keys) \/ RecordKeys(keys)
         PROVE  TypeOK'
    <2>0. keys \subseteq Key
      BY <1>11, ReportsAssumption
    <2>1. CASE ListenKeys(keys)
      BY <2>0, <2>1 DEF ListenKeys
    <2>2. CASE RecordKeys(keys)
      <3>1. exitRecord' \in BOOLEAN
        BY <2>2 DEF RecordKeys
      <3> QED
        BY <2>0, <2>2, <3>1 DEF RecordKeys
    <2> QED
      BY <1>11, <2>1, <2>2
  <1>12. CASE OtherEvent
    BY <1>12 DEF OtherEvent
  <1> QED
    BY <1>1, <1>2, <1>3, <1>4, <1>5, <1>6, <1>7, <1>8, <1>9, <1>10, <1>11, <1>12
       DEF ListenerStep, KeyEvent

(* One access of the main thread, which touches nothing of the listener's  *)
(* but the mask and the exit flags.                                        *)
LEMMA MainTypes ==
    ASSUME TypeOK, MainStep \/ GiveUp \/ Terminate
    PROVE  TypeOK'
  <1> USE DEF TypeOK, MainGoto, ListenerPcs, MainPcs, shared, usb, told, listener, main
  <1>1. CASE SetActiveConfiguration \/ StopThreads \/ GiveUp \/ Terminate
    BY <1>1 DEF SetActiveConfiguration, StopThreads, GiveUp, Terminate
  <1>2. ASSUME NEW from \in MainPcs, NEW to \in MainPcs,
               \/ StartReset(from, to) \/ ResetMask(from, to)
               \/ ReadMask(from, to) \/ SendMask(from, to)
        PROVE  TypeOK'
    BY <1>2 DEF StartReset, ResetMask, ReadMask, SendMask, SendReport
  <1>3. CASE Reset
    BY <1>2, <1>3 DEF Reset
  <1>4. CASE Close
    BY <1>1, <1>2, <1>4 DEF Close, Join
  <1>5. ASSUME NEW skip \in BOOLEAN, CloseDevice(skip)
        PROVE  TypeOK'
    BY <1>5 DEF CloseDevice
  <1> QED
    BY <1>1, <1>3, <1>4, <1>5 DEF MainStep

LEMMA BankInvStep == ASSUME TypeOK, BankInv, [Next]_vars PROVE BankInv'
  <1> USE DEF BankInv, Goto, shared, usb, told, listener, main
  <1>1. ASSUME UNCHANGED <<ledsMask, told, toSend>>, pc' = pc \/ pc' \notin {"clear", "enable"}
        PROVE  BankInv'
    BY <1>1
  <1>2. CASE ListenerStep
    <2>1. CASE \/ Register \/ Poll \/ Timeout \/ SkipTransfer \/ Leave \/ ReadMR \/ Decide \/ EnterRecord
               \/ PollRecord \/ LeaveRecord \/ DisableMR
      <3>1. pc' \notin {"clear", "enable"}
        BY <2>1 DEF Register, Poll, Timeout, SkipTransfer, Leave, ReadMR, Decide, EnterRecord,
                    PollRecord, LeaveRecord, DisableMR
      <3> QED
        BY <1>1, <2>1, <3>1 DEF Register, Poll, Timeout, SkipTransfer, Leave, ReadMR, Decide, EnterRecord,
                                PollRecord, LeaveRecord, DisableMR
    <2>2. CASE ReadBank
      <3>1. \E m \in Bank : toSend' \subseteq {m}
        BY <2>2 DEF ReadBank, PressedBank
      <3> QED
        BY <2>2, <3>1 DEF ReadBank
    <2>3. CASE ClearMask
      BY <2>3 DEF ClearMask
    <2>4. CASE EnableBank
      <3>1. PICK m \in Bank : toSend \subseteq {m}
        BY <2>4 DEF EnableBank
      <3>2. ledsMask' \cap Bank \subseteq toSend /\ toSend' = {}
        BY <2>4 DEF EnableBank
      <3>3. ~untold' => ledsMask' \cap Bank \subseteq {toldBank'}
        BY <2>4, <3>1, <3>2 DEF EnableBank, TellBank
      <3> QED
        BY <2>4, <3>1, <3>2, <3>3 DEF EnableBank
    <2>5. CASE SwitchMR
      <3>1. ledsMask' \cap Bank \subseteq ledsMask /\ pc' \in {"read", "decide"}
        BY <2>5, LedsAreNotBanks DEF SwitchMR
      <3> QED
        BY <2>5, <3>1 DEF SwitchMR
    <2>6. CASE ReadLeds \/ SendLeds
      BY <2>6 DEF ReadLeds, SendLeds
    <2> QED
      BY <1>2, <2>1, <2>2, <2>3, <2>4, <2>5, <2>6 DEF ListenerStep
  <1>3. CASE KeyEvent \/ OtherEvent
    <2>1. UNCHANGED <<ledsMask, told, toSend>> /\ pc' \notin {"clear", "enable"}
      BY <1>3 DEF KeyEvent, OtherEvent, ListenKeys, RecordKeys
    <2> QED
      BY <1>1, <2>1
  <1>4. CASE GiveUp \/ Terminate \/ Done
    BY <1>4 DEF GiveUp, Terminate, Done, vars
  <1>5. CASE MainStep
    <2>1. UNCHANGED listener /\ ledsMask' \in {ledsMask, {}}
      BY <1>5 DEF MainStep, SetActiveConfiguration, Reset, CloseDevice, StopThreads, Close,
                  Join, MainGoto, StartReset, ResetMask, ReadMask, SendMask
    <2> QED
      BY <2>1
  <1>6. CASE UNCHANGED vars
    BY <1>6 DEF vars
  <1> QED
    BY <1>2, <1>3, <1>4, <1>5, <1>6 DEF Next

LEMMA CloseInvStep == ASSUME TypeOK, CloseInv, [Next]_vars PROVE CloseInv'
  <1> USE DEF CloseInv, Closing
  <1>1. CASE ListenerStep \/ KeyEvent \/ OtherEvent
    <2>1. UNCHANGED <<mainPc, mainToSend, threadsStatus>>
      BY <1>1 DEF ListenerStep, KeyEvent, OtherEvent, Goto, main, shared, usb, ListenKeys, RecordKeys,
                  Register, Poll, Timeout, SkipTransfer, Leave, ReadMR, ReadBank, ClearMask, EnableBank,
                  SwitchMR, ReadLeds, SendLeds, Decide, EnterRecord, PollRecord, LeaveRecord,
                  DisableMR
    <2>2. CASE mainPc \in Closing
      <3>1. pc' \in {"listen", "ended"} /\ UNCHANGED <<ledsMask, leds, lost>>
        BY <1>1, <2>2 DEF ListenerStep, KeyEvent, OtherEvent, Goto, main, shared, usb, ListenKeys,
                  RecordKeys, Register, Poll, Timeout, SkipTransfer, Leave, ReadMR, ReadBank, ClearMask,
                  EnableBank, SwitchMR, ReadLeds, SendLeds, Decide, EnterRecord, PollRecord,
                  LeaveRecord, DisableMR, Looping
      <3> QED
        BY <2>1, <3>1
    <2>3. CASE mainPc \notin Closing
      BY <2>1, <2>3
    <2> QED
      BY <2>2, <2>3
  <1>2. CASE GiveUp \/ Terminate \/ Done
    BY <1>2 DEF GiveUp, Terminate, Done, vars, shared, usb, main, listener
  <1>3. CASE MainStep
    <2> USE DEF MainGoto, StartReset, ResetMask, ReadMask, SendMask, SendReport, shared, usb,
                listener, told
    <2>1. CASE SetActiveConfiguration \/ Reset
      BY <2>1 DEF SetActiveConfiguration, Reset
    <2>2. CASE StopThreads
      BY <2>2 DEF StopThreads
    <2>3. CASE Close
      BY <2>2, <2>3 DEF Close, Join
    <2>4. ASSUME NEW skip \in BOOLEAN, CloseDevice(skip) PROVE CloseInv'
      BY <2>4 DEF CloseDevice
    <2> QED
      BY <1>3, <2>1, <2>3, <2>4 DEF MainStep
  <1>4. CASE UNCHANGED vars
    BY <1>4 DEF vars, shared, usb, main, listener
  <1> QED
    BY <1>1, <1>2, <1>3, <1>4 DEF Next

LEMMA ThreadsInv == Spec => [](TypeOK /\ BankInv /\ CloseInv)
  <1>1. Init => TypeOK /\ BankInv /\ CloseInv
    BY TypeOKInit DEF Init, BankInv, CloseInv, Closing
  <1>2. TypeOK /\ BankInv /\ CloseInv /\ [Next]_vars => (TypeOK /\ BankInv /\ CloseInv)'
    <2> SUFFICES ASSUME TypeOK, BankInv, CloseInv, [Next]_vars
                 PROVE  (TypeOK /\ BankInv /\ CloseInv)'
      OBVIOUS
    <2>1. TypeOK'
      <3>1. CASE Done \/ UNCHANGED vars
        BY <3>1 DEF Done, vars, shared, usb, listener, told, main, TypeOK, ListenerPcs, MainPcs, Led, Key
      <3> QED
        BY <3>1, ListenerTypes, MainTypes DEF Next
    <2> QED
      BY <2>1, BankInvStep, CloseInvStep
  <1> QED
    BY <1>1, <1>2, PTL DEF Spec

(* The main thread may reset the mask between any two accesses of the      *)
(* listening thread; no variable leaves its type, and toldBank never takes *)
(* the bit of MR for a bank.                                               *)
THEOREM ThreadsKeepTypes == Spec => []TypeOK
  BY ThreadsInv, PTL

(* For any number of M keys, between two events no more than one of them   *)
(* is enabled, and it is the one that clients were told unless the signal  *)
(* about it was abandoned.                                                 *)
THEOREM EnabledBankIsTold == Spec => []BankTold
  <1>1. TypeOK /\ BankInv => BankTold
    <2> SUFFICES ASSUME TypeOK, BankInv, pc = "listen"
                 PROVE  \E m \in Bank \cup {NoBank} :
                            ledsMask \cap Bank \subseteq {m} /\ (m = toldBank \/ untold)
      BY DEF BankTold
    <2>1. CASE untold
      BY <2>1 DEF BankInv
    <2>2. CASE ~untold
      BY <2>2 DEF BankInv, TypeOK
    <2> QED
      BY <2>1, <2>2
  <1> QED
    BY <1>1, ThreadsInv, PTL

(* A closed device has no key enabled, and a LED is lit only if the last   *)
(* report about the LEDs was skipped or failed; also when its thread is    *)
(* scheduled for the first time after the close.                           *)
THEOREM ClosedDeviceIsDark == Spec => []ClosedIsDark
  <1>1. CloseInv => ClosedIsDark
    BY DEF CloseInv, Closing, ClosedIsDark
  <1> QED
    BY <1>1, ThreadsInv, PTL
=============================================================================
