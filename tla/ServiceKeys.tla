---------------------------- MODULE ServiceKeys -----------------------------
(***************************************************************************)
(* A macro from the keyboard to the desktop: the daemon records it         *)
(* (GKeysMacro) and sends it in a signal, the service checks it again and  *)
(* stores it in the bank (GKeysEventManager), and a G key runs it on a     *)
(* virtual keyboard (VirtualKeyboard).  One bank, one device; the daemon   *)
(* and the service are two processes joined by the queue of signals.       *)
(***************************************************************************)
EXTENDS GKeysMacro

CONSTANTS
    GKeyID,         \* the G keys of the bank
    MaxSignals      \* bound: signals sent and not yet read

ASSUME KeysAssumption == MaxSignals \in Nat

VARIABLES
    signals,        \* signals of the daemon the service has not read yet
    bank,           \* mBank_type: the GKeysEvent of each G key
    listening,      \* _registerStatus, and _sessionState is "active"
    held,           \* keys that are down on the virtual keyboard
    overlong        \* history: a macro with too many presses was recorded

serviceVars == <<signals, bank, listening, held, overlong>>
keysVars == <<pc, previous, newMacro, typed, serviceVars>>

(* A command line is left out of its event. *)
GKeysEvent == [type : {"inactive", "macro", "runcmd"}, macro : Seq(Event)]
MacroEvent(macro) == [type |-> IF macro = <<>> THEN "inactive" ELSE "macro", macro |-> macro]
RunCommand == [type |-> "runcmd", macro |-> <<>>]

KeysInit ==
    /\ Init
    /\ signals = <<>>
    /\ bank = [key \in GKeyID |-> MacroEvent(<<>>)]
    /\ listening = TRUE
    /\ held = {}
    /\ overlong = FALSE

-----------------------------------------------------------------------------
(* The daemon.                                                             *)

Broadcast(signal) ==
    /\ Len(signals) < MaxSignals
    /\ signals' = Append(signals, signal)

(* Bounds: nothing is typed while a macro is stored or a signal waits, and *)
(* the first overlong macro is the last one.  Without an event typed, MR   *)
(* and a G key clear the macro of that key.                                *)
MayType == signals = <<>> /\ ~overlong /\ \A key \in GKeyID : bank[key].macro = <<>>

(* Bound: the service is not disturbed while a macro is recorded or        *)
(* cleared, which commutes with whatever happens to it.                    *)
Quiet == pc = "listen"

Type(report) ==
    /\ MayType
    /\ KeyReport(report)
    /\ UNCHANGED serviceVars

LeaveRecord == (Abandon \/ Clear) /\ UNCHANGED serviceVars
StartRecord == EnterRecord /\ UNCHANGED serviceVars

(* A G key ends the recording. *)
RecordMacro(key) ==
    /\ GKey
    /\ Broadcast(IF newMacro' = <<>>
                 THEN [name |-> "DeviceMacroCleared", key |-> key]
                 ELSE [name |-> "DeviceMacroRecorded", key |-> key, macro |-> newMacro'])
    /\ overlong' = (overlong \/ 2 * NumPresses(typed') >= MaxSize)
    /\ UNCHANGED <<bank, listening, held>>

(* A G key outside of a recording. *)
PressGKey(key) ==
    /\ pc = "listen"
    /\ Broadcast([name |-> "DeviceGKeyEvent", key |-> key])
    /\ UNCHANGED <<pc, previous, newMacro, typed, bank, listening, held, overlong>>

-----------------------------------------------------------------------------
(* The service.                                                            *)

(* A macro that does not fit is refused. *)
SetMacro(key, macro) ==
    LET checked == CheckMacro(macro)
    IN  IF Len(checked) >= MaxSize THEN bank ELSE [bank EXCEPT ![key] = MacroEvent(checked)]

(* A key with a command keeps it. *)
ClearMacro(key) ==
    IF bank[key].macro = <<>> THEN bank ELSE [bank EXCEPT ![key] = MacroEvent(<<>>)]

(* The kernel ignores the press of a key that is down and the release of   *)
(* one that is not.                                                        *)
SendKeyEvent(down, e) == IF e.press THEN down \cup {e.key} ELSE down \ {e.key}

(* The main thread of the service sends the whole macro before it reads    *)
(* another message.                                                        *)
Run(down, macro) ==
    LET after[i \in 0 .. Len(macro)] ==
            IF i = 0 THEN down ELSE SendKeyEvent(after[i - 1], macro[i])
    IN  after[Len(macro)]
RunEvent(key) == IF bank[key].type = "macro" THEN Run(held, bank[key].macro) ELSE held

HandleSignal ==
    /\ signals # <<>>
    /\ signals' = Tail(signals)
    /\ LET s == Head(signals)
       IN  /\ bank' = CASE ~listening \/ s.name = "DeviceGKeyEvent" -> bank
                        [] s.name = "DeviceMacroRecorded" /\ listening -> SetMacro(s.key, s.macro)
                        [] s.name = "DeviceMacroCleared" /\ listening -> ClearMacro(s.key)
           /\ held' = IF listening /\ s.name = "DeviceGKeyEvent" THEN RunEvent(s.key) ELSE held
    /\ UNCHANGED <<pc, previous, newMacro, typed, listening, overlong>>

(* The configuration file was edited and is loaded again: a command for a  *)
(* key, which replaces its macro, or nothing.                              *)
LoadFile(key) ==
    /\ Quiet
    /\ \E event \in {RunCommand, MacroEvent(<<>>)} :
           bank' = [bank EXCEPT ![key] = event]
    /\ UNCHANGED <<pc, previous, newMacro, typed, signals, listening, held, overlong>>

(* The session is left or resumed, or the daemon goes away or comes back:  *)
(* meanwhile the service skips what it reads.                              *)
SwitchListening ==
    /\ Quiet
    /\ listening' = ~listening
    /\ UNCHANGED <<pc, previous, newMacro, typed, signals, bank, held, overlong>>

KeysNext ==
    \/ StartRecord
    \/ \E report \in Report : Type(report)
    \/ LeaveRecord
    \/ \E key \in GKeyID : RecordMacro(key)
    \/ \E key \in GKeyID : PressGKey(key)
    \/ HandleSignal
    \/ \E key \in GKeyID : LoadFile(key)
    \/ SwitchListening

KeysSpec == KeysInit /\ [][KeysNext]_keysVars

-----------------------------------------------------------------------------
(* Every variable has its type; what the bank stores fits.                 *)
KeysTypeOK ==
    /\ TypeOK
    /\ Len(signals) <= MaxSignals
    /\ bank \in [GKeyID -> GKeysEvent]
    /\ \A key \in GKeyID :
           /\ Len(bank[key].macro) < MaxSize
           /\ bank[key].type = "macro" <=> bank[key].macro # <<>>
    /\ held \subseteq Key \cup Modifier
    /\ listening \in BOOLEAN /\ overlong \in BOOLEAN

(* As long as no macro was recorded with more presses than fit, no key     *)
(* stays down on the virtual keyboard after a G key was handled, whatever  *)
(* reports the recording missed and whatever signals the service skipped.  *)
NoKeyStaysDown == ~overlong => held = {}

(* What the daemon has checked is not changed by the check of the service: *)
(* the bank gets the macro that was sent, unless it was recorded with more *)
(* presses than fit.                                                       *)
StoredAsSent ==
    [][\A key \in GKeyID :
            ~overlong /\ bank'[key] # bank[key] /\ bank'[key].type = "macro"
                => bank'[key].macro = Head(signals).macro]_keysVars
=============================================================================
