--------------------------- MODULE LCDScreenProofs ---------------------------
(***************************************************************************)
(* Proofs, for any plugins, masks and numbers of frames, that the LCD      *)
(* thread stays within its list of plugins and ends with the endscreen,    *)
(* unless the frame is lost or the main thread is overtaken in its jump.   *)
(***************************************************************************)
EXTENDS LCDScreen, TLAPS

N == Len(Plugins)

LEMMA PluginList ==
    /\ N \in Nat \ {0}
    /\ DOMAIN Plugins = 1 .. N
    /\ \A i \in 1 .. N : Plugins[i] \in Plugin
  BY LCDAssumption DEF N

LEMMA Frames ==
    /\ FrameCounters \in Nat /\ 1 < FrameCounters
    /\ \A p \in Plugin : MaxFrames[p] \in Nat /\ MaxFrames[p] + 1 < FrameCounters
  <1>1. FrameCounters \in Nat
    BY LCDAssumption
  <1>2. \A p \in Plugin : MaxFrames[p] \in Nat
    BY LCDAssumption
  <1>3. \A p \in Plugin : MaxFrames[p] + 1 < FrameCounters
    BY LCDAssumption
  <1>4. End \in Plugin
    BY LCDAssumption
  <1> QED
    BY <1>1, <1>2, <1>3, <1>4

LEMMA CurrentFrames ==
    ASSUME TypeOK
    PROVE  /\ CurrentPlugin \in Plugin /\ CurrentPlugin \in Loaded
           /\ MaxFrames[CurrentPlugin] \in Nat
           /\ MaxFrames[CurrentPlugin] + 1 < FrameCounters
           /\ counter \in Nat /\ lcdCount \in Nat /\ mainFrames \in Nat
           /\ FrameCounters \in Nat \ {0}
  <1>1. CurrentPlugin \in Plugin /\ CurrentPlugin \in Loaded
    BY PluginList DEF CurrentPlugin, Loaded, TypeOK
  <1>2. /\ counter \in 0 .. FrameCounters - 1 /\ lcdCount \in 0 .. FrameCounters - 1
        /\ mainFrames \in 0 .. FrameCounters - 1
    BY DEF TypeOK
  <1> QED
    BY <1>1, <1>2, Frames

LEMMA TypeOKInit == ASSUME Init PROVE TypeOK
  <1>1. 1 \in DOMAIN Plugins /\ Plugins[1] \in Plugin /\ N \in Nat
    BY PluginList
  <1>2. /\ counter \in 0 .. FrameCounters - 1 /\ lcdCount \in 0 .. FrameCounters - 1
        /\ mainFrames \in 0 .. FrameCounters - 1
    BY <1>1, Frames DEF Init
  <1>3. Default \subseteq Plugin /\ Default # {} /\ MaxMasks \in Nat
    BY LCDAssumption
  <1>4. current \in DOMAIN Plugins /\ first \in 0 .. Len(Plugins) /\ masks \in 0 .. MaxMasks
    BY <1>1, <1>3 DEF Init, N
  <1>5. mask \subseteq Plugin /\ mask # {} /\ lcdMask \subseteq Plugin
    BY <1>3 DEF Init
  <1> QED
    BY <1>2, <1>4, <1>5 DEF Init, TypeOK

LEMMA TypeOKStep == ASSUME TypeOK, [Next]_vars PROVE TypeOK'
  <1> USE DEF TypeOK, pluginsManager, hardware, frame, lcd, main, LCDGoto, MainGoto
  <1>1. /\ CurrentPlugin \in Plugin /\ CurrentPlugin \in Loaded
        /\ MaxFrames[CurrentPlugin] \in 0 .. FrameCounters - 1
        /\ FrameCounters \in Nat \ {0} /\ lcdCount \in Nat
    BY CurrentFrames
  <1>2. DOMAIN Plugins = 1 .. Len(Plugins) /\ Len(Plugins) \in Nat \ {0}
    BY PluginList DEF N
  <1>3. CASE Take \/ UnlockAtEnd
    BY <1>3 DEF Take, UnlockAtEnd
  <1>4. CASE JumpAtEnd
    BY <1>1, <1>4, LCDAssumption DEF JumpAtEnd
  <1>5. CASE ReadCount
    BY <1>5 DEF ReadCount
  <1>6. CASE StoreCount
    <2>1. counter' \in 0 .. FrameCounters - 1 /\ lcdCount' \in 0 .. FrameCounters - 1
      BY <1>1, <1>6 DEF StoreCount
    <2>2. locked' \in BOOLEAN
      BY <1>6 DEF StoreCount
    <2> QED
      BY <1>6, <2>1, <2>2 DEF StoreCount
  <1>7. CASE CompareCount
    BY <1>2, <1>7 DEF CompareCount
  <1>8. CASE Scan
    <2>1. (current % Len(Plugins)) + 1 \in 1 .. Len(Plugins)
      BY <1>2
    <2>2. current' \in 1 .. Len(Plugins) /\ first' \in 0 .. Len(Plugins)
      BY <1>2, <1>8, <2>1 DEF Scan
    <2>3. lcdPc' \in {"reset", "blank", "scan"}
      BY <1>8 DEF Scan
    <2> QED
      BY <1>2, <1>8, <2>2, <2>3 DEF Scan
  <1>9. CASE ResetCount
    BY <1>1, <1>9 DEF ResetCount
  <1>10. CASE Draw
    BY <1>1, <1>10 DEF Draw
  <1>11. CASE \E k \in {"L2", "other"} : PressKey(k)
    BY <1>11 DEF PressKey
  <1>12. CASE \E m \in Masks : SetMask(m)
    BY <1>12, LCDAssumption DEF SetMask
  <1>13. CASE UnlockPlugin \/ LookAtCurrent \/ JumpUnlocks \/ JumpReadsFrames
    <2>1. /\ locked' \in BOOLEAN /\ mainFrames' \in 0 .. FrameCounters - 1
          /\ mainPc' \in {"look", "idle", "jump", "read", "write"}
      BY <1>1, <1>13 DEF UnlockPlugin, LookAtCurrent, JumpUnlocks, JumpReadsFrames
    <2>2. UNCHANGED <<running, mask, key, current, counter, lcd, masks, overtaken>>
      BY <1>13 DEF UnlockPlugin, LookAtCurrent, JumpUnlocks, JumpReadsFrames
    <2> QED
      BY <2>1, <2>2
  <1>14. CASE JumpStoresCount
    <2>1. overtaken' \in BOOLEAN
      BY <1>14 DEF JumpStoresCount
    <2> QED
      BY <1>1, <1>14, <2>1 DEF JumpStoresCount
  <1>15. CASE Stop
    <2>1. running' \in BOOLEAN /\ UNCHANGED <<mask, key, pluginsManager, lcd, main>>
      BY <1>15 DEF Stop
    <2> QED
      BY <2>1
  <1>16. CASE Done \/ UNCHANGED vars
    BY <1>16 DEF Done, vars
  <1> QED
    BY <1>3, <1>4, <1>5, <1>6, <1>7, <1>8, <1>9, <1>10, <1>11, <1>12, <1>13, <1>14, <1>15, <1>16
       DEF Next, LCDStep, MainStep

(* The plugins that a scan has left behind: from the one after the first,  *)
(* in a list that is a circle, to the current one.                         *)
Passed ==
    IF current >= first THEN first + 1 .. current ELSE (first + 1 .. N) \cup (1 .. current)

(* When the LCD thread looks for the endscreen, no plugin is locked and    *)
(* the count, which cannot wrap, is past the frames of the current plugin  *)
(* or has been stored by a main thread that was overtaken.  The scan is    *)
(* not back at its first plugin before it has met the endscreen.           *)
LastInv ==
    /\ lcdMask = {End} /\ End \in Loaded
    /\ lcdPc \in {"count", "store", "compare", "scan", "reset", "draw"}
    /\ lcdPc = "count" => counter + 1 < FrameCounters
    /\ lcdPc = "store" => lcdCount + 1 < FrameCounters
    /\ lcdPc \in {"count", "compare"} => counter >= MaxFrames[CurrentPlugin] \/ overtaken
    /\ lcdPc = "store" => lcdCount >= MaxFrames[CurrentPlugin] \/ overtaken
    /\ lcdPc = "scan" => first \in 1 .. N /\ \A i \in Passed : Plugins[i] # End
    /\ lcdPc = "reset" => CurrentPlugin = End
    /\ lcdPc = "draw" => CurrentPlugin = End \/ overtaken

EndInv ==
    /\ mainFrames + 1 < FrameCounters
    /\ last => lcdKey = "none" /\ ~locked
    /\ last /\ lcdPc # "ended" => LastInv
    /\ ~last => lcdPc # "ended"
    /\ EndscreenIsLast

(* One step of the scan for the endscreen. *)
LEMMA ScanStep ==
    ASSUME TypeOK, LastInv, ~locked, Scan
    PROVE  \/ lcdPc' = "reset" /\ CurrentPlugin' = End
           \/ lcdPc' = "scan" /\ first' = first /\ \A i \in Passed' : Plugins[i] # End
  <1> DEFINE next == (current % N) + 1
  <1>1. /\ N \in Nat \ {0} /\ current \in 1 .. N /\ first \in 1 .. N /\ lcdMask = {End}
        /\ lcdPc = "scan" /\ \A i \in Passed : Plugins[i] # End
        /\ \E i \in 1 .. N : Plugins[i] = End
    BY PluginList DEF TypeOK, LastInv, Loaded, Scan, LCDGoto
  <1>2. next = IF current = N THEN 1 ELSE current + 1
    BY <1>1
  <1>3. /\ lcdPc' = IF EnabledPlugin(Plugins[next]) THEN "reset"
                    ELSE IF next = first THEN "blank" ELSE "scan"
        /\ current' = next
        /\ first' = IF EnabledPlugin(Plugins[next]) \/ next = first THEN 0 ELSE first
    BY DEF Scan, LCDGoto, N
  <1> HIDE DEF next
  <1>4. CASE Plugins[next] = End
    BY <1>1, <1>3, <1>4 DEF EnabledPlugin, CurrentPlugin
  <1>5. CASE Plugins[next] # End
    <2>1. ~EnabledPlugin(Plugins[next])
      BY <1>1, <1>5 DEF EnabledPlugin
    <2>2. next # first
      <3>1. ASSUME next = first PROVE \A i \in 1 .. N : i \in Passed \/ i = next
        BY <1>1, <1>2, <3>1 DEF Passed
      <3> QED
        BY <1>1, <1>5, <3>1
    <2>3. lcdPc' = "scan" /\ first' = first /\ current' = next
      BY <1>3, <2>1, <2>2
    <2>4. \A i \in Passed' : i \in Passed \/ i = next
      BY <1>1, <1>2, <2>2, <2>3 DEF Passed, N
    <2> QED
      BY <1>1, <1>5, <2>3, <2>4
  <1> QED
    BY <1>4, <1>5

LEMMA EndInvStep == ASSUME TypeOK, EndInv, [Next]_vars PROVE EndInv'
  <1> USE DEF EndInv, EndscreenIsLast, pluginsManager, hardware, frame, lcd, main, LCDGoto, MainGoto
  <1>1. /\ CurrentPlugin \in Plugin
        /\ MaxFrames[CurrentPlugin] \in Nat /\ MaxFrames[CurrentPlugin] + 1 < FrameCounters
        /\ counter \in Nat /\ lcdCount \in Nat /\ mainFrames \in Nat
        /\ FrameCounters \in Nat \ {0} /\ 1 < FrameCounters
    BY CurrentFrames, Frames
  <1>2. UNCHANGED current => CurrentPlugin' = CurrentPlugin /\ (UNCHANGED first => Passed' = Passed)
    BY DEF CurrentPlugin, Passed
  <1>3. CASE Take \/ UnlockAtEnd
    BY <1>3 DEF Take, UnlockAtEnd, LastInv
  <1>4. CASE JumpAtEnd
    BY <1>1, <1>2, <1>4 DEF JumpAtEnd, LastInv
  <1>5. CASE ReadCount
    BY <1>1, <1>2, <1>5 DEF ReadCount, LastInv
  <1>6. CASE StoreCount
    <2>1. lcdCount + 1 < FrameCounters => counter' = lcdCount + 1
      BY <1>1, <1>6 DEF StoreCount
    <2>2. last => ~locked'
      BY <1>6 DEF StoreCount, TypeOK
    <2> QED
      BY <1>1, <1>2, <1>6, <2>1, <2>2 DEF StoreCount, LastInv
  <1>7. CASE CompareCount
    <2>1. first' \in {0, current} /\ (lcdPc' = "scan" => first' = current)
      BY <1>7 DEF CompareCount
    <2>2. current \in 1 .. N /\ N \in Nat
      BY PluginList DEF TypeOK
    <2>3. lcdPc' = "scan" => Passed' = {}
      BY <1>7, <2>1, <2>2 DEF CompareCount, Passed
    <2> QED
      BY <1>1, <1>2, <1>7, <2>1, <2>2, <2>3 DEF CompareCount, LastInv
  <1>8. CASE Scan
    <2>1. CASE last
      <3>1. \/ lcdPc' = "reset" /\ CurrentPlugin' = End
            \/ lcdPc' = "scan" /\ first' = first /\ \A i \in Passed' : Plugins[i] # End
        BY <1>8, <2>1, ScanStep DEF Scan
      <3>2. LastInv'
        BY <1>8, <2>1, <3>1 DEF Scan, LastInv, N
      <3> QED
        BY <1>8, <2>1, <3>1, <3>2 DEF Scan
    <2>2. CASE ~last
      BY <1>8, <2>2 DEF Scan
    <2> QED
      BY <2>1, <2>2 DEF TypeOK
  <1>9. CASE ResetCount
    BY <1>1, <1>2, <1>9 DEF ResetCount, LastInv
  <1>10. CASE Draw
    BY <1>1, <1>2, <1>10 DEF Draw, LastInv
  <1>11. CASE \E k \in {"L2", "other"} : PressKey(k)
    BY <1>1, <1>2, <1>11 DEF PressKey, LastInv
  <1>12. CASE \E m \in Masks : SetMask(m)
    BY <1>1, <1>2, <1>12 DEF SetMask, LastInv
  <1>13. CASE UnlockPlugin \/ LookAtCurrent \/ JumpUnlocks \/ JumpReadsFrames
    BY <1>1, <1>2, <1>13 DEF UnlockPlugin, LookAtCurrent, JumpUnlocks, JumpReadsFrames, LastInv
  <1>14. CASE JumpStoresCount
    BY <1>1, <1>2, <1>14 DEF JumpStoresCount, LastInv
  <1>15. CASE Stop
    BY <1>1, <1>2, <1>15 DEF Stop, LastInv
  <1>16. CASE Done \/ UNCHANGED vars
    BY <1>1, <1>2, <1>16 DEF Done, vars, LastInv
  <1> QED
    BY <1>3, <1>4, <1>5, <1>6, <1>7, <1>8, <1>9, <1>10, <1>11, <1>12, <1>13, <1>14, <1>15, <1>16
       DEF Next, LCDStep, MainStep

LEMMA ScreenInv == Spec => [](TypeOK /\ EndInv)
  <1>1. Init => TypeOK /\ EndInv
    <2>1. ASSUME Init PROVE EndInv
      <3>1. mainFrames = 0 /\ ~last /\ lcdPc = "top"
        BY <2>1 DEF Init
      <3> QED
        BY <3>1, Frames DEF EndInv, EndscreenIsLast
    <2> QED
      BY <2>1, TypeOKInit
  <1>2. TypeOK /\ EndInv /\ [Next]_vars => (TypeOK /\ EndInv)'
    BY TypeOKStep, EndInvStep
  <1> QED
    BY <1>1, <1>2, PTL DEF Spec

(* Whatever mask is set, with plugins that are loaded or not, the index of *)
(* the current plugin stays within the list and the LCD shows a loaded     *)
(* plugin or nothing.                                                      *)
THEOREM ScreenTypes == Spec => []TypeOK
  BY ScreenInv, PTL

(* The endscreen, if it is loaded, is the last plugin shown, whatever the  *)
(* threads do while the LCD thread ends: only a last frame that is not     *)
(* transferred, or a main thread that stores a count it has read before    *)
(* the LCD thread went on, can leave another one.                          *)
THEOREM EndscreenStays == Spec => []EndscreenIsLast
  <1>1. EndInv => EndscreenIsLast
    BY DEF EndInv
  <1> QED
    BY <1>1, ScreenInv, PTL
=============================================================================
