----------------------------- MODULE LCDScreen ------------------------------
(***************************************************************************)
(* Which plugin an LCD shows.  The LCD thread of the device draws a frame  *)
(* after the other (KeyboardDriver::LCDScreenLoop) and goes from plugin to *)
(* plugin, the listening thread notes the LCD keys, and the main thread    *)
(* changes the mask of the enabled plugins (setDeviceLCDPluginsMask).      *)
(* _LCDMutex protects the key and the mask, nothing protects the members   *)
(* of LCDScreenPluginsManager that the main and the LCD thread share: what *)
(* one thread has read may be stale when it writes.                        *)
(***************************************************************************)
EXTENDS Naturals, Sequences, FiniteSets

CONSTANTS
    Plugin,         \* plugins that a mask may name, loaded or not
    Masks,          \* the masks that clients set; {} is 0
    Plugins,        \* those that are loaded, in their order
    Default,        \* the mask that stands for 0: splashscreen, system monitor
    End,            \* the endscreen
    Blank,          \* what is shown instead of a plugin after an exception
    MaxFrames,      \* of each plugin: getPluginMaxFrames()
    FrameCounters,  \* number of values of _frameCounter: 2^16
    MaxMasks        \* bound: how often the mask is set

Loaded == {Plugins[i] : i \in DOMAIN Plugins}

ASSUME LCDAssumption ==
    /\ Plugins \in Seq(Plugin) /\ Plugins # <<>>
    /\ Masks \subseteq SUBSET Plugin
    /\ Default \subseteq Plugin /\ Default # {}
    /\ End \in Plugin /\ Blank \notin Plugin
    /\ MaxFrames \in [Plugin -> Nat \ {0}]
    /\ FrameCounters \in Nat /\ MaxMasks \in Nat
    /\ \A p \in Plugin : MaxFrames[p] + 1 < FrameCounters   \* the counter gets past them

VARIABLES
    running,        \* the daemon runs and the threads were not stopped
    mask,           \* _LCDPluginsMask1
    key,            \* _LCDKey: "L2" locks, "other" does not
    locked,         \* _currentPluginLocked
    current,        \* _itCurrentPlugin, as an index
    counter,        \* _frameCounter
    screen,         \* hardware: the plugin of the last frame, or Blank
    lost,           \* history: the last transfer of a frame was skipped or failed
    overtaken,      \* history: see JumpStoresCount
    lcdPc, lcdKey, lcdMask,     \* the LCD thread and its local copies
    lcdCount, first, last,      \* the count it read, itFirstPlugin, is it the last frame?
    mainPc, mainFrames, masks   \* the main thread, the frames it read; masks set so far

pluginsManager == <<locked, current, counter>>
hardware == <<screen, lost>>
frame == <<lcdKey, lcdMask, lcdCount, first, last>>
lcd == <<hardware, lcdPc, frame>>
main == <<mainPc, mainFrames, masks, overtaken>>
vars == <<running, mask, key, pluginsManager, lcd, main>>

(* openDevice() has set the default mask and spawned the threads. *)
Init ==
    /\ running = TRUE
    /\ mask = Default
    /\ key = "none"
    /\ locked = FALSE
    /\ current = 1
    /\ counter = IF Plugins[1] \in Default THEN 0 ELSE MaxFrames[Plugins[1]]
    /\ screen = Blank /\ lost = FALSE
    /\ lcdPc = "top" /\ lcdKey = "none" /\ lcdMask = {}
    /\ lcdCount = 0 /\ first = 0 /\ last = FALSE
    /\ mainPc = "idle" /\ mainFrames = 0 /\ masks = 0
    /\ overtaken = FALSE

CurrentPlugin == Plugins[current]

-----------------------------------------------------------------------------
(* The LCD thread.                                                         *)

LCDGoto(from, to) == lcdPc = from /\ lcdPc' = to /\ UNCHANGED <<running, main>>

Take ==
    /\ running
    /\ LCDGoto("top", "count")
    /\ lcdKey' = key /\ key' = "none"
    /\ lcdMask' = mask
    /\ UNCHANGED <<mask, pluginsManager, hardware, lcdCount, first, last>>

(* The end of the loop: any plugin is unlocked, and left for the endscreen *)
(* if it is loaded.  Mutant: the counter is left as it is.                 *)
UnlockAtEnd ==
    /\ ~running
    /\ LCDGoto("top", "jump")
    /\ locked' = FALSE
    /\ UNCHANGED <<mask, key, current, counter, hardware, frame>>

JumpAtEndUnlocks ==
    /\ LCDGoto("jump", IF End \in Loaded THEN "count" ELSE "ended")
    /\ locked' = FALSE
    /\ lcdKey' = "none" /\ lcdMask' = {End} /\ last' = TRUE
    /\ UNCHANGED <<mask, key, current, counter, hardware, lcdCount, first>>
JumpAtEnd ==
    /\ LCDGoto("jump", IF End \in Loaded THEN "count" ELSE "ended")
    /\ locked' = FALSE
    /\ counter' = MaxFrames[CurrentPlugin]
    /\ lcdKey' = "none" /\ lcdMask' = {End} /\ last' = TRUE
    /\ UNCHANGED <<mask, key, current, hardware, lcdCount, first>>

(* getNextLCDScreenBuffer(): _frameCounter++ is a read and a write; then   *)
(* the locking key is taken.                                               *)
ReadCount ==
    /\ LCDGoto("count", "store")
    /\ lcdCount' = counter
    /\ UNCHANGED <<mask, key, pluginsManager, hardware, lcdKey, lcdMask, first, last>>

StoreCount ==
    /\ LCDGoto("store", "compare")
    /\ counter' = (lcdCount + 1) % FrameCounters
    /\ locked' = (locked # (lcdKey = "L2"))
    /\ lcdKey' = "none" /\ lcdCount' = 0
    /\ UNCHANGED <<mask, key, current, hardware, lcdMask, first, last>>

(* Has the current plugin been shown long enough? *)
CompareCount ==
    /\ LCDGoto("compare", IF counter < MaxFrames[CurrentPlugin] THEN "draw" ELSE "scan")
    /\ first' = IF counter < MaxFrames[CurrentPlugin] THEN 0 ELSE current
    /\ UNCHANGED <<mask, key, pluginsManager, hardware, lcdKey, lcdMask, lcdCount, last>>

(* The next plugin is looked for, one after the other.  A locked plugin    *)
(* stays, but has to be enabled as well; back at the first one, the        *)
(* exception leaves the screen blank and the counter as it is.             *)
(* Mutant: the plugin need not be enabled.                                 *)
AnyPlugin(p) == p \in Loaded
EnabledPlugin(p) == p \in lcdMask

Scan ==
    LET next == IF locked THEN current ELSE (current % Len(Plugins)) + 1
    IN  /\ LCDGoto("scan", IF EnabledPlugin(Plugins[next]) THEN "reset"
                           ELSE IF next = first THEN "blank" ELSE "scan")
        /\ current' = next
        /\ first' = IF EnabledPlugin(Plugins[next]) \/ next = first THEN 0 ELSE first
        /\ UNCHANGED <<mask, key, locked, counter, hardware, lcdKey, lcdMask, lcdCount, last>>

ResetCount ==
    /\ LCDGoto("reset", "draw")
    /\ counter' = 0
    /\ UNCHANGED <<mask, key, locked, current, hardware, frame>>

(* The frame is transferred, unless USB requests are skipped; a transfer   *)
(* that fails is only logged.                                              *)
Draw ==
    /\ LCDGoto(lcdPc, IF last THEN "ended" ELSE "top")
    /\ lcdPc \in {"draw", "blank"}
    /\ \/ screen' = (IF lcdPc = "draw" THEN CurrentPlugin ELSE Blank) /\ lost' = FALSE
       \/ UNCHANGED screen /\ lost' = TRUE
    /\ lcdMask' = {}
    /\ UNCHANGED <<mask, key, pluginsManager, lcdKey, lcdCount, first, last>>

LCDStep ==
    \/ Take \/ UnlockAtEnd \/ JumpAtEnd
    \/ ReadCount \/ StoreCount \/ CompareCount \/ Scan \/ ResetCount \/ Draw

-----------------------------------------------------------------------------
(* The listening thread: checkLCDKey().  A key replaces one that the LCD   *)
(* thread has not taken yet.                                               *)
PressKey(k) ==
    /\ running
    /\ key' = k
    /\ UNCHANGED <<running, mask, pluginsManager, lcd, main>>

(* Any of the threads meets too many errors, a client stops the device, or *)
(* the daemon is terminated.                                               *)
Stop ==
    /\ running
    /\ running' = FALSE
    /\ UNCHANGED <<mask, key, pluginsManager, lcd, main>>

-----------------------------------------------------------------------------
(* The main thread: setDeviceLCDPluginsMask(), called when a client sets   *)
(* the mask or the active user changes, and when the device is reset.      *)

MainGoto(from, to) == mainPc = from /\ mainPc' = to /\ UNCHANGED <<running, key, lcd>>

SetMask(m) ==
    /\ masks < MaxMasks
    /\ MainGoto("idle", "unlock")
    /\ masks' = masks + 1
    /\ mask' = IF m = {} THEN Default ELSE m
    /\ UNCHANGED <<pluginsManager, mainFrames, overtaken>>

UnlockPlugin ==
    /\ MainGoto("unlock", "look")
    /\ locked' = FALSE
    /\ UNCHANGED <<mask, current, counter, mainFrames, masks, overtaken>>

LookAtCurrent ==
    /\ MainGoto("look", IF CurrentPlugin \in mask THEN "idle" ELSE "jump")
    /\ UNCHANGED <<mask, pluginsManager, mainFrames, masks, overtaken>>

(* jumpToNextPlugin() unlocks, reads the frames of the current plugin and  *)
(* stores them as the count.  It is overtaken when the LCD thread, which   *)
(* has gone on to a plugin with more frames meanwhile, is between its own  *)
(* jump to the endscreen and its look at the counter.                      *)
JumpUnlocks ==
    /\ MainGoto("jump", "read")
    /\ locked' = FALSE
    /\ UNCHANGED <<mask, current, counter, mainFrames, masks, overtaken>>

JumpReadsFrames ==
    /\ MainGoto("read", "write")
    /\ mainFrames' = MaxFrames[CurrentPlugin]
    /\ UNCHANGED <<mask, pluginsManager, masks, overtaken>>

JumpStoresCount ==
    /\ MainGoto("write", "idle")
    /\ counter' = mainFrames
    /\ mainFrames' = 0
    /\ overtaken' = \/ overtaken
                    \/ /\ last /\ lcdPc \in {"count", "compare"}
                       /\ mainFrames < MaxFrames[CurrentPlugin]
    /\ UNCHANGED <<mask, locked, current, masks>>

MainStep == UnlockPlugin \/ LookAtCurrent \/ JumpUnlocks \/ JumpReadsFrames \/ JumpStoresCount

Done == lcdPc = "ended" /\ mainPc = "idle" /\ UNCHANGED vars

Next ==
    \/ LCDStep
    \/ \E k \in {"L2", "other"} : PressKey(k)
    \/ \E m \in Masks : SetMask(m)
    \/ MainStep
    \/ Stop
    \/ Done

Spec == Init /\ [][Next]_vars

(* Both threads run on; nobody has to press a key or to set a mask. *)
FairSpec == Spec /\ WF_vars(LCDStep) /\ WF_vars(MainStep)

-----------------------------------------------------------------------------
(* Every variable has its type; the mask is never empty. *)
TypeOK ==
    /\ running \in BOOLEAN /\ locked \in BOOLEAN
    /\ lost \in BOOLEAN /\ last \in BOOLEAN /\ overtaken \in BOOLEAN
    /\ mask \subseteq Plugin /\ mask # {} /\ lcdMask \subseteq Plugin
    /\ key \in {"none", "L2", "other"} /\ lcdKey \in {"none", "L2", "other"}
    /\ current \in DOMAIN Plugins /\ first \in 0 .. Len(Plugins)
    /\ counter \in 0 .. FrameCounters - 1 /\ lcdCount \in 0 .. FrameCounters - 1
    /\ mainFrames \in 0 .. FrameCounters - 1
    /\ screen \in Loaded \cup {Blank}
    /\ lcdPc \in {"top", "jump", "count", "store", "compare", "scan", "reset", "draw", "blank",
                  "ended"}
    /\ mainPc \in {"idle", "unlock", "look", "jump", "read", "write"}
    /\ masks \in 0 .. MaxMasks

(* LCDScreenLoop() leaves the endscreen on the LCD, whatever plugin was    *)
(* current or locked when it ended and although the main thread may be     *)
(* setting a mask meanwhile: unless that very frame was not transferred,   *)
(* or the main thread stored a stale count (LCDScreenPluginsManager.cpp:   *)
(* 160-165, see JumpStoresCount), with which another plugin is the last.   *)
EndscreenIsLast == lcdPc = "ended" /\ End \in Loaded => screen = End \/ lost \/ overtaken

(* A mask that is set for good and names a loaded plugin is obeyed in the  *)
(* end, although the LCD thread may use the previous one for a frame after *)
(* the main thread has made it jump, or undo that jump: unless a plugin is *)
(* locked for good, the LCD thread is stopped or no frame is transferred   *)
(* any more, only enabled plugins are shown.                               *)
MaskIsObeyed ==
    (<>[](running /\ ~locked) /\ []<>(mask \cap Loaded # {}) /\ []<>~lost)
        => <>[](screen \in mask)
=============================================================================
