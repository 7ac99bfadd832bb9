----------------------------- MODULE GKeysMacro -----------------------------
(***************************************************************************)
(* What becomes of the standard keys that are typed while a macro is       *)
(* recorded: the events that the reports of the keyboard add to _newMacro  *)
(* (KeyboardDriver::fillStandardKeysEvents) and the checks of the macro    *)
(* when a G key is pressed (GKeysMacro::checkMacro).  Intervals between    *)
(* events are left out.                                                    *)
(***************************************************************************)
EXTENDS Integers, Sequences, FiniteSets, SequencesExt, FiniteSetsExt

CONSTANTS
    Key,                    \* the standard keys
    None,                   \* byte 0: no key
    NumSlots,               \* bytes of a report that hold a standard key
    NumModifiers,           \* bits of its byte of modifiers
    MaxSize,                \* MACRO_T_MAX_SIZE
    KeypressMaxSize         \* MACRO_T_KEYPRESS_MAX_SIZE

ASSUME SizesAssumption ==
    /\ {NumSlots, NumModifiers, MaxSize, KeypressMaxSize} \subseteq Nat
    /\ KeypressMaxSize <= MaxSize
    /\ MaxSize > 0
    /\ None \notin Key

VARIABLES
    pc,             \* "listen", "record", or "over" until the macro is cleared
    previous,       \* _previousPressedKeys
    newMacro,       \* _newMacro
    typed           \* history: the macro as it was before checkMacro()

vars == <<pc, previous, newMacro, typed>>

Modifier == 1 .. NumModifiers
(* A key is in one slot at most. *)
Slots == {keys \in [1 .. NumSlots -> Key \cup {None}] :
            \A i, j \in 1 .. NumSlots : i # j /\ keys[i] = keys[j] => keys[i] = None}
Report == [modifiers : 0 .. (2 ^ NumModifiers - 1), keys : Slots]
Event == [key : Key \cup Modifier, press : BOOLEAN]

(* The elements of a set of indexes, from the first to the last. *)
Ascending(S) ==
    [n \in 1 .. Cardinality(S) |-> CHOOSE i \in S : Cardinality({j \in S : j <= i}) = n]

-----------------------------------------------------------------------------
(* Recording.                                                              *)

(* Above the first limit only releases are appended, above the second one  *)
(* nothing.  Mutant: the first limit is the only one.                      *)
RecordedOneLimit(macro, e) ==
    IF Len(macro) >= KeypressMaxSize /\ e.press THEN macro ELSE Append(macro, e)
Recorded(macro, e) ==
    IF Len(macro) >= MaxSize \/ (Len(macro) >= KeypressMaxSize /\ e.press)
    THEN macro
    ELSE Append(macro, e)

(* handleModifierKeys(): the modifiers are the bits of the difference of   *)
(* the two bytes.                                                          *)
ModifierEvents(old, new) ==
    LET diff == IF old > new THEN old - new ELSE new - old
        changed == Ascending({i \in Modifier : (diff \div 2 ^ (i - 1)) % 2 = 1})
    IN  [i \in DOMAIN changed |-> [key |-> changed[i], press |-> new > old]]

(* A key that replaces another one in its slot is not recorded. *)
SlotEvent(old, new) ==
    IF old = new THEN <<>>
    ELSE IF old = None THEN <<[key |-> new, press |-> TRUE]>>
    ELSE IF new = None THEN <<[key |-> old, press |-> FALSE]>>
    ELSE <<>>

(* The slots are looked at from the last to the first. *)
KeyEvents(old, new) ==
    FlattenSeq([i \in 1 .. NumSlots |->
                    LET slot == NumSlots + 1 - i IN SlotEvent(old[slot], new[slot])])

Fill(macro, old, new) ==
    LET events == ModifierEvents(old.modifiers, new.modifiers) \o KeyEvents(old.keys, new.keys)
        after[i \in 0 .. Len(events)] ==
            IF i = 0 THEN macro ELSE Recorded(after[i - 1], events[i])
    IN  after[Len(events)]

-----------------------------------------------------------------------------
(* checkMacro()                                                            *)

(* fillInVectors() *)
Presses(macro) == Ascending({i \in DOMAIN macro : macro[i].press})
Releases(macro) == {i \in DOMAIN macro : ~macro[i].press}

(* The releases that may end a press.  Mutant: the order is not compared. *)
ReleasesOfKey(macro, releases, p) == {r \in releases : macro[r].key = macro[p].key}
ReleasesOf(macro, releases, p) == {r \in releases : macro[r].key = macro[p].key /\ p < r}

(* Each press takes the first release that may end it.  What is left:      *)
(* missing releases, redundant ones, and the paired indexes.               *)
Match(macro, m, p) ==
    LET ends == ReleasesOf(macro, m.redundant, p)
    IN  IF ~macro[p].press THEN m
        ELSE IF ends = {} THEN [m EXCEPT !.missing = Append(@, macro[p].key)]
        ELSE [m EXCEPT !.redundant = @ \ {Min(ends)}, !.paired = @ \cup {p, Min(ends)}]

Matched(macro) ==
    LET after[i \in 0 .. Len(macro)] ==
            IF i = 0 THEN [missing |-> <<>>, redundant |-> Releases(macro), paired |-> {}]
            ELSE Match(macro, after[i - 1], i)
    IN  after[Len(macro)]

Erased(macro, indexes) ==
    LET kept == Ascending(DOMAIN macro \ indexes) IN [i \in DOMAIN kept |-> macro[kept[i]]]

(* fixMacroReleaseEvents() adds the missing releases and erases the        *)
(* redundant ones, the last one first.  Mutant: the first one first, so    *)
(* that the indexes of the others have moved.                              *)
FixReleasesForwards(macro) ==
    LET m == Matched(macro)
        added == macro \o [i \in DOMAIN m.missing |-> [key |-> m.missing[i], press |-> FALSE]]
    IN  FoldLeft(LAMBDA s, r : IF r \in DOMAIN s THEN RemoveAt(s, r) ELSE s,
                 added, Ascending(m.redundant))
FixReleases(macro) ==
    LET m == Matched(macro)
        added == macro \o [i \in DOMAIN m.missing |-> [key |-> m.missing[i], press |-> FALSE]]
    IN  Erased(added, m.redundant)

(* fixMacroSize() erases two events at a time, those with the two greatest *)
(* of the paired indexes, until the macro fits; the rest is cut.           *)
FixSize(macro) ==
    LET indexes == Ascending(Matched(macro).paired)
        rounds == Min({(Len(macro) - MaxSize) \div 2 + 1, Len(indexes) \div 2})
        last == {indexes[i] : i \in Len(indexes) - 2 * rounds + 1 .. Len(indexes)}
        erased == Erased(macro, last)
    IN  SubSeq(erased, 1, Min({MaxSize - 1, Len(erased)}))

CheckMacro(macro) ==
    LET fixed == FixReleases(macro)
    IN  IF Len(fixed) >= MaxSize THEN FixSize(fixed) ELSE fixed

-----------------------------------------------------------------------------
Init ==
    /\ pc = "listen"
    /\ previous = [modifiers |-> 0, keys |-> [i \in 1 .. NumSlots |-> None]]
    /\ newMacro = <<>>
    /\ typed = <<>>

EnterRecord ==
    /\ pc = "listen"
    /\ pc' = "record"
    /\ UNCHANGED <<previous, newMacro, typed>>

(* A report of 8 bytes.  Reports that come while no macro is recorded are  *)
(* skipped: _previousPressedKeys then holds what was pressed long ago.     *)
KeyReport(report) ==
    /\ pc = "record"
    /\ newMacro' = Fill(newMacro, previous, report)
    /\ previous' = report
    /\ UNCHANGED <<pc, typed>>

(* An M key, MR or the main thread ends the recording. *)
Abandon ==
    /\ pc = "record"
    /\ pc' = "over"
    /\ UNCHANGED <<previous, newMacro, typed>>

GKey ==
    /\ pc = "record"
    /\ pc' = "over"
    /\ typed' = newMacro
    /\ newMacro' = CheckMacro(newMacro)
    /\ UNCHANGED previous

Clear ==
    /\ pc = "over"
    /\ pc' = "listen"
    /\ newMacro' = <<>>
    /\ typed' = <<>>
    /\ UNCHANGED previous

-----------------------------------------------------------------------------
(* Every variable has its type; a macro never outgrows MACRO_T_MAX_SIZE.   *)
TypeOK ==
    /\ pc \in {"listen", "record", "over"}
    /\ previous \in Report
    /\ newMacro \in Seq(Event) /\ Len(newMacro) <= MaxSize
    /\ typed \in Seq(Event) /\ Len(typed) <= MaxSize

(* A G key was pressed and there was something to send. *)
Sent == typed # <<>>

NumEvents(macro, key, press, n) ==
    Cardinality({i \in 1 .. n : macro[i] = [key |-> key, press |-> press]})

(* Run from the beginning, the macro releases only keys it has pressed,    *)
(* and all of them by its end.                                             *)
Playable(macro) ==
    \A key \in Key \cup Modifier :
        /\ \A n \in DOMAIN macro :
                NumEvents(macro, key, FALSE, n) <= NumEvents(macro, key, TRUE, n)
        /\ NumEvents(macro, key, FALSE, Len(macro)) = NumEvents(macro, key, TRUE, Len(macro))

NumPresses(macro) == Len(Presses(macro))
PressedKeys(macro) == [i \in 1 .. NumPresses(macro) |-> macro[Presses(macro)[i]].key]

(* checkMacro() repairs a macro that is not too long, whatever reports     *)
(* were missed before or during the recording: no key stays down when it   *)
(* is run, none is released that was not pressed; and no key press that    *)
(* was recorded is lost or changes its place among the others.             *)
ShortMacrosAreRepaired ==
    Sent /\ 2 * NumPresses(typed) < MaxSize
        => Playable(newMacro) /\ PressedKeys(newMacro) = PressedKeys(typed)
=============================================================================
