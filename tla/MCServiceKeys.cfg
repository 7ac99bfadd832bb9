\* A slot and two modifiers: three keys may be down at once.
SPECIFICATION KeysSpec
CONSTANTS
    Key = {a, b}
    None = None
    NumSlots = 1
    NumModifiers = 2
    MaxSize = 6
    KeypressMaxSize = 4
    GKeyID = {G1}
    MaxSignals = 1
SYMMETRY KeySymmetry
INVARIANTS
    KeysTypeOK
    ShortMacrosAreRepaired
    NoKeyStaysDown
PROPERTIES
    StoredAsSent
