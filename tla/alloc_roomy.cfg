CONSTANTS
    FLOATCOUNT = 6
    F12 = 3
    TMPCOUNT = 1
    Values <- MCValues
    Vars = {a}
    Slots <- MCSlots
    Junk = Junk
    RetAddr = RetAddr
    MaxLive = 2
    MaxArity = 2
    MinSlot <- MCNeg2
    UnaryOps = {"Neg", "Pos"}
SPECIFICATION Spec
INVARIANTS
    NeverDead
    ArgsInPlace
    TableExact
