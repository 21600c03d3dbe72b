CONSTANTS
    FLOATCOUNT = 5
    F12 = 3
    TMPCOUNT = 1
    Values <- MCValues
    Vars = {a}
    Slots <- MCSlots
    Junk = Junk
    RetAddr = RetAddr
    MaxLive = 2
    MaxArity = 1
    MinSlot <- MCNeg2
    UnaryOps = {"Neg"}
SPECIFICATION Spec
INVARIANTS
    ValuesHeld
