CONSTANTS
    Idents = {s, t}
    NoIdent = NoIdent
    Depth = 3
    MainName <- MCMain
    Exps <- MCNum
    Conds <- MCCond
    Kinds = {"put", "tag", "if", "to"}
    Value <- Run
    CallValue <- Called
    Sloppy = {}
    MaxFuncs = 0
    MaxParams = 0
    MaxDecls = 0
    MaxStmts = 5
SPECIFICATION MipsSpec
INVARIANTS
    PendingExact
    UsesAgree
    Backpatched
    JumpsTargeted
PROPERTIES
    EmittedKept
    RefinesIr
    RefinesSource
    ForwardEnds
