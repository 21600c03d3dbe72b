CONSTANTS
    Idents <- MCNames
    NoIdent = NoIdent
    Depth = 3
    MainName <- MCMain
    Exps <- MCFewExps
    Conds <- MCCond
    Kinds = {"get", "put", "let", "tag", "if", "to"}
    Value <- Run
    CallValue <- Called
    Sloppy = {}
    MaxFuncs = 2
    MaxParams = 2
    MaxDecls = 1
    MaxStmts = 1
SPECIFICATION MipsSpec
INVARIANTS
    ErrorsExact
    LabelsRight
PROPERTY
    RefinesIr
