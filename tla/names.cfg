CONSTANTS
    Idents = {f, x}
    NoIdent = NoIdent
    Depth = 3
    Exps <- MCExps
    Conds <- MCConds
    Kinds = {"get", "put", "tag", "let", "if", "to"}
    Value <- Run
    CallValue <- Called
    Sloppy = {"BadGet", "BadIf"}
    MaxFuncs = 1
    MaxParams = 1
    MaxDecls = 2
    MaxStmts = 2
SYMMETRY MCSymmetry
SPECIFICATION MachineSpec
INVARIANTS
    TypeOK
    BlocksEnd
    ErrorsExact
PROPERTY
    RefinesSource
