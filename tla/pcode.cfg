CONSTANTS
    Idents = {f, x}
    NoIdent = NoIdent
    Depth = 3
    CallValue <- Called
    MainLabel = MainLabel
    Exps <- MCExps
    Conds <- MCConds
    Kinds = {"get", "put", "tag", "let", "if", "to"}
    MaxFuncs = 2
    MaxParams = 2
    MaxDecls = 1
    MaxStmts = 2
SPECIFICATION PcodeSpec
INVARIANTS
    OperandsThere
    StacksDrained
PROPERTIES
    ForwardEnds
    RefinesSource
