CONSTANTS
    Idents = {s}
    NoIdent = NoIdent
    Depth = 3
    Exps <- MCNum
    Conds <- MCCond
    Kinds = {"put", "tag", "if", "to"}
    Sloppy = {"RepeatedTag"}
    MaxFuncs = 0
    MaxParams = 0
    MaxDecls = 0
    MaxStmts = 5
SPECIFICATION Spec
INVARIANT
    Backpatched
