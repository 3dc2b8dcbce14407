CONSTANTS
    NULL = NULL
    MAX_SLOTS = 1024
    MaxScopes = 4
    Names <- MCNames
    Hash <- MCHash
    Builtins <- MCBuiltins
    VarDecls <- MCVarDecls
    FuncDecls <- MCFuncDecls
    StructDecls <- MCStructDecls
    Exprs <- MCExprs
SPECIFICATION Spec
INVARIANT
    ReturnAlwaysFindsFunction
