CONSTANTS
    NULL = NULL
    GARBAGE = GARBAGE
    MAX_SLOTS = 1024
    MaxScopes = 4
    Letters <- MCLetters
    Digits <- MCDigits
    Strangers <- MCStrangers
    Keywords <- MCKeywords
    Texts <- MCTexts
    Names <- MCNames
    Hash <- MCHash
    Builtins <- MCBuiltins
    Exprs <- MCExprs
SPECIFICATION Spec
INVARIANTS
    ListHoldsTokens
    ListIsFreed
    AcceptedIfWellTyped
PROPERTY
    EndsOrAsksForName
