CONSTANTS
    Letters <- MCLetters
    Digits <- MCDigits
    Strangers <- MCStrangers
    Keywords <- MCKeywords
    Texts <- MCTexts
SPECIFICATION Spec
INVARIANTS
    TypeOK
    TokensAreLongest
    NoOverrun
    LinesExist
PROPERTY
    Terminates
