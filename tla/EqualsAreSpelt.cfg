CONSTANTS
    Letters <- MCLetters
    Digits <- MCDigits
    Strangers <- MCStrangers
    Keywords <- MCKeywords
    Texts <- MCTexts
SPECIFICATION Spec
INVARIANT
    EqualsAreSpelt
