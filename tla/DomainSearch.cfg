CONSTANTS
    ex = ex
    other = other
    word = word
    Texts <- MCTexts
    Names <- MCNames
    Normalise <- MCNormalise
    Dotted <- MCDotted
    Widget = TRUE
    MaxEvents = 4
SPECIFICATION SearchLiveSpec
INVARIANTS QuoteMatchesField NewestSearchSpeaks OneSearchUnderWay
PROPERTIES FieldAnswered
CHECK_DEADLOCK FALSE
