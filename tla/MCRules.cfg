SPECIFICATION Spec
CONSTANTS
    Literals <- MCLiterals
    Networks <- MCNetworks
    MaxInt = 98
    Rules <- MCRuleSet
    WordTexts <- MCWordTexts
    ByteTexts <- MCByteTexts
    Scheme <- MCScheme
    Events <- MCEvents
CHECK_DEADLOCK FALSE
INVARIANTS
    TokensTileText
    PositionsAreTrue
    ParsedAsWritten
    
    NeIsNotEq
