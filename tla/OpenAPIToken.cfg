SPECIFICATION Spec
CONSTANTS
    Timeout <- MCTimeout
    Margin <- MCMargin
    Lifetime <- MCLifetime
    MaxTime <- MCMaxTime
INVARIANTS
    TypeOK
    TokenFresh
    RejectionsEnd
