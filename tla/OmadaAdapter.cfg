SPECIFICATION FairSpec
CONSTANTS
    Call = {c1, c2}
    Mac = {m1}
    PageSize = 1
    Setups = {"full", "hotspot", "legacy", "portal", "none"}
    MaxLate = 2
    NoCall = NoCall
INVARIANTS
    TypeOK
    OwnToken
    RevocationHolds
PROPERTIES
    EveryCallReturns
    ImplementsPort
