SPECIFICATION Spec
CONSTANTS
    Id <- MCId
    Username <- MCUsername
    Apartment <- MCApartment
    UsernameOf <- MCUsernameOf
    Mac = {m1, m2}
    Password = {p1, p2, p3}
    p1 = p1
    NoId = ""
    NoApartment = ""
    ResidentLimit = 2
    EmployeeLimit = 1
    ResidentLifetime = 2
    EmployeeLifetime = 2
    PersistOutcome = {"saved", "unsaved"}
    InitialFile <- MCInitialFile
    MaxTime = 2
    ControllerOutcome = {"done", "failed", "lostReply", "late", "missed"}
    Admin = {a1, a2}
    NotifyOutcome = {"done", "failed", "lostReply"}
    AdminExpiry = {2}
    NoAccount = NoAccount
    NoPassword = NoPassword
SYMMETRY Symmetry
INVARIANTS
    TypeOK
    EveryPasswordDelivered
    RotationSticks
PROPERTY
    RevokedBeforeCleared
