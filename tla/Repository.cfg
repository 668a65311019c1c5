SPECIFICATION Spec
CONSTANTS
    Id <- MCId
    Username <- MCUsername
    Apartment <- MCApartment
    UsernameOf <- MCUsernameOf
    Mac = {m1, m2}
    Password = {"p1"}
    NoId = ""
    NoApartment = ""
    ResidentLimit = 1
    EmployeeLimit = 1
    ResidentLifetime = 2
    EmployeeLifetime = 1
    PersistOutcome = {"saved", "unsaved", "lost"}
    InitialFile <- MCInitialFile
    MaxTime = 2
    Expiry = {0, 2}
INVARIANTS
    TypeOK
    DeviceLimit
    UniqueLogin
    AckedDurable
    DeletedStaysDeleted
    RefusedStaysOut
PROPERTIES
    ImplementsLedger
SYMMETRY MCSymmetry
