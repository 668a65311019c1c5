SPECIFICATION FairSpec
CONSTANTS
    Id <- MCId
    Username <- MCUsername
    Apartment <- MCApartment
    UsernameOf <- MCUsernameOf
    Mac = {m1}
    Password = {p1, p2}
    p1 = p1
    NoId = ""
    NoApartment = ""
    ResidentLimit = 2
    EmployeeLimit = 1
    ResidentLifetime = 2
    EmployeeLifetime = 2
    PersistOutcome = {"saved", "unsaved"}
    InitialFile <- MCInitialFile
    MaxTime = 1
    ControllerOutcome = {"done", "failed", "missed"}
    Admin = {a1, a2}
    NotifyOutcome = {"done", "failed"}
    AdminExpiry = {2}
    NoAccount = NoAccount
    NoPassword = NoPassword
PROPERTY
    EveryAdminRequestAnswered
