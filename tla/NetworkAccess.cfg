SPECIFICATION FairSpec
CONSTANTS
    Id = {"apto72"}
    Username <- MCUsername
    Apartment <- MCApartment
    UsernameOf <- MCUsernameOf
    Mac = {home}
    home = home
    Password = {p1, p2}
    p1 = p1
    NoId = ""
    NoApartment = ""
    ResidentLimit = 1
    EmployeeLimit = 1
    ResidentLifetime = 2
    EmployeeLifetime = 2
    PersistOutcome = {"saved"}
    InitialFile <- OneDevice
    MaxTime = 2
    ControllerOutcome = {"done", "late", "missed"}
    Request = {r1}
    Session = {s1}
    SessionTTL = 2
    ClientDuration = 2
    EmployeeDuration = 2
    MaxLate = 1
    NoSession = NoSession
    NoMac = NoMac
    NoUser = ""
    Admin = {a1}
    NotifyOutcome = {"done", "failed"}
    AdminExpiry = {2}
    NoAccount = NoAccount
    NoPassword = NoPassword
INVARIANTS
    TypeOK
    GrantWithinAccount
PROPERTIES
    RevokedUnlessTouched
    EveryRequestAnswered
