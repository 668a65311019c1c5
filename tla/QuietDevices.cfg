SPECIFICATION SpecUnderWay
CONSTANTS
    Id = {"apto72"}
    Username <- MCUsername
    Apartment <- MCApartment
    UsernameOf <- MCUsernameOf
    Mac = {home, m1, m2}
    home = home
    Password = {p1, p2}
    p1 = p1
    NoId = ""
    NoApartment = ""
    ResidentLimit = 3
    EmployeeLimit = 1
    ResidentLifetime = 2
    EmployeeLifetime = 2
    PersistOutcome = {"saved"}
    InitialFile <- NoDevice
    MaxTime = 1
    ControllerOutcome = {"done", "failed"}
    Request = {r1}
    Session = {s1, s2, s3}
    SessionTTL = 2
    ClientDuration = 2
    EmployeeDuration = 2
    MaxLate = 0
    NoSession = NoSession
    NoMac = NoMac
    NoUser = ""
    Admin = {a1}
    NotifyOutcome = {"done"}
    AdminExpiry = {1}
    NoAccount = NoAccount
    NoPassword = NoPassword
PROPERTY RotationRevokesQuietDevices
