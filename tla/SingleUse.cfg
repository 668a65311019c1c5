SPECIFICATION Spec
CONSTANTS
    Id = {"ana"}
    Username = {"ana"}
    Apartment = {"ana"}
    UsernameOf <- MCUsernameOf
    Mac = {m1, m2}
    Password = {"p1"}
    NoId = ""
    NoApartment = ""
    ResidentLimit = 1
    EmployeeLimit = 1
    ResidentLifetime = 2
    EmployeeLifetime = 2
    PersistOutcome = {"saved"}
    InitialFile <- MCInitialFile
    MaxTime = 3
    ControllerOutcome = {"done", "failed", "lostReply"}
    Request = {r1, r2}
    Session = {s1, s2}
    SessionTTL = 1
    ClientDuration = 2
    EmployeeDuration = 2
    MaxLate = 0
    NoSession = NoSession
    NoMac = NoMac
    NoUser = ""
    NoPassword = ""
SYMMETRY Symmetry
INVARIANT SingleUse
