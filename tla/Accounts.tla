------------------------------ MODULE Accounts ------------------------------
(***************************************************************************)
(* The account records of the portal: what one record holds, when it lets  *)
(* its owner in, and what happens to its list of trusted devices.          *)
(*                                                                         *)
(* A password hash is represented by the password it was made from, and a  *)
(* device by its MAC.  All identities are normalised strings in the code;  *)
(* a row without id is filed under its username, so Username is a subset   *)
(* of Id and of Apartment.  Instants are natural numbers, 0 is Go's zero   *)
(* time.                                                                   *)
(***************************************************************************)
EXTENDS Naturals, FiniteSets

CONSTANTS
    Id,                \* keys of the account map
    Username,
    Apartment,
    Mac,               \* client devices
    Password,
    UsernameOf,        \* the login derived from each registered apartment
    NoId,              \* the empty id of a legacy row
    NoApartment,       \* the empty apartment of an employee
    ResidentLimit,     \* connections of a resident account
    EmployeeLimit,     \* connections of an employee account
    ResidentLifetime,  \* validity of a new resident account
    EmployeeLifetime   \* validity of a new employee account

ASSUME SharedStrings ==
    /\ Username \subseteq Id
    /\ Username \subseteq Apartment
    /\ NoId \notin Id
    /\ NoApartment \notin Apartment

ASSUME RegisteredApartments ==
    /\ DOMAIN UsernameOf \subseteq Apartment
    /\ \A apartment \in DOMAIN UsernameOf : UsernameOf[apartment] \in Username

ASSUME LimitsAssumption ==
    /\ ResidentLimit \in Nat
    /\ EmployeeLimit \in Nat \ {0}
    /\ ResidentLifetime \in Nat \ {0}
    /\ EmployeeLifetime \in Nat \ {0}

ASSUME FiniteMacs == IsFiniteSet(Mac)

\* The device list of one account: for each MAC the instant its trust ends,
\* 0 for one that is not listed.
Devices == [Mac -> Nat]

NoDevices == [m \in Mac |-> 0]

Account ==
    [id        : Id,
     kind      : {"resident", "employee"},
     apartment : Apartment \cup {NoApartment},
     username  : Username,
     password  : Password,
     enabled   : BOOLEAN,
     expires   : Nat,
     max       : Nat,
     devices   : Devices]

\* A row of the users file.  Files written before accounts had ids, kinds,
\* apartments and limits leave those fields out.
Row ==
    [id        : Id \cup {NoId},
     kind      : {"resident", "employee", "unset"},
     apartment : Apartment \cup {NoApartment},
     username  : Username,
     password  : Password,
     enabled   : BOOLEAN,
     expires   : Nat,
     max       : Nat,
     devices   : Devices]

-----------------------------------------------------------------------------
CanAuthenticate(account, t) ==
    /\ account.enabled
    /\ account.expires # 0
    /\ t < account.expires

CredentialsAccepted(account, password, t) ==
    /\ CanAuthenticate(account, t)
    /\ account.password = password

Listed(devices) == {m \in Mac : devices[m] # 0}

Live(devices, t) == {m \in Mac : t < devices[m]}

\* Mutant of Remembers: any trusted device of the account will do.
RemembersAnyDevice(account, mac, t) ==
    /\ CanAuthenticate(account, t)
    /\ Live(account.devices, t) # {}

\* FindByMAC's test: the account could log in and still trusts the device.
Remembers(account, mac, t) ==
    /\ CanAuthenticate(account, t)
    /\ mac \in Live(account.devices, t)

\* Mutant of HasRoom: off by one.
HasRoomOffByOne(account, mac, t) ==
    \/ mac \in Live(account.devices, t)
    \/ Cardinality(Live(account.devices, t)) <= account.max

\* A device that is already trusted is only refreshed; a new one needs a
\* free connection among those that are still trusted.
HasRoom(account, mac, t) ==
    \/ mac \in Live(account.devices, t)
    \/ Cardinality(Live(account.devices, t)) < account.max

\* Registering a device also drops the ones whose trust has ended.
WithDevice(devices, mac, until, t) ==
    [m \in Mac |-> IF m = mac THEN until
                   ELSE IF m \in Live(devices, t) THEN devices[m] ELSE 0]

\* Mutant of WithoutDevice: the shortened list is not stored.
WithoutDeviceForgotten(devices, mac) == devices

WithoutDevice(devices, mac) == [devices EXCEPT ![mac] = 0]

-----------------------------------------------------------------------------
NewResident(id, apartment, password, t) ==
    [id |-> id, kind |-> "resident", apartment |-> apartment,
     username |-> UsernameOf[apartment], password |-> password, enabled |-> TRUE,
     expires |-> t + ResidentLifetime, max |-> ResidentLimit,
     devices |-> NoDevices]

NewEmployee(id, username, password, t) ==
    [id |-> id, kind |-> "employee", apartment |-> NoApartment,
     username |-> username, password |-> password, enabled |-> TRUE,
     expires |-> t + EmployeeLifetime, max |-> EmployeeLimit,
     devices |-> NoDevices]

LoadedLimit(row) ==
    CASE row.kind # "employee" -> ResidentLimit
      [] row.kind = "employee" /\ row.max = 0 -> EmployeeLimit
      [] OTHER -> row.max

\* Mutant of Loaded: a row without id keeps none.
LoadedWithoutId(row, t) ==
    [row EXCEPT
        !.kind = IF @ = "unset" THEN "resident" ELSE @,
        !.apartment = IF @ = NoApartment /\ row.kind # "employee"
                      THEN row.username ELSE @,
        !.max = LoadedLimit(row),
        !.expires = IF @ = 0 THEN t + ResidentLifetime ELSE @]

\* What a row becomes when the service starts at instant t.
Loaded(row, t) ==
    [row EXCEPT
        !.id = IF @ = NoId THEN row.username ELSE @,
        !.kind = IF @ = "unset" THEN "resident" ELSE @,
        !.apartment = IF @ = NoApartment /\ row.kind # "employee"
                      THEN row.username ELSE @,
        !.max = LoadedLimit(row),
        !.expires = IF @ = 0 THEN t + ResidentLifetime ELSE @]
=============================================================================
