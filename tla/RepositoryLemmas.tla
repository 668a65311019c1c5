-------------------------- MODULE RepositoryLemmas --------------------------
(***************************************************************************)
(* What the operations of the repository do to a well-formed set of        *)
(* accounts (RecordsOK) and a well-formed file (FileOK), whoever calls     *)
(* them: every write turns the first into the second, and every start the  *)
(* second into the first.                                                  *)
(***************************************************************************)
EXTENDS UserRepository, FiniteSetTheorems, TLAPS

-----------------------------------------------------------------------------
(* Device lists                                                            *)

\* Dropping devices from a list never makes it longer.
LEMMA FewerDevices ==
    ASSUME NEW D \in SUBSET Mac, NEW E \in SUBSET D
    PROVE  /\ IsFiniteSet(D) /\ IsFiniteSet(E)
           /\ Cardinality(D) \in Nat /\ Cardinality(E) \in Nat
           /\ Cardinality(E) <= Cardinality(D)
<1>1. IsFiniteSet(D)
  BY FS_Subset, FiniteMacs
<1>2. QED
  BY <1>1, FS_Subset, FS_CardinalityType

\* A device that finds room leaves its account within the limit, whether it was
\* trusted before, had expired, or is new (RegisterDevice).
LEMMA RoomIsEnough ==
    ASSUME NEW a \in Account, NEW m \in Mac, NEW until \in Nat, NEW t \in Nat,
           Cardinality(Listed(a.devices)) <= a.max,
           HasRoom(a, m, t)
    PROVE  /\ WithDevice(a.devices, m, until, t) \in Devices
           /\ Cardinality(Listed(WithDevice(a.devices, m, until, t))) <= a.max
<1> DEFINE d == WithDevice(a.devices, m, until, t)
           live == Live(a.devices, t)
<1>1. a.devices \in [Mac -> Nat] /\ a.max \in Nat
  BY DEF Account, Devices
<1>2. d \in Devices
  BY <1>1 DEF WithDevice, Devices
<1>3. Listed(d) \subseteq live \cup {m}
  BY <1>1 DEF WithDevice, Listed
<1>4. live \subseteq Listed(a.devices)
  BY <1>1 DEF Live, Listed
<1>5. live \in SUBSET Mac /\ Listed(a.devices) \in SUBSET Mac /\ live \cup {m} \in SUBSET Mac
  BY DEF Live, Listed
<1>6. /\ Cardinality(live) \in Nat
      /\ Cardinality(live) <= Cardinality(Listed(a.devices))
      /\ Cardinality(Listed(a.devices)) \in Nat
      /\ IsFiniteSet(live)
  BY <1>4, <1>5, FewerDevices
<1>7. Cardinality(live \cup {m}) <= a.max
  <2>1. CASE m \in live
    <3>1. live \cup {m} = live
      BY <2>1
    <3>2. Cardinality(live \cup {m}) = Cardinality(live)
      BY <3>1, Zenon
    <3>3. Cardinality(live) <= a.max
      BY <1>6, <1>1
    <3>4. QED
      BY <3>2, <3>3, Zenon
  <2>2. CASE m \notin live
    <3>1. Cardinality(live) < a.max
      BY <2>2 DEF HasRoom
    <3>2. Cardinality(live \cup {m}) = Cardinality(live) + 1
      BY <2>2, <1>6, FS_AddElement
    <3>3. QED
      BY <3>1, <3>2, <1>6, <1>1
  <2>3. QED
    BY <2>1, <2>2
<1>8. /\ Cardinality(Listed(d)) <= Cardinality(live \cup {m})
      /\ Cardinality(Listed(d)) \in Nat /\ Cardinality(live \cup {m}) \in Nat
  BY <1>3, <1>5, FewerDevices
<1>9. QED
  BY <1>1, <1>2, <1>7, <1>8

\* Removing a device keeps the account within its limit (RemoveDevice).
LEMMA RemovalIsSafe ==
    ASSUME NEW devices \in Devices, NEW m \in Mac, NEW limit \in Nat,
           Cardinality(Listed(devices)) <= limit
    PROVE  /\ WithoutDevice(devices, m) \in Devices
           /\ Cardinality(Listed(WithoutDevice(devices, m))) <= limit
<1>1. devices \in [Mac -> Nat]
  BY DEF Devices
<1>2. WithoutDevice(devices, m) \in Devices
  BY <1>1 DEF WithoutDevice, Devices
<1>3. Listed(WithoutDevice(devices, m)) \subseteq Listed(devices)
  BY <1>1 DEF WithoutDevice, Listed
<1>4. Listed(devices) \in SUBSET Mac
  BY DEF Listed
<1>5. QED
  BY <1>2, <1>3, <1>4, FewerDevices

\* An empty list is within every limit.
LEMMA EmptyList ==
    /\ NoDevices \in Devices
    /\ Listed(NoDevices) = {}
    /\ Cardinality(Listed(NoDevices)) = 0
BY FS_EmptySet DEF NoDevices, Devices, Listed

-----------------------------------------------------------------------------
(* Well-formed sets of accounts, in memory and on disk                     *)

RecordOK(a) ==
    /\ a \in Account
    /\ WellFormed(a)
    /\ a.max = LoadedLimit(a)
    /\ a.kind = "resident" => a.apartment # NoApartment

RecordsOK(recs) ==
    /\ DOMAIN recs \subseteq Id
    /\ \A k \in DOMAIN recs : RecordOK(recs[k]) /\ recs[k].id = k
    /\ \A k, l \in DOMAIN recs : k # l => Compatible(recs[k], recs[l])

FileOK(rows) ==
    /\ \A row \in rows : row \in Row /\ WellFormed(row)
    /\ \A r1, r2 \in rows : r1 # r2 => Compatible(Loaded(r1, 1), Loaded(r2, 1))

\* The accounts a file brings back, by the id they get when it is loaded.
FileIds(rows) == {Loaded(row, 1).id : row \in rows}

\* u and a are versions of one account.
SameAccount(u, a) ==
    /\ u.id = a.id
    /\ u.kind = a.kind
    /\ u.username = a.username
    /\ u.apartment = a.apartment

-----------------------------------------------------------------------------
(* Loading and storing                                                     *)

\* What loading does to a row, field by field.  Only the date it gives to a row
\* without one depends on when it is loaded.
LEMMA LoadedFields ==
    ASSUME NEW row \in Row, NEW t \in Nat
    PROVE  /\ Loaded(row, t).id = IF row.id = NoId THEN row.username ELSE row.id
           /\ Loaded(row, t).kind = IF row.kind = "unset" THEN "resident" ELSE row.kind
           /\ Loaded(row, t).apartment =
                 IF row.apartment = NoApartment /\ row.kind # "employee"
                 THEN row.username ELSE row.apartment
           /\ Loaded(row, t).username = row.username
           /\ Loaded(row, t).password = row.password
           /\ Loaded(row, t).enabled = row.enabled
           /\ Loaded(row, t).expires = IF row.expires = 0 THEN t + ResidentLifetime
                                                          ELSE row.expires
           /\ Loaded(row, t).max = LoadedLimit(row)
           /\ Loaded(row, t).devices = row.devices
           /\ Loaded(row, t) \in
                 [id : Id \cup {NoId}, kind : {"resident", "employee"},
                  apartment : Apartment \cup {NoApartment}, username : Username,
                  password : Password, enabled : BOOLEAN, expires : Nat,
                  max : Nat, devices : Devices]
<1>1. LoadedLimit(row) \in Nat
  BY LimitsAssumption DEF LoadedLimit, Row
<1>2. row.username \in Apartment
  BY SharedStrings DEF Row
<1>3. row.username \in Id
  BY SharedStrings DEF Row
<1>4. t + ResidentLifetime \in Nat
  BY LimitsAssumption
<1>5. QED
  BY <1>1, <1>2, <1>3, <1>4 DEF Loaded, Row

\* A well-formed row loads as a well-formed account of the same identity,
\* whenever it is loaded (load).
LEMMA LoadedOK ==
    ASSUME NEW row \in Row, WellFormed(row), NEW t \in Nat
    PROVE  /\ RecordOK(Loaded(row, t))
           /\ Loaded(row, t).id = Loaded(row, 1).id
           /\ SameAccount(Loaded(row, t), Loaded(row, 1))
<1> DEFINE a == Loaded(row, t)
<1>1. /\ a.id = Loaded(row, 1).id
      /\ SameAccount(a, Loaded(row, 1))
  BY LoadedFields DEF SameAccount
<1>2. a \in Account
  <2>1. a.id \in Id
    BY LoadedFields, SharedStrings DEF Row
  <2>2. QED
    BY <2>1, LoadedFields DEF Account
<1>3. LoadedLimit(a) = LoadedLimit(row)
  BY LoadedFields, LimitsAssumption DEF LoadedLimit, Row
<1>4. WellFormed(a)
  <2>1. a.devices = row.devices
    BY LoadedFields
  <2>2. a.kind = "employee" => a.apartment = NoApartment
    BY LoadedFields DEF WellFormed, Row
  <2>3. QED
    BY <1>3, <2>1, <2>2, Zenon DEF WellFormed
<1>5. a.max = LoadedLimit(a)
  BY <1>3, LoadedFields
<1>6. a.kind = "resident" => a.apartment # NoApartment
  BY LoadedFields, SharedStrings DEF Row
<1>7. QED
  BY <1>1, <1>2, <1>4, <1>5, <1>6 DEF RecordOK

\* What a start finds in the file is a well-formed set of accounts, each the
\* image of its row (load).
LEMMA LoadOK ==
    ASSUME NEW rows, FileOK(rows), NEW t \in Nat
    PROVE  /\ DOMAIN Load(rows, t) = FileIds(rows)
           /\ \A row \in rows : /\ Loaded(row, t).id \in DOMAIN Load(rows, t)
                                /\ Load(rows, t)[Loaded(row, t).id] = Loaded(row, t)
           /\ RecordsOK(Load(rows, t))
<1> DEFINE loaded == {Loaded(row, t) : row \in rows}
           recs == Load(rows, t)
<1>1. \A row \in rows : /\ RecordOK(Loaded(row, t))
                        /\ Loaded(row, t).id = Loaded(row, 1).id
                        /\ SameAccount(Loaded(row, t), Loaded(row, 1))
  BY LoadedOK DEF FileOK
<1>2. DOMAIN recs = {a.id : a \in loaded}
  BY DEF Load
<1>3. {a.id : a \in loaded} = FileIds(rows)
  BY <1>1 DEF FileIds
<1>4. \A r1, r2 \in rows : r1 # r2 => Compatible(Loaded(r1, t), Loaded(r2, t))
  BY <1>1 DEF FileOK, Compatible, SameAccount
<1>5. \A a, b \in loaded : a # b => Compatible(a, b)
  BY <1>4
<1>6. \A a, b \in loaded : a.id = b.id => a = b
  BY <1>5 DEF Compatible
<1>7. \A a \in loaded : recs[a.id] = a
  <2>1. SUFFICES ASSUME NEW a \in loaded
                 PROVE  recs[a.id] = a
    OBVIOUS
  <2>2. recs[a.id] = CHOOSE b \in loaded : b.id = a.id
    BY <1>2 DEF Load
  <2>3. \A b \in loaded : b.id = a.id => b = a
    BY <1>6
  <2>4. (CHOOSE b \in loaded : b.id = a.id) = a
    BY <2>3
  <2>5. QED
    BY <2>2, <2>4
<1>8. \A k \in DOMAIN recs : \E a \in loaded : a.id = k /\ recs[k] = a
  BY <1>2, <1>7
<1>9. \A a \in loaded : RecordOK(a)
  BY <1>1
<1>10. RecordsOK(recs)
  <2>1. DOMAIN recs \subseteq Id
    BY <1>8, <1>9 DEF RecordOK, Account
  <2>2. \A k \in DOMAIN recs : RecordOK(recs[k]) /\ recs[k].id = k
    BY <1>8, <1>9
  <2>3. \A k, l \in DOMAIN recs : k # l => Compatible(recs[k], recs[l])
    BY <1>5, <1>8
  <2>4. QED
    BY <2>1, <2>2, <2>3 DEF RecordsOK
<1>11. QED
  BY <1>2, <1>3, <1>7, <1>10

\* A well-formed set of accounts is stored as a well-formed file of the same
\* accounts (persistLocked).
LEMMA RowsOK ==
    ASSUME NEW recs, RecordsOK(recs)
    PROVE  /\ FileOK(Rows(recs))
           /\ FileIds(Rows(recs)) = DOMAIN recs
<1>1. \A k \in DOMAIN recs :
         /\ recs[k] \in Row /\ WellFormed(recs[k])
         /\ recs[k].id = k
         /\ SameAccount(Loaded(recs[k], 1), recs[k])
  <2>1. SUFFICES ASSUME NEW k \in DOMAIN recs
                 PROVE  /\ recs[k] \in Row /\ WellFormed(recs[k])
                        /\ recs[k].id = k
                        /\ SameAccount(Loaded(recs[k], 1), recs[k])
    OBVIOUS
  <2>2. RecordOK(recs[k]) /\ recs[k].id = k
    BY DEF RecordsOK
  <2>3. recs[k] \in Account
    BY <2>2 DEF RecordOK
  <2>4. recs[k] \in Row
    BY <2>3 DEF Account, Row
  <2>5. recs[k].id # NoId /\ recs[k].kind # "unset"
    BY <2>3, SharedStrings DEF Account
  <2>6. recs[k].apartment = NoApartment => recs[k].kind = "employee"
    BY <2>2, <2>3 DEF RecordOK, Account
  <2>7. SameAccount(Loaded(recs[k], 1), recs[k])
    BY <2>4, <2>5, <2>6, LoadedFields DEF SameAccount
  <2>8. QED
    BY <2>2, <2>4, <2>7 DEF RecordOK
<1>2. \A k, l \in DOMAIN recs :
         recs[k] # recs[l] => Compatible(Loaded(recs[k], 1), Loaded(recs[l], 1))
  BY <1>1 DEF RecordsOK, Compatible, SameAccount
<1>3. FileOK(Rows(recs))
  BY <1>1, <1>2 DEF FileOK, Rows
<1>4. FileIds(Rows(recs)) = DOMAIN recs
  BY <1>1 DEF FileIds, Rows, SameAccount
<1>5. QED
  BY <1>3, <1>4

\* Whatever becomes of a write, the file stays a well-formed set of accounts and
\* no account is in it that was neither there before nor in memory
\* (persistLocked).
LEMMA WriteOK ==
    ASSUME NEW recs, RecordsOK(recs), FileOK(file),
           NEW outcome, Persist(recs, outcome)
    PROVE  /\ FileOK(file')
           /\ FileIds(file') \subseteq FileIds(file) \cup DOMAIN recs
           /\ outcome \in {"saved", "unsaved", "lost"}
           /\ outcome = "saved" => file' = Rows(recs) /\ FileIds(file') = DOMAIN recs
           /\ outcome # "saved" => FileIds(file') \subseteq FileIds(file)
           /\ outcome = "unsaved" => file' = file
<1>1. outcome \in {"saved", "unsaved", "lost"}
  BY OutcomeAssumption DEF Persist
<1>2. CASE outcome = "saved"
  BY <1>2, RowsOK DEF Persist
<1>3. CASE outcome = "unsaved"
  BY <1>3 DEF Persist
<1>4. CASE outcome = "lost"
  BY <1>4 DEF Persist, FileOK, FileIds
<1>5. QED
  BY <1>1, <1>2, <1>3, <1>4

\* A record may be replaced by a well-formed version of the same account.
LEMMA ReplacedOK ==
    ASSUME NEW recs, RecordsOK(recs), NEW k \in DOMAIN recs,
           NEW a, RecordOK(a), SameAccount(a, recs[k])
    PROVE  RecordsOK([recs EXCEPT ![k] = a])
<1> DEFINE new == [recs EXCEPT ![k] = a]
<1>1. DOMAIN new = DOMAIN recs /\ new[k] = a
  OBVIOUS
<1>2. \A j \in DOMAIN recs : j # k => new[j] = recs[j]
  OBVIOUS
<1>3. \A j \in DOMAIN new : SameAccount(new[j], recs[j]) /\ RecordOK(new[j])
  BY <1>1, <1>2 DEF RecordsOK, SameAccount
<1>4. \A j \in DOMAIN new : new[j].id = j
  BY <1>1, <1>3 DEF RecordsOK, SameAccount
<1>5. \A j, l \in DOMAIN new : j # l => Compatible(new[j], new[l])
  BY <1>1, <1>3 DEF RecordsOK, SameAccount, Compatible
<1> HIDE DEF new
<1>6. RecordsOK(new)
  BY <1>1, <1>3, <1>4, <1>5 DEF RecordsOK
<1>7. QED
  BY <1>6 DEF new

-----------------------------------------------------------------------------
(* Changed and new accounts                                                *)

\* Changing password or devices leaves a record well formed as long as the new
\* list is within the limit.
LEMMA SameOwner ==
    ASSUME NEW a, RecordOK(a), NEW password \in Password, NEW devices \in Devices,
           Cardinality(Listed(devices)) <= a.max
    PROVE  LET b == [a EXCEPT !.password = password, !.devices = devices]
           IN  RecordOK(b) /\ SameAccount(b, a)
<1> DEFINE b == [a EXCEPT !.password = password, !.devices = devices]
<1>1. a \in Account
  BY DEF RecordOK
<1>2. b \in Account /\ SameAccount(b, a) /\ b.max = a.max /\ b.devices = devices
  BY <1>1 DEF Account, SameAccount
<1> HIDE DEF b
<1>3. LoadedLimit(b) = LoadedLimit(a)
  BY <1>2 DEF SameAccount, LoadedLimit
<1>4. Cardinality(Listed(b.devices)) <= LoadedLimit(b)
  BY <1>2, <1>3 DEF RecordOK
<1>5. WellFormed(b)
  BY <1>2, <1>4 DEF RecordOK, WellFormed, SameAccount
<1>6. RecordOK(b)
  BY <1>2, <1>3, <1>5 DEF RecordOK, SameAccount
<1>7. QED
  BY <1>2, <1>6 DEF b

\* The two accounts an administrator can create are well formed.
LEMMA NewAccountsOK ==
    ASSUME NEW id \in Id, NEW password \in Password, NEW t \in Nat
    PROVE  /\ \A apartment \in DOMAIN UsernameOf :
                 /\ RecordOK(NewResident(id, apartment, password, t))
                 /\ NewResident(id, apartment, password, t).id = id
           /\ \A name \in Username :
                 /\ RecordOK(NewEmployee(id, name, password, t))
                 /\ NewEmployee(id, name, password, t).id = id
<1>1. ASSUME NEW apartment \in DOMAIN UsernameOf
      PROVE  /\ RecordOK(NewResident(id, apartment, password, t))
             /\ NewResident(id, apartment, password, t).id = id
  <2> DEFINE u == NewResident(id, apartment, password, t)
  <2>1. apartment \in Apartment /\ UsernameOf[apartment] \in Username
    BY RegisteredApartments
  <2>2. t + ResidentLifetime \in Nat
    BY LimitsAssumption
  <2>3. u \in Account
    BY <2>1, <2>2, EmptyList, LimitsAssumption DEF NewResident, Account
  <2>4. /\ u.id = id /\ u.kind = "resident" /\ u.apartment = apartment
        /\ u.max = ResidentLimit /\ u.devices = NoDevices
    BY DEF NewResident
  <2> HIDE DEF u
  <2>5. LoadedLimit(u) = ResidentLimit
    BY <2>4 DEF LoadedLimit
  <2>6. Cardinality(Listed(u.devices)) <= LoadedLimit(u)
    BY <2>4, <2>5, EmptyList, LimitsAssumption
  <2>7. u.apartment # NoApartment
    BY <2>1, <2>4, SharedStrings
  <2>8. RecordOK(u)
    BY <2>3, <2>4, <2>5, <2>6, <2>7 DEF RecordOK, WellFormed
  <2>9. QED
    BY <2>4, <2>8 DEF u
<1>2. ASSUME NEW name \in Username
      PROVE  /\ RecordOK(NewEmployee(id, name, password, t))
             /\ NewEmployee(id, name, password, t).id = id
  <2> DEFINE u == NewEmployee(id, name, password, t)
  <2>1. t + EmployeeLifetime \in Nat
    BY LimitsAssumption
  <2>2. u \in Account
    BY <2>1, EmptyList, LimitsAssumption DEF NewEmployee, Account
  <2>3. /\ u.id = id /\ u.kind = "employee" /\ u.apartment = NoApartment
        /\ u.max = EmployeeLimit /\ u.devices = NoDevices
    BY DEF NewEmployee
  <2> HIDE DEF u
  <2>4. LoadedLimit(u) = EmployeeLimit
    BY <2>3, LimitsAssumption DEF LoadedLimit
  <2>5. Cardinality(Listed(u.devices)) <= LoadedLimit(u)
    BY <2>3, <2>4, EmptyList, LimitsAssumption
  <2>6. RecordOK(u)
    BY <2>2, <2>3, <2>4, <2>5 DEF RecordOK, WellFormed
  <2>7. QED
    BY <2>3, <2>6 DEF u
<1>3. QED
  BY <1>1, <1>2

-----------------------------------------------------------------------------
(* The operations                                                          *)

\* The first start finds a well-formed file and turns it into memory (load).
LEMMA InitOK ==
    ASSUME RepositoryInit
    PROVE  now = 1 /\ RecordsOK(records) /\ FileOK(file)
<1>1. FileOK(InitialFile)
  BY InitialFileAssumption DEF FileOK
<1>2. RecordsOK(Load(InitialFile, 1))
  BY <1>1, LoadOK
<1>3. QED
  BY <1>1, <1>2 DEF RepositoryInit

\* So does every later one.
LEMMA ReloadOK ==
    ASSUME now \in Nat, FileOK(file), Reload
    PROVE  /\ RecordsOK(records') /\ FileOK(file') /\ now' = now /\ file' = file
           /\ \A k \in DOMAIN records' : \E row \in file : records'[k] = Loaded(row, now)
<1>1. RecordsOK(Load(file, now))
  BY LoadOK
<1>2. \A k \in DOMAIN Load(file, now) : \E row \in file : Load(file, now)[k] = Loaded(row, now)
  <2> SUFFICES ASSUME NEW k \in DOMAIN Load(file, now)
               PROVE  \E row \in file : Load(file, now)[k] = Loaded(row, now)
    OBVIOUS
  <2>1. k \in FileIds(file)
    BY LoadOK
  <2>2. PICK row \in file : Loaded(row, 1).id = k
    BY <2>1 DEF FileIds
  <2>3. Loaded(row, now).id = k
    BY <2>2, LoadedOK DEF FileOK
  <2>4. QED
    BY <2>3, LoadOK
<1>3. QED
  BY <1>1, <1>2 DEF Reload

\* A registration changes one device list, within the limit of its account.
LEMMA RegisterOK ==
    ASSUME now \in Nat, RecordsOK(records), FileOK(file),
           NEW name, NEW mac \in Mac, NEW until \in Nat, NEW outcome,
           RegisterDevice(name, mac, until, outcome)
    PROVE  /\ RecordsOK(records') /\ FileOK(file') /\ now' = now
           /\ \E k \in Owner(name) :
                 /\ HasRoom(records[k], mac, now)
                 /\ records' = [records EXCEPT ![k].devices = WithDevice(@, mac, until, now)]
           /\ outcome \in {"saved", "unsaved", "lost"}
           /\ file' \in {Rows(records'), file, {}}
<1>1. PICK k \in Owner(name) :
         /\ HasRoom(records[k], mac, now)
         /\ Commit([records EXCEPT ![k].devices = WithDevice(@, mac, until, now)], outcome)
  BY DEF RegisterDevice
<1> DEFINE a == records[k]
           d == WithDevice(a.devices, mac, until, now)
           b == [a EXCEPT !.devices = d]
           recs == [records EXCEPT ![k] = b]
<1>2. k \in DOMAIN records /\ RecordOK(a) /\ a \in Account
  BY DEF Owner, RecordsOK, RecordOK
<1>3. a.max = LoadedLimit(a) /\ Cardinality(Listed(a.devices)) <= a.max
  BY <1>2 DEF RecordOK, WellFormed
<1>4. d \in Devices /\ Cardinality(Listed(d)) <= a.max
  BY <1>1, <1>2, <1>3, RoomIsEnough
<1>5. b = [a EXCEPT !.password = a.password, !.devices = d]
  BY <1>2 DEF Account
<1>6. a.password \in Password
  BY <1>2 DEF Account
<1>7. RecordOK(b) /\ SameAccount(b, a)
  <2> HIDE DEF a, b, d
  <2>1. QED
    BY <1>2, <1>4, <1>5, <1>6, SameOwner
<1>8. RecordsOK(recs)
  <2> HIDE DEF b
  <2>1. QED
    BY <1>2, <1>7, ReplacedOK
<1>9. records' = recs /\ Persist(recs, outcome) /\ now' = now
  BY <1>1, <1>2 DEF Commit
<1>10. FileOK(file') /\ outcome \in {"saved", "unsaved", "lost"}
  <2> HIDE DEF recs
  <2>1. QED
    BY <1>8, <1>9, WriteOK
<1>11. file' \in {Rows(records'), file, {}}
  BY <1>9, <1>10 DEF Persist
<1>12. QED
  BY <1>1, <1>2, <1>8, <1>9, <1>10, <1>11

\* A removal shortens one device list.
LEMMA RemoveOK ==
    ASSUME now \in Nat, RecordsOK(records), FileOK(file),
           NEW name, NEW mac \in Mac, NEW outcome, RemoveDevice(name, mac, outcome)
    PROVE  /\ RecordsOK(records') /\ FileOK(file') /\ now' = now
           /\ \E k \in Owner(name) :
                 records' = [records EXCEPT ![k].devices = WithoutDevice(@, mac)]
           /\ outcome \in {"saved", "unsaved", "lost"}
           /\ file' \in {Rows(records'), file, {}}
<1>1. PICK k \in Owner(name) :
         Commit([records EXCEPT ![k].devices = WithoutDevice(@, mac)], outcome)
  BY DEF RemoveDevice
<1> DEFINE a == records[k]
           d == WithoutDevice(a.devices, mac)
           b == [a EXCEPT !.devices = d]
           recs == [records EXCEPT ![k] = b]
<1>2. k \in DOMAIN records /\ RecordOK(a) /\ a \in Account
  BY DEF Owner, RecordsOK, RecordOK
<1>3. /\ a.max \in Nat /\ a.devices \in Devices /\ a.password \in Password
      /\ Cardinality(Listed(a.devices)) <= a.max
  BY <1>2 DEF RecordOK, WellFormed, Account
<1>4. d \in Devices /\ Cardinality(Listed(d)) <= a.max
  BY <1>3, RemovalIsSafe
<1>5. b = [a EXCEPT !.password = a.password, !.devices = d]
  BY <1>2 DEF Account
<1>6. RecordOK(b) /\ SameAccount(b, a)
  <2> HIDE DEF a, b, d
  <2>1. QED
    BY <1>2, <1>3, <1>4, <1>5, SameOwner
<1>7. RecordsOK(recs)
  <2> HIDE DEF b
  <2>1. QED
    BY <1>2, <1>6, ReplacedOK
<1>8. records' = recs /\ Persist(recs, outcome) /\ now' = now
  BY <1>1, <1>2 DEF Commit
<1>9. FileOK(file') /\ outcome \in {"saved", "unsaved", "lost"}
  <2> HIDE DEF recs
  <2>1. QED
    BY <1>7, <1>8, WriteOK
<1>10. file' \in {Rows(records'), file, {}}
  BY <1>8, <1>9 DEF Persist
<1>11. QED
  BY <1>1, <1>2, <1>7, <1>8, <1>9, <1>10
=============================================================================
