--------------------------- MODULE UserRepository ---------------------------
(***************************************************************************)
(* The local account repository: a map of records guarded by one           *)
(* read-write mutex, written out in full to a JSON file by every mutating  *)
(* operation before the mutex is released.  One operation is therefore one *)
(* step of the model; what varies is the outcome of writing the file:      *)
(*   "saved"    the new file replaced the old one;                         *)
(*   "unsaved"  an error left the old file in place;                       *)
(*   "lost"     the rename failed, the fallback removed the old file and   *)
(*              renaming failed again: there is no file.                   *)
(* A missing file and an empty one load alike, so both are {}.             *)
(***************************************************************************)
EXTENDS Accounts

CONSTANTS
    PersistOutcome,   \* the outcomes above that can happen
    InitialFile,      \* the rows found at the first start
    MaxTime           \* bound on the clock

VARIABLES
    now,       \* the clock
    records,   \* the map in memory: id to account
    file       \* the rows on disk

repositoryVars == <<now, records, file>>

ASSUME OutcomeAssumption == PersistOutcome \subseteq {"saved", "unsaved", "lost"}

\* No account trusts more devices than its limit, and only residents have an
\* apartment.
WellFormed(row) ==
    /\ Cardinality(Listed(row.devices)) <= LoadedLimit(row)
    /\ row.kind = "employee" => row.apartment = NoApartment

\* Two accounts that the repository may hold together.
Compatible(a, b) ==
    /\ a.id # b.id
    /\ a.username # b.username
    /\ a.apartment = NoApartment \/ a.apartment # b.apartment

\* The first file was written by this program or one of its earlier versions.
ASSUME InitialFileAssumption ==
    /\ InitialFile \subseteq Row
    /\ \A row \in InitialFile : WellFormed(row)
    /\ \A r1, r2 \in InitialFile :
          r1 # r2 => Compatible(Loaded(r1, 1), Loaded(r2, 1))

ASSUME MaxTimeAssumption == MaxTime \in Nat \ {0}

-----------------------------------------------------------------------------
WithRecord(recs, id, account) ==
    [k \in DOMAIN recs \cup {id} |-> IF k = id THEN account ELSE recs[k]]

WithoutRecord(recs, id) == [k \in DOMAIN recs \ {id} |-> recs[k]]

Rows(recs) == {recs[k] : k \in DOMAIN recs}

Load(rows, t) ==
    LET loaded == {Loaded(row, t) : row \in rows}
    IN [k \in {a.id : a \in loaded} |-> CHOOSE a \in loaded : a.id = k]

\* Mutant of Persist: the rows are taken before the change is made.
PersistStale(recs, outcome) ==
    /\ outcome \in PersistOutcome
    /\ file' = CASE outcome = "saved"   -> Rows(records)
                 [] outcome = "unsaved" -> file
                 [] outcome = "lost"    -> {}

\* The file after the attempt to write recs.
Persist(recs, outcome) ==
    /\ outcome \in PersistOutcome
    /\ file' = CASE outcome = "saved"   -> Rows(recs)
                 [] outcome = "unsaved" -> file
                 [] outcome = "lost"    -> {}

\* Write recs to memory first and to the file second.  A failed write is
\* reported to the caller but memory keeps the change.
Commit(recs, outcome) ==
    /\ records' = recs
    /\ Persist(recs, outcome)
    /\ UNCHANGED now

Owner(name) == {k \in DOMAIN records : records[k].username = name}

-----------------------------------------------------------------------------
\* Mutant of Available: only ids are compared.
AvailableById(u) == u.id \notin DOMAIN records

Available(u) ==
    /\ u.id \notin DOMAIN records
    /\ \A k \in DOMAIN records :
          /\ records[k].username # u.username
          /\ u.apartment = NoApartment \/ records[k].apartment # u.apartment

\* Mutant of Create: a failed write is reported but not undone in memory.
CreateWithoutUndo(u, outcome) ==
    /\ Available(u)
    /\ Commit(WithRecord(records, u.id, u), outcome)

\* The only operation that undoes its change when the file was not written.
Create(u, outcome) ==
    LET recs == WithRecord(records, u.id, u)
    IN /\ Available(u)
       /\ records' = IF outcome = "saved" THEN recs ELSE records
       /\ Persist(recs, outcome)
       /\ UNCHANGED now

Registrable(name, mac) ==
    \E k \in Owner(name) : HasRoom(records[k], mac, now)

\* RegisterDevice reports TRUE when the device was not trusted before.
NewlyTrusted(name, mac) ==
    \E k \in Owner(name) : mac \notin Live(records[k].devices, now)

RegisterDevice(name, mac, until, outcome) ==
    \E k \in Owner(name) :
        /\ HasRoom(records[k], mac, now)
        /\ Commit([records EXCEPT ![k].devices = WithDevice(@, mac, until, now)],
                  outcome)

RemoveDevice(name, mac, outcome) ==
    \E k \in Owner(name) :
        Commit([records EXCEPT ![k].devices = WithoutDevice(@, mac)], outcome)

\* Mutant of Update: an account that is gone is put back.
UpdateOrInsert(u, outcome) == Commit(WithRecord(records, u.id, u), outcome)

\* The caller's copy u replaces the record, but for password and devices.
Update(u, outcome) ==
    /\ u.id \in DOMAIN records
    /\ Commit([records EXCEPT ![u.id] = [u EXCEPT !.password = records[u.id].password,
                                                  !.devices = records[u.id].devices]],
              outcome)

\* Mutant of ReplacePasswordAndClearDevices: only the devices are cleared.
ClearDevicesOnly(id, password, outcome) ==
    /\ id \in DOMAIN records
    /\ Commit([records EXCEPT ![id].devices = NoDevices], outcome)

ReplacePasswordAndClearDevices(id, password, outcome) ==
    /\ id \in DOMAIN records
    /\ Commit([records EXCEPT ![id].password = password, ![id].devices = NoDevices],
              outcome)

\* Mutant of Delete: the file is left for the next write to catch up.
DeleteInMemory(id, outcome) ==
    /\ id \in DOMAIN records
    /\ outcome \in PersistOutcome
    /\ records' = WithoutRecord(records, id)
    /\ UNCHANGED <<now, file>>

Delete(id, outcome) ==
    /\ id \in DOMAIN records
    /\ Commit(WithoutRecord(records, id), outcome)

\* The process ends and is started again on the file it left behind.
Reload ==
    /\ records' = Load(file, now)
    /\ UNCHANGED <<now, file>>

Tick ==
    /\ now < MaxTime
    /\ now' = now + 1
    /\ UNCHANGED <<records, file>>

-----------------------------------------------------------------------------
RepositoryInit ==
    /\ now = 1
    /\ file = InitialFile
    /\ records = Load(InitialFile, 1)

RepositoryTypeOK ==
    /\ now \in 1 .. MaxTime
    /\ DOMAIN records \subseteq Id
    /\ \A k \in DOMAIN records : records[k] \in Account
    /\ file \subseteq Row
=============================================================================
